---------------------------- MODULE MailboxProofs -----------------------------
(***************************************************************************)
(* The mail keeps the post office's promise, for any contexts and any      *)
(* number of letters.                                                      *)
(*                                                                         *)
(* The queues that hold a letter which is under way or waits in a box are  *)
(* looked at as one family, so that a step takes a letter from the head of *)
(* one of them, puts one at the end of one of them, or does both.          *)
(***************************************************************************)
EXTENDS Mailbox, SequenceTheorems, TLAPS

Central == <<"central", Outsider>>
Hand == <<"hand", Outsider>>
OnTheWay == {Central, Hand}
Boxes == {"inbox", "rest"} \X Owners
Places == OnTheWay \cup Boxes

InHand == IF carried = <<>> THEN <<>> ELSE <<carried[1]>>

Shelf == [p \in Places |-> IF p = Central THEN central ELSE IF p = Hand THEN InHand
                            ELSE IF p[1] = "inbox" THEN inbox[p[2]] ELSE rest[p[2]]]

Shelves == [Places -> Seq(Letters)]
Dropped(sh, p) == [sh EXCEPT ![p] = Tail(@)]
Added(sh, p, l) == [sh EXCEPT ![p] = Append(@, l)]
On(sh, P) == UNION {Range(sh[p]) : p \in P}

\* A number lies in one place: a letter, or the notice that replaced it.
Once(sh) == \A p, q \in Places : \A i \in 1..Len(sh[p]), j \in 1..Len(sh[q]) :
                sh[p][i].no = sh[q][j].no => p = q /\ i = j

Taken == UNION {Range(read[o]) : o \in Owners}

Numbered == \A l \in On(Shelf, Places) \cup Taken \cup orphans : l.no <= posted

\* Who sends or is sent a letter has been registered, if it is a context.
EndsKnown == \A l \in On(Shelf, Places) : \A o \in {l.from, l.to} \cap Owners : home[o] # "new"

\* What the Dispatcher saw when it looked the addressee up: ids do not come back.
LookedUp == carried # <<>> => IF carried[2] THEN carried[1].to \in Owners
                              ELSE carried[1].to \in Owners => home[carried[1].to] = "closed"

MailInv == TypeOK /\ Once(Shelf) /\ Numbered /\ EndsKnown /\ LookedUp

--------------------------------------------------------------------------------
(* The family of queues *)

(* What is left of a list when its first element is gone. *)
LEMMA TailFacts ==
    ASSUME NEW S, NEW s \in Seq(S), s # <<>>
    PROVE  /\ Head(s) = s[1] /\ Head(s) \in S /\ Tail(s) \in Seq(S)
           /\ Len(s) \in Nat \ {0} /\ Len(Tail(s)) = Len(s) - 1
           /\ \A i \in 1..Len(Tail(s)) : Tail(s)[i] = s[i + 1]
           /\ Range(s) = Range(Tail(s)) \cup {Head(s)}
<1>1. /\ Head(s) = s[1] /\ Head(s) \in S /\ Tail(s) \in Seq(S)
      /\ Len(s) \in Nat \ {0} /\ Len(Tail(s)) = Len(s) - 1
      /\ \A i \in 1..Len(Tail(s)) : Tail(s)[i] = s[i + 1]
  BY HeadTailProperties, LenProperties, EmptySeq
<1>2. DOMAIN s = 1..Len(s) /\ DOMAIN Tail(s) = 1..(Len(s) - 1)
  BY <1>1, LenProperties
<1>3. \A i \in 1..Len(s) : i = 1 \/ (i - 1 \in 1..(Len(s) - 1) /\ s[i] = Tail(s)[i - 1])
  BY <1>1
<1>4. \A x \in Range(s) : x \in Range(Tail(s)) \cup {Head(s)}
  <2> SUFFICES ASSUME NEW i \in 1..Len(s), s[i] # Head(s) PROVE s[i] \in Range(Tail(s))
    BY <1>2 DEF Range
  <2>1. i - 1 \in DOMAIN Tail(s) /\ s[i] = Tail(s)[i - 1]
    BY <1>1, <1>2, <1>3
  <2> QED BY <2>1 DEF Range
<1>5. Range(Tail(s)) \cup {Head(s)} \subseteq Range(s)
  <2>1. \A i \in 1..(Len(s) - 1) : i + 1 \in 1..Len(s) /\ Tail(s)[i] = s[i + 1]
    BY <1>1
  <2> QED BY <1>1, <1>2, <2>1 DEF Range
<1> QED BY <1>1, <1>4, <1>5

(* What a list is when an element was appended. *)
LEMMA AppendFacts ==
    ASSUME NEW S, NEW s \in Seq(S), NEW e \in S
    PROVE  /\ Append(s, e) \in Seq(S) /\ Len(s) \in Nat /\ Len(Append(s, e)) = Len(s) + 1
           /\ \A i \in 1..Len(s) : Append(s, e)[i] = s[i]
           /\ Append(s, e)[Len(s) + 1] = e
           /\ Range(Append(s, e)) = Range(s) \cup {e}
<1>1. /\ Append(s, e) \in Seq(S) /\ Len(s) \in Nat /\ Len(Append(s, e)) = Len(s) + 1
      /\ \A i \in 1..Len(s) : Append(s, e)[i] = s[i]
      /\ Append(s, e)[Len(s) + 1] = e
  BY AppendProperties, LenProperties
<1>2. DOMAIN s = 1..Len(s) /\ DOMAIN Append(s, e) = 1..(Len(s) + 1)
  BY <1>1, LenProperties
<1>3. 1..(Len(s) + 1) = (1..Len(s)) \cup {Len(s) + 1}
  BY <1>1
<1>4. Range(s) = {s[i] : i \in 1..Len(s)} /\ Range(Append(s, e)) = {Append(s, e)[i] : i \in 1..(Len(s) + 1)}
  BY <1>2 DEF Range
<1>5. Range(Append(s, e)) = {Append(s, e)[i] : i \in 1..Len(s)} \cup {e}
  BY <1>1, <1>3, <1>4
<1>6. {Append(s, e)[i] : i \in 1..Len(s)} = {s[i] : i \in 1..Len(s)}
  BY <1>1
<1> QED BY <1>1, <1>4, <1>5, <1>6

(* A letter that is taken from the head of its queue is nowhere else, nor is its number. *)
LEMMA DropFacts ==
    ASSUME NEW sh \in Shelves, Once(sh), NEW p \in Places, sh[p] # <<>>
    PROVE  /\ Dropped(sh, p) \in Shelves /\ Once(Dropped(sh, p)) /\ Head(sh[p]) \in Letters
           /\ \A q \in Places : \A i \in 1..Len(Dropped(sh, p)[q]) :
                 Dropped(sh, p)[q][i].no # Head(sh[p]).no
           /\ \A P \in SUBSET Places :
                 On(Dropped(sh, p), P) = IF p \in P THEN On(sh, P) \ {Head(sh[p])} ELSE On(sh, P)
<1> DEFINE h == Head(sh[p])
           new == Dropped(sh, p)
<1>1. /\ \A q \in Places : sh[q] \in Seq(Letters) /\ Len(sh[q]) \in Nat
                           /\ DOMAIN sh[q] = 1..Len(sh[q])
  BY LenProperties DEF Shelves
<1>2. /\ h = sh[p][1] /\ h \in Letters /\ Tail(sh[p]) \in Seq(Letters)
      /\ Len(sh[p]) \in Nat \ {0} /\ Len(Tail(sh[p])) = Len(sh[p]) - 1
      /\ \A i \in 1..Len(Tail(sh[p])) : Tail(sh[p])[i] = sh[p][i + 1]
      /\ Range(sh[p]) = Range(Tail(sh[p])) \cup {h}
  BY <1>1, TailFacts
<1>3. /\ new \in Shelves /\ new[p] = Tail(sh[p])
      /\ \A q \in Places \ {p} : new[q] = sh[q]
  BY <1>1, <1>2 DEF Dropped, Shelves
<1>4. \A q \in Places : \A i \in 1..Len(new[q]) :
          \E k \in 1..Len(sh[q]) : /\ new[q][i] = sh[q][k] /\ k = IF q = p THEN i + 1 ELSE i
  <2> SUFFICES ASSUME NEW q \in Places, NEW i \in 1..Len(new[q])
               PROVE  \E k \in 1..Len(sh[q]) :
                         new[q][i] = sh[q][k] /\ k = IF q = p THEN i + 1 ELSE i
    OBVIOUS
  <2>1. CASE q = p
    <3>1. new[q] = Tail(sh[p]) /\ i \in 1..(Len(sh[p]) - 1)
      BY <1>2, <1>3, <2>1
    <3>2. i + 1 \in 1..Len(sh[p]) /\ new[q][i] = sh[p][i + 1]
      BY <1>2, <3>1
    <3> QED BY <2>1, <3>2
  <2>2. CASE q # p
    BY <1>3, <2>2
  <2> QED BY <2>1, <2>2
<1>5. Once(new)
  <2> SUFFICES ASSUME NEW q \in Places, NEW r \in Places, NEW i \in 1..Len(new[q]),
                      NEW j \in 1..Len(new[r]), new[q][i].no = new[r][j].no
               PROVE  q = r /\ i = j
    BY DEF Once
  <2>1. PICK k \in 1..Len(sh[q]) : new[q][i] = sh[q][k] /\ k = IF q = p THEN i + 1 ELSE i
    BY <1>4
  <2>2. PICK m \in 1..Len(sh[r]) : new[r][j] = sh[r][m] /\ m = IF r = p THEN j + 1 ELSE j
    BY <1>4
  <2>3. q = r /\ k = m
    BY <2>1, <2>2 DEF Once
  <2>4. i \in Int /\ j \in Int
    BY <1>1, <1>2, <1>3
  <2> QED BY <2>1, <2>2, <2>3, <2>4
<1>6. \A q \in Places : \A i \in 1..Len(new[q]) : new[q][i].no # h.no
  <2> SUFFICES ASSUME NEW q \in Places, NEW i \in 1..Len(new[q]), new[q][i].no = h.no PROVE FALSE
    OBVIOUS
  <2>1. PICK k \in 1..Len(sh[q]) : new[q][i] = sh[q][k] /\ k = IF q = p THEN i + 1 ELSE i
    BY <1>4
  <2>2. 1 \in 1..Len(sh[p]) /\ i >= 1
    BY <1>2
  <2>3. q = p /\ k = 1
    BY <1>2, <2>1, <2>2 DEF Once
  <2> QED BY <2>1, <2>2, <2>3
<1>7. \A q \in Places : /\ h \notin Range(new[q])
                        /\ Range(new[q]) = IF q = p THEN Range(sh[q]) \ {h} ELSE Range(sh[q])
  <2>1. \A q \in Places : new[q] \in Seq(Letters) /\ DOMAIN new[q] = 1..Len(new[q])
    BY <1>3, LenProperties DEF Shelves
  <2>2. \A q \in Places : h \notin Range(new[q])
    BY <1>6, <2>1 DEF Range
  <2> QED BY <1>2, <1>3, <2>2
<1>8. ASSUME NEW P \in SUBSET Places
      PROVE  On(new, P) = IF p \in P THEN On(sh, P) \ {h} ELSE On(sh, P)
  <2> HIDE DEF new, h
  <2>1. CASE p \in P
    <3>1. \A x : x \in On(new, P) <=> x \in On(sh, P) \ {h}
      BY <1>7, <2>1, ZenonT(40) DEF On
    <3> QED BY <2>1, <3>1
  <2>2. CASE p \notin P
    <3>1. \A x : x \in On(new, P) <=> x \in On(sh, P)
      BY <1>7, <2>2 DEF On
    <3> QED BY <2>2, <3>1
  <2> QED BY <2>1, <2>2
<1> QED BY <1>2, <1>3, <1>5, <1>6, <1>8

(* A letter with a new number is put at the end of a queue. *)
LEMMA AddFacts ==
    ASSUME NEW sh \in Shelves, Once(sh), NEW p \in Places, NEW l \in Letters,
           \A q \in Places : \A i \in 1..Len(sh[q]) : sh[q][i].no # l.no
    PROVE  /\ Added(sh, p, l) \in Shelves /\ Once(Added(sh, p, l))
           /\ \A P \in SUBSET Places :
                 On(Added(sh, p, l), P) = IF p \in P THEN On(sh, P) \cup {l} ELSE On(sh, P)
<1> DEFINE new == Added(sh, p, l)
<1>1. /\ \A q \in Places : sh[q] \in Seq(Letters) /\ Len(sh[q]) \in Nat
  BY LenProperties DEF Shelves
<1>2. /\ Append(sh[p], l) \in Seq(Letters) /\ Len(Append(sh[p], l)) = Len(sh[p]) + 1
      /\ \A i \in 1..Len(sh[p]) : Append(sh[p], l)[i] = sh[p][i]
      /\ Append(sh[p], l)[Len(sh[p]) + 1] = l
      /\ Range(Append(sh[p], l)) = Range(sh[p]) \cup {l}
  BY <1>1, AppendFacts
<1>3. /\ new \in Shelves /\ new[p] = Append(sh[p], l)
      /\ \A q \in Places \ {p} : new[q] = sh[q]
  BY <1>1, <1>2 DEF Added, Shelves
<1>4. \A q \in Places : \A i \in 1..Len(new[q]) :
          \/ i \in 1..Len(sh[q]) /\ new[q][i] = sh[q][i]
          \/ q = p /\ i = Len(sh[p]) + 1 /\ new[q][i] = l
  BY <1>1, <1>2, <1>3, SMTT(30)
<1>5. Once(new)
  <2> SUFFICES ASSUME NEW q \in Places, NEW r \in Places, NEW i \in 1..Len(new[q]),
                      NEW j \in 1..Len(new[r]), new[q][i].no = new[r][j].no
               PROVE  q = r /\ i = j
    BY DEF Once
  <2> HIDE DEF new
  <2>1. CASE i \in 1..Len(sh[q]) /\ new[q][i] = sh[q][i]
    <3>1. j \in 1..Len(sh[r]) /\ new[r][j] = sh[r][j]
      BY <1>4, <2>1
    <3> QED BY <2>1, <3>1 DEF Once
  <2>2. CASE q = p /\ i = Len(sh[p]) + 1 /\ new[q][i] = l
    <3>1. r = p /\ j = Len(sh[p]) + 1
      BY <1>4, <2>2
    <3> QED BY <2>2, <3>1
  <2> QED BY <1>4, <2>1, <2>2
<1>6. ASSUME NEW P \in SUBSET Places
      PROVE  On(new, P) = IF p \in P THEN On(sh, P) \cup {l} ELSE On(sh, P)
  <2>1. \A q \in Places : Range(new[q]) = IF q = p THEN Range(sh[q]) \cup {l} ELSE Range(sh[q])
    BY <1>2, <1>3
  <2> HIDE DEF new
  <2>2. CASE p \in P
    <3>1. \A x : x \in On(new, P) <=> x \in On(sh, P) \cup {l}
      BY <2>1, <2>2, ZenonT(40) DEF On
    <3> QED BY <2>2, <3>1
  <2>3. CASE p \notin P
    <3>1. \A x : x \in On(new, P) <=> x \in On(sh, P)
      BY <2>1, <2>3 DEF On
    <3> QED BY <2>3, <3>1
  <2> QED BY <2>2, <2>3
<1> QED BY <1>3, <1>5, <1>6

--------------------------------------------------------------------------------
(* The family and the variables *)

LEMMA PlacesFacts ==
    /\ Central \in Places /\ Hand \in Places /\ Central # Hand
    /\ Central \notin Boxes /\ Hand \notin Boxes
    /\ OnTheWay \subseteq Places /\ Boxes \subseteq Places /\ Places = OnTheWay \cup Boxes
    /\ \A o \in Owners : /\ <<"inbox", o>> \in Boxes /\ <<"rest", o>> \in Boxes
                         /\ <<"inbox", o>> \notin OnTheWay /\ <<"rest", o>> \notin OnTheWay
                         /\ <<"inbox", o>> # <<"rest", o>>
    /\ \A p \in Boxes : \E o \in Owners : p = <<"inbox", o>> \/ p = <<"rest", o>>
BY DEF Central, Hand, OnTheWay, Boxes, Places

LEMMA ShelfIs ==
    ASSUME TypeOK
    PROVE  /\ Shelf \in Shelves /\ Shelf[Central] = central /\ Shelf[Hand] = InHand
           /\ \A o \in Owners : Shelf[<<"inbox", o>>] = inbox[o] /\ Shelf[<<"rest", o>>] = rest[o]
<1>1. Shelf[Central] = central /\ Shelf[Hand] = InHand
  BY PlacesFacts DEF Shelf
<1>2. \A o \in Owners : Shelf[<<"inbox", o>>] = inbox[o] /\ Shelf[<<"rest", o>>] = rest[o]
  BY PlacesFacts DEF Shelf, Central, Hand
<1>3. central \in Seq(Letters) /\ \A o \in Owners : inbox[o] \in Seq(Letters) /\ rest[o] \in Seq(Letters)
  BY DEF TypeOK
<1>4. InHand \in Seq(Letters)
  <2>1. CASE carried = <<>>
    BY <2>1, EmptySeq DEF InHand
  <2>2. CASE carried # <<>>
    <3>1. carried[1] \in Letters
      BY <2>2 DEF TypeOK
    <3> QED BY <2>2, <3>1 DEF InHand
  <2> QED BY <2>1, <2>2
<1>5. \A p \in Places : Shelf[p] \in Seq(Letters)
  BY <1>1, <1>2, <1>3, <1>4, PlacesFacts DEF OnTheWay
<1>6. Shelf = [p \in Places |-> Shelf[p]]
  BY DEF Shelf
<1> QED BY <1>1, <1>2, <1>5, <1>6 DEF Shelves

\* A family with these queues is the next one.
LEMMA ShelfBecomes ==
    ASSUME NEW sh \in Shelves, sh[Central] = central', sh[Hand] = InHand',
           \A o \in Owners : sh[<<"inbox", o>>] = inbox'[o] /\ sh[<<"rest", o>>] = rest'[o]
    PROVE  Shelf' = sh
<1>1. \A p \in Places : Shelf'[p] = sh[p]
  <2>1. Shelf'[Central] = central' /\ Shelf'[Hand] = InHand'
    BY PlacesFacts DEF Shelf
  <2>2. \A o \in Owners : Shelf'[<<"inbox", o>>] = inbox'[o] /\ Shelf'[<<"rest", o>>] = rest'[o]
    BY PlacesFacts DEF Shelf, Central, Hand
  <2> SUFFICES ASSUME NEW p \in Places PROVE Shelf'[p] = sh[p]
    OBVIOUS
  <2>3. CASE p \in OnTheWay
    BY <2>1, <2>3 DEF OnTheWay
  <2>4. CASE p \in Boxes
    <3>1. PICK o \in Owners : p = <<"inbox", o>> \/ p = <<"rest", o>>
      BY <2>4, PlacesFacts
    <3>2. CASE p = <<"inbox", o>>
      BY <2>2, <3>2
    <3>3. CASE p = <<"rest", o>>
      BY <2>2, <3>3
    <3> QED BY <3>1, <3>2, <3>3
  <2> QED BY <2>3, <2>4, PlacesFacts
<1>2. Shelf' = [p \in Places |-> Shelf'[p]]
  BY DEF Shelf
<1>3. sh = [p \in Places |-> sh[p]]
  BY DEF Shelves
<1> QED BY <1>1, <1>2, <1>3

\* What the post office sees of the family.
Moving == Range(central) \cup (IF carried = <<>> THEN {} ELSE {carried[1]})
InBox == UNION {Held(o) : o \in Owners}

LEMMA OnFacts ==
    ASSUME NEW sh \in Shelves
    PROVE  /\ On(sh, OnTheWay) = Range(sh[Central]) \cup Range(sh[Hand])
           /\ On(sh, Boxes) = UNION {Range(sh[<<"inbox", o>>]) \cup Range(sh[<<"rest", o>>]) : o \in Owners}
           /\ On(sh, Places) = On(sh, OnTheWay) \cup On(sh, Boxes)
<1>1. On(sh, OnTheWay) = Range(sh[Central]) \cup Range(sh[Hand])
  BY DEF On, OnTheWay
<1>2. \A p \in Boxes : \E o \in Owners : p = <<"inbox", o>> \/ p = <<"rest", o>>
  BY PlacesFacts
<1>3. \A o \in Owners : <<"inbox", o>> \in Boxes /\ <<"rest", o>> \in Boxes
  BY PlacesFacts
<1>4. On(sh, Boxes) = UNION {Range(sh[<<"inbox", o>>]) \cup Range(sh[<<"rest", o>>]) : o \in Owners}
  <2>1. \A x : x \in On(sh, Boxes) =>
                 \E o \in Owners : x \in Range(sh[<<"inbox", o>>]) \cup Range(sh[<<"rest", o>>])
    BY <1>2 DEF On
  <2>2. \A o \in Owners : Range(sh[<<"inbox", o>>]) \cup Range(sh[<<"rest", o>>]) \subseteq On(sh, Boxes)
    BY <1>3 DEF On
  <2> QED BY <2>1, <2>2
<1>5. On(sh, Places) = On(sh, OnTheWay) \cup On(sh, Boxes)
  BY PlacesFacts DEF On
<1> QED BY <1>1, <1>4, <1>5

LEMMA HandHolds ==
    ASSUME NEW c
    PROVE  Range(IF c = <<>> THEN <<>> ELSE <<c[1]>>) = IF c = <<>> THEN {} ELSE {c[1]}
<1>1. CASE c = <<>>
  <2>1. <<>> \in Seq(Letters) /\ Len(<<>>) = 0
    BY EmptySeq
  <2>2. DOMAIN <<>> = {}
    BY <2>1, LenProperties
  <2>3. Range(<<>>) = {}
    BY <2>2 DEF Range
  <2> QED BY <1>1, <2>3
<1>2. CASE c # <<>>
  <2>1. DOMAIN <<c[1]>> = {1} /\ <<c[1]>>[1] = c[1]
    OBVIOUS
  <2>2. Range(<<c[1]>>) = {c[1]}
    BY <2>1 DEF Range
  <2> QED BY <1>2, <2>2
<1> QED BY <1>1, <1>2

LEMMA OfficeSees ==
    ASSUME TypeOK
    PROVE  /\ Moving = On(Shelf, OnTheWay) /\ InBox = On(Shelf, Boxes)
           /\ On(Shelf, Places) = Moving \cup InBox
<1>1. /\ Shelf \in Shelves /\ Shelf[Central] = central /\ Shelf[Hand] = InHand
      /\ \A o \in Owners : Shelf[<<"inbox", o>>] = inbox[o] /\ Shelf[<<"rest", o>>] = rest[o]
  BY ShelfIs
<1>2. Range(InHand) = IF carried = <<>> THEN {} ELSE {carried[1]}
  BY HandHolds DEF InHand
<1>3. Moving = On(Shelf, OnTheWay)
  BY <1>1, <1>2, OnFacts DEF Moving
<1>4. InBox = On(Shelf, Boxes)
  <2>1. \A o \in Owners : Held(o) = Range(Shelf[<<"inbox", o>>]) \cup Range(Shelf[<<"rest", o>>])
    BY <1>1 DEF Held
  <2>2. On(Shelf, Boxes)
        = UNION {Range(Shelf[<<"inbox", o>>]) \cup Range(Shelf[<<"rest", o>>]) : o \in Owners}
    BY <1>1, OnFacts
  <2> QED BY <2>1, <2>2 DEF InBox
<1> QED BY <1>1, <1>3, <1>4, OnFacts

\* The same after a step whose next family is known.
LEMMA OfficeWillSee ==
    ASSUME NEW sh \in Shelves, sh[Central] = central', sh[Hand] = InHand',
           \A o \in Owners : sh[<<"inbox", o>>] = inbox'[o] /\ sh[<<"rest", o>>] = rest'[o]
    PROVE  Shelf' = sh /\ Moving' = On(sh, OnTheWay) /\ InBox' = On(sh, Boxes)
<1>1. Range(InHand') = IF carried' = <<>> THEN {} ELSE {carried'[1]}
  BY HandHolds DEF InHand
<1>2. Moving' = On(sh, OnTheWay)
  BY <1>1, OnFacts DEF Moving
<1>3. InBox' = On(sh, Boxes)
  <2>1. \A o \in Owners : Held(o)' = Range(sh[<<"inbox", o>>]) \cup Range(sh[<<"rest", o>>])
    BY DEF Held
  <2>2. On(sh, Boxes)
        = UNION {Range(sh[<<"inbox", o>>]) \cup Range(sh[<<"rest", o>>]) : o \in Owners}
    BY OnFacts
  <2> QED BY <2>1, <2>2, ZenonT(40) DEF InBox
<1> QED BY <1>2, <1>3, ShelfBecomes

--------------------------------------------------------------------------------
(* Types *)

LEMMA NackIsLetter == ASSUME NEW l \in Letters PROVE Nack(l) \in Letters
BY DEF Letters, Nack, Letter, Types

LEMMA MailTypes == Init => TypeOK
<1> SUFFICES ASSUME Init PROVE TypeOK
  OBVIOUS
<1>1. <<>> \in Seq(Letters)
  BY EmptySeq
<1> QED BY <1>1, MailboxAssumption DEF Init, TypeOK, Letters

LEMMA MailTypesStep == TypeOK /\ [Next]_vars => TypeOK'
<1> SUFFICES ASSUME TypeOK, [Next]_vars PROVE TypeOK'
  OBVIOUS
<1> USE DEF TypeOK, dispatcherVars, readerVars
<1>1. ASSUME NEW o \in Owners, Register(o) \/ Unregister(o) PROVE TypeOK'
  BY <1>1 DEF Register, Unregister
<1>2. ASSUME NEW o \in Owners, Consume(o) \/ FindsEmpty(o) \/ AllBack(o) PROVE TypeOK'
  <2>1. /\ \A x \in DOMAIN AfterScan : AfterScan[x] \in DOMAIN AfterBack
        /\ \A x \in DOMAIN AfterBack : AfterBack[x] \in DOMAIN AfterScan \cup {"idle"}
        /\ "messages" \in DOMAIN AfterScan
    BY DEF AfterScan, AfterBack
  <2>2. reader' \in [Owners -> {"idle"} \cup DOMAIN AfterScan \cup DOMAIN AfterBack]
    BY <1>2, <2>1, ZenonT(40) DEF Consume, FindsEmpty, AllBack
  <2> QED BY <1>2, <2>2 DEF Consume, FindsEmpty, AllBack
<1>3. ASSUME NEW o \in Owners, TakeOne(o) PROVE TypeOK'
  <2>1. inbox[o] \in Seq(Letters) /\ rest[o] \in Seq(Letters) /\ read[o] \in Seq(Letters)
    OBVIOUS
  <2>2. Head(inbox[o]) \in Letters /\ Tail(inbox[o]) \in Seq(Letters)
    BY <1>3, <2>1, TailFacts DEF TakeOne
  <2>3. /\ Append(read[o], Head(inbox[o])) \in Seq(Letters)
        /\ Append(rest[o], Head(inbox[o])) \in Seq(Letters)
    BY <2>1, <2>2, AppendProperties
  <2> QED BY <1>3, <2>2, <2>3 DEF TakeOne
<1>4. ASSUME NEW o \in Owners, PutBack(o) PROVE TypeOK'
  <2>1. inbox[o] \in Seq(Letters) /\ rest[o] \in Seq(Letters)
    OBVIOUS
  <2>2. Head(rest[o]) \in Letters /\ Tail(rest[o]) \in Seq(Letters)
    BY <1>4, <2>1, TailFacts DEF PutBack
  <2>3. Append(inbox[o], Head(rest[o])) \in Seq(Letters)
    BY <2>1, <2>2, AppendProperties
  <2> QED BY <1>4, <2>2, <2>3 DEF PutBack
<1>5. ASSUME NEW from \in Senders, NEW to \in Owners, NEW type \in Types, Send(type, from, to)
      PROVE  TypeOK'
  <2>1. Letter(type, from, to, posted + 1) \in Letters
    BY <1>5, MailboxAssumption DEF Send, Letter, Letters, Senders
  <2>2. Append(central, Letter(type, from, to, posted + 1)) \in Seq(Letters)
    BY <2>1, AppendProperties
  <2> QED BY <1>5, <2>2, MailboxAssumption DEF Send
<1>6. CASE PickUp
  <2>1. Head(central) \in Letters /\ Tail(central) \in Seq(Letters)
    BY <1>6, TailFacts DEF PickUp
  <2>2. <<Head(central), Found(Head(central).to)>> \in Letters \X BOOLEAN
    BY <2>1 DEF Found
  <2> QED BY <1>6, <2>1, <2>2 DEF PickUp
<1>7. CASE PutInInbox
  <2>1. carried[1] \in Letters
    BY <1>7 DEF PutInInbox
  <2>2. \A o \in Owners : Append(inbox[o], carried[1]) \in Seq(Letters)
    BY <2>1, AppendProperties
  <2> QED BY <1>7, <2>2 DEF PutInInbox
<1>8. CASE SendBack
  <2>1. carried[1] \in Letters
    BY <1>8 DEF SendBack
  <2>2. Notice(carried[1]) \in Seq(Letters)
    BY <2>1, NackIsLetter, EmptySeq DEF Notice
  <2>3. central \o Notice(carried[1]) \in Seq(Letters)
    BY <2>2, ConcatProperties
  <2> QED BY <1>8, <2>1, <2>3 DEF SendBack
<1>9. CASE UNCHANGED vars
  BY <1>9 DEF vars
<1> QED BY <1>1, <1>2, <1>3, <1>4, <1>5, <1>6, <1>7, <1>8, <1>9
        DEF Next, ReaderStep, DispatcherStep, Steer, SendMessage, SendResult, Types

--------------------------------------------------------------------------------
(* Steps on the family *)

\* A letter goes from one queue to another.
LEMMA MoveFacts ==
    ASSUME NEW sh \in Shelves, Once(sh), NEW p \in Places, NEW q \in Places, sh[p] # <<>>
    PROVE  /\ Added(Dropped(sh, p), q, Head(sh[p])) \in Shelves
           /\ Once(Added(Dropped(sh, p), q, Head(sh[p])))
           /\ \A P \in SUBSET Places :
                 On(Added(Dropped(sh, p), q, Head(sh[p])), P)
                   = (IF p \in P THEN On(sh, P) \ {Head(sh[p])} ELSE On(sh, P))
                              \cup (IF q \in P THEN {Head(sh[p])} ELSE {})
<1> DEFINE mid == Dropped(sh, p)
           l == Head(sh[p])
<1>1. /\ mid \in Shelves /\ Once(mid) /\ l \in Letters
      /\ \A r \in Places : \A i \in 1..Len(mid[r]) : mid[r][i].no # l.no
      /\ \A P \in SUBSET Places : On(mid, P) = IF p \in P THEN On(sh, P) \ {l} ELSE On(sh, P)
  BY DropFacts
<1> HIDE DEF mid, l
<1>2. /\ Added(mid, q, l) \in Shelves /\ Once(Added(mid, q, l))
      /\ \A P \in SUBSET Places :
            On(Added(mid, q, l), P) = IF q \in P THEN On(mid, P) \cup {l} ELSE On(mid, P)
  <2>1. mid \in Shelves /\ Once(mid) /\ l \in Letters
    BY <1>1
  <2>2. \A r \in Places : \A i \in 1..Len(mid[r]) : mid[r][i].no # l.no
    BY <1>1
  <2> QED BY <2>1, <2>2, AddFacts
<1>3. \A P \in SUBSET Places :
          On(Added(mid, q, l), P) = (IF p \in P THEN On(sh, P) \ {l} ELSE On(sh, P))
                       \cup (IF q \in P THEN {l} ELSE {})
  BY <1>1, <1>2
<1> QED BY <1>2, <1>3 DEF l, mid

LEMMA Lies ==
    ASSUME NEW sh \in Shelves, NEW P \in SUBSET Places, NEW p \in P
    PROVE  /\ \A i \in 1..Len(sh[p]) : sh[p][i] \in On(sh, P)
           /\ sh[p] # <<>> => Head(sh[p]) \in On(sh, P)
           /\ On(sh, P) \subseteq Letters
<1>1. \A q \in Places : sh[q] \in Seq(Letters) /\ DOMAIN sh[q] = 1..Len(sh[q])
  BY LenProperties DEF Shelves
<1>2. \A i \in 1..Len(sh[p]) : sh[p][i] \in On(sh, P)
  BY <1>1 DEF On, Range
<1>3. sh[p] # <<>> => Head(sh[p]) \in On(sh, P)
  <2> SUFFICES ASSUME sh[p] # <<>> PROVE Head(sh[p]) \in On(sh, P)
    OBVIOUS
  <2>1. Head(sh[p]) = sh[p][1] /\ Len(sh[p]) \in Nat \ {0}
    BY <1>1, TailFacts
  <2> QED BY <1>2, <2>1
<1>4. \A q \in Places : \A i \in 1..Len(sh[q]) : sh[q][i] \in Letters
  BY <1>1, ElementOfSeq
<1>5. On(sh, P) \subseteq Letters
  BY <1>1, <1>4 DEF On, Range
<1> QED BY <1>2, <1>3, <1>5

\* Numbers and ends stay known when the letters are the old ones and some that are known.
LEMMA KnownStays ==
    ASSUME MailInv, TypeOK', NEW N \in SUBSET Letters,
           On(Shelf', Places) \subseteq On(Shelf, Places) \cup N,
           Taken' \cup orphans' \subseteq On(Shelf, Places) \cup Taken \cup orphans,
           posted' >= posted, \A o \in Owners : home[o] # "new" => home'[o] # "new",
           \A l \in N : l.no <= posted' /\ \A o \in {l.from, l.to} \cap Owners : home'[o] # "new"
    PROVE  Numbered' /\ EndsKnown'
<1>1. posted \in Nat /\ posted' \in Nat /\ orphans \subseteq Letters
  BY MailboxAssumption DEF MailInv, TypeOK
<1>2. On(Shelf, Places) \subseteq Letters
  BY ShelfIs, Lies, PlacesFacts DEF MailInv
<1>3. Taken \subseteq Letters
  <2>1. \A o \in Owners : read[o] \in Seq(Letters)
    BY DEF MailInv, TypeOK
  <2>2. \A o \in Owners : Range(read[o]) \subseteq Letters
    BY <2>1, LenProperties, ElementOfSeq DEF Range
  <2> QED BY <2>2 DEF Taken
<1>4. \A l \in Letters : l.no \in Nat
  BY DEF Letters
<1>5. \A l \in On(Shelf, Places) \cup Taken \cup orphans : l.no <= posted'
  BY <1>1, <1>2, <1>3, <1>4 DEF MailInv, Numbered
<1>6. Numbered'
  BY <1>5 DEF Numbered
<1>7. EndsKnown'
  BY DEF MailInv, EndsKnown
<1> QED BY <1>6, <1>7

--------------------------------------------------------------------------------
(* The steps of the mail and of the post office *)

\* The office's variables in the words above.
LEMMA OfficeIs ==
    /\ Office!officeVars = <<home, <<Moving, InBox, Taken, orphans>>>>
    /\ Office!Everything = Moving \cup InBox \cup Taken \cup orphans
BY DEF Office!officeVars, Office!letterVars, Office!Everything, Moving, InBox, Taken

LEMMA SameQueues ==
    ASSUME UNCHANGED <<central, carried, inbox, rest>>
    PROVE  Shelf' = Shelf /\ Moving' = Moving /\ InBox' = InBox
BY DEF Shelf, InHand, Moving, InBox, Held

LEMMA RegisterStep ==
    ASSUME MailInv, TypeOK', NEW o \in Owners, Register(o) \/ Unregister(o)
    PROVE  MailInv' /\ Office!OfficeNext
<1>1. /\ UNCHANGED <<central, carried, inbox, rest, read, orphans, posted>>
      /\ \E from, to \in {"new", "open", "closed"} :
            /\ <<from, to>> \in {<<"new", "open">>, <<"open", "closed">>}
            /\ home[o] = from /\ home' = [home EXCEPT ![o] = to]
  BY DEF Register, Unregister, dispatcherVars, readerVars
<1>2. Shelf' = Shelf /\ Moving' = Moving /\ InBox' = InBox /\ Taken' = Taken
  BY <1>1, SameQueues DEF Taken
<1>3. \A q \in Owners : /\ home[q] # "new" => home'[q] # "new"
                        /\ home[q] = "closed" => home'[q] = "closed"
  BY <1>1 DEF MailInv, TypeOK
<1>4. Numbered' /\ EndsKnown'
  BY <1>1, <1>2, <1>3 DEF MailInv, Numbered, EndsKnown
<1>5. LookedUp'
  BY <1>1, <1>3 DEF MailInv, LookedUp
<1>6. Office!Register(o) \/ Office!Unregister(o)
  BY <1>1, <1>2 DEF Register, Unregister, Office!Register, Office!Unregister, Office!Moves,
                    Office!letterVars, Moving, InBox, Taken
<1> QED BY <1>2, <1>4, <1>5, <1>6 DEF MailInv, Office!OfficeNext

LEMMA SendStep ==
    ASSUME MailInv, TypeOK', NEW from \in Senders, NEW to \in Owners, NEW type \in Types \ {"nack"},
           home[to] # "new", Send(type, from, to)
    PROVE  MailInv' /\ Office!OfficeNext
<1> DEFINE l == Letter(type, from, to, posted + 1)
<1>1. /\ posted \in Nat /\ posted' = posted + 1 /\ posted < MaxPosts
      /\ from \in Owners => home[from] # "new"
      /\ central' = Append(central, l) /\ central \in Seq(Letters)
      /\ UNCHANGED <<home, carried, orphans, inbox, rest, read>>
  BY DEF Send, MailInv, TypeOK, readerVars
<1>2. /\ l \in Letters /\ l.no = posted + 1 /\ l.from = from /\ l.to = to /\ l.type # "nack"
  <2>1. posted + 1 \in 1..MaxPosts
    BY <1>1, MailboxAssumption
  <2> QED BY <2>1 DEF Letter, Letters, Senders
<1> HIDE DEF l
<1>3. /\ Shelf \in Shelves /\ Shelf[Central] = central /\ Shelf[Hand] = InHand /\ Once(Shelf)
      /\ \A o \in Owners : Shelf[<<"inbox", o>>] = inbox[o] /\ Shelf[<<"rest", o>>] = rest[o]
      /\ Moving = On(Shelf, OnTheWay) /\ InBox = On(Shelf, Boxes)
      /\ On(Shelf, Places) = Moving \cup InBox
  BY ShelfIs, OfficeSees DEF MailInv
<1>4. \A q \in Places : \A i \in 1..Len(Shelf[q]) : Shelf[q][i].no # l.no
  <2> SUFFICES ASSUME NEW q \in Places, NEW i \in 1..Len(Shelf[q]) PROVE Shelf[q][i].no # posted + 1
    BY <1>2
  <2>1. Shelf[q][i] \in On(Shelf, Places) /\ On(Shelf, Places) \subseteq Letters
    BY <1>3, Lies
  <2>2. Shelf[q][i].no <= posted /\ Shelf[q][i].no \in Nat
    BY <2>1 DEF MailInv, Numbered, Letters
  <2> QED BY <1>1, <2>2
<1>5. /\ Added(Shelf, Central, l) \in Shelves /\ Once(Added(Shelf, Central, l))
      /\ \A P \in SUBSET Places : On(Added(Shelf, Central, l), P) =
            IF Central \in P THEN On(Shelf, P) \cup {l} ELSE On(Shelf, P)
  BY <1>2, <1>3, <1>4, PlacesFacts, AddFacts
<1>6. /\ Shelf' = Added(Shelf, Central, l)
      /\ Moving' = On(Shelf', OnTheWay) /\ InBox' = On(Shelf', Boxes)
  <2> DEFINE sh == Added(Shelf, Central, l)
  <2>1. /\ sh[Central] = central' /\ sh[Hand] = InHand'
        /\ \A o \in Owners : sh[<<"inbox", o>>] = inbox'[o] /\ sh[<<"rest", o>>] = rest'[o]
    BY <1>1, <1>3, PlacesFacts DEF Added, Shelves, InHand
  <2> HIDE DEF sh
  <2>2. sh \in Shelves
    BY <1>5 DEF sh
  <2>3. Shelf' = sh /\ Moving' = On(sh, OnTheWay) /\ InBox' = On(sh, Boxes)
    BY <2>1, <2>2, OfficeWillSee
  <2> QED BY <2>3 DEF sh
<1>7. /\ Moving' = Moving \cup {l} /\ InBox' = InBox /\ Taken' = Taken
      /\ On(Shelf', Places) = On(Shelf, Places) \cup {l}
  <2>1. OnTheWay \subseteq Places /\ Boxes \subseteq Places /\ Central \in OnTheWay /\ Central \in Places
        /\ Central \notin Boxes
    BY PlacesFacts DEF OnTheWay
  <2>2. Taken' = Taken
    BY <1>1 DEF Taken
  <2> QED BY <1>3, <1>5, <1>6, <2>1, <2>2
<1>8. Numbered' /\ EndsKnown'
  <2>1. \A k \in {l} : k.no <= posted' /\ \A o \in {k.from, k.to} \cap Owners : home'[o] # "new"
    BY <1>1, <1>2
  <2>2. posted' >= posted
    BY <1>1
  <2>3. {l} \in SUBSET Letters /\ On(Shelf', Places) \subseteq On(Shelf, Places) \cup {l}
    BY <1>2, <1>7
  <2>4. Taken' \cup orphans' \subseteq On(Shelf, Places) \cup Taken \cup orphans
    BY <1>1, <1>7
  <2>5. \A o \in Owners : home[o] # "new" => home'[o] # "new"
    BY <1>1
  <2> QED BY <2>1, <2>2, <2>3, <2>4, <2>5, KnownStays
<1>9. LookedUp'
  BY <1>1 DEF MailInv, LookedUp
<1>10. Office!Accept(l)
  <2>1. \A k \in Moving \cup InBox \cup Taken \cup orphans : k.no # l.no
    <3>1. \A k \in Moving \cup InBox \cup Taken \cup orphans : k.no <= posted
      BY <1>3 DEF MailInv, Numbered
    <3> QED BY <1>1, <1>2, <3>1
  <2>2. Moving' = Moving \cup {l} /\ UNCHANGED <<home, InBox, Taken, orphans>>
    BY <1>1, <1>7
  <2>3. \A o \in {l.from, l.to} \cap Owners : home[o] # "new"
    BY <1>1, <1>2
  <2> QED BY <1>2, <2>1, <2>2, <2>3, OfficeIs DEF Office!Accept, Moving, InBox, Taken
<1> QED BY <1>2, <1>5, <1>6, <1>8, <1>9, <1>10 DEF MailInv, Office!OfficeNext

\* A letter goes from one queue to another; nobody else is there.
LEMMA Moved ==
    ASSUME MailInv, TypeOK', NEW p \in Places, NEW q \in Places, Shelf[p] # <<>>,
           NEW sh, sh = Added(Dropped(Shelf, p), q, Head(Shelf[p])),
           sh[Central] = central', sh[Hand] = InHand',
           \A o \in Owners : sh[<<"inbox", o>>] = inbox'[o] /\ sh[<<"rest", o>>] = rest'[o],
           UNCHANGED <<home, orphans, read, posted>>
    PROVE  /\ Once(Shelf') /\ Numbered' /\ EndsKnown' /\ Taken' = Taken
           /\ Head(Shelf[p]) \in Letters
           /\ p \in OnTheWay => Head(Shelf[p]) \in Moving
           /\ p \in Boxes => Head(Shelf[p]) \in InBox
           /\ Moving' = (IF p \in OnTheWay THEN Moving \ {Head(Shelf[p])} ELSE Moving)
                        \cup (IF q \in OnTheWay THEN {Head(Shelf[p])} ELSE {})
           /\ InBox' = (IF p \in Boxes THEN InBox \ {Head(Shelf[p])} ELSE InBox)
                       \cup (IF q \in Boxes THEN {Head(Shelf[p])} ELSE {})
<1> DEFINE l == Head(Shelf[p])
<1>1. /\ Shelf \in Shelves /\ Once(Shelf) /\ Moving = On(Shelf, OnTheWay) /\ InBox = On(Shelf, Boxes)
      /\ On(Shelf, Places) = Moving \cup InBox
  BY ShelfIs, OfficeSees DEF MailInv
<1>2. /\ sh \in Shelves /\ Once(sh)
      /\ \A P \in SUBSET Places :
            On(sh, P) = (IF p \in P THEN On(Shelf, P) \ {l} ELSE On(Shelf, P))
                        \cup (IF q \in P THEN {l} ELSE {})
  <2> DEFINE moved == Added(Dropped(Shelf, p), q, l)
  <2>1. /\ moved \in Shelves /\ Once(moved)
        /\ \A P \in SUBSET Places :
              On(moved, P) = (IF p \in P THEN On(Shelf, P) \ {l} ELSE On(Shelf, P))
                             \cup (IF q \in P THEN {l} ELSE {})
    BY <1>1, MoveFacts
  <2>2. sh = moved
    OBVIOUS
  <2> HIDE DEF moved, l
  <2> QED BY <2>1, <2>2
<1>3. /\ l \in On(Shelf, Places) /\ l \in Letters
      /\ p \in OnTheWay => l \in On(Shelf, OnTheWay)
      /\ p \in Boxes => l \in On(Shelf, Boxes)
  BY <1>1, Lies, PlacesFacts
<1>4. Shelf' = sh /\ Moving' = On(sh, OnTheWay) /\ InBox' = On(sh, Boxes)
  BY <1>2, OfficeWillSee
<1>5. Taken' = Taken
  BY DEF Taken
<1>6. On(Shelf', Places) \subseteq On(Shelf, Places)
  <2>1. On(sh, Places) = (On(Shelf, Places) \ {l}) \cup {l}
    BY <1>2
  <2> QED BY <1>3, <1>4, <2>1
<1>7. Numbered' /\ EndsKnown'
  BY <1>4, <1>5, <1>6 DEF MailInv, Numbered, EndsKnown
<1>8. OnTheWay \in SUBSET Places /\ Boxes \in SUBSET Places
  BY PlacesFacts
<1>9. /\ On(sh, OnTheWay) = (IF p \in OnTheWay THEN On(Shelf, OnTheWay) \ {l} ELSE On(Shelf, OnTheWay))
                            \cup (IF q \in OnTheWay THEN {l} ELSE {})
      /\ On(sh, Boxes) = (IF p \in Boxes THEN On(Shelf, Boxes) \ {l} ELSE On(Shelf, Boxes))
                         \cup (IF q \in Boxes THEN {l} ELSE {})
  BY <1>2, <1>8
<1> QED BY <1>1, <1>2, <1>3, <1>4, <1>5, <1>7, <1>9

LEMMA PickUpStep ==
    ASSUME MailInv, TypeOK', PickUp
    PROVE  MailInv' /\ UNCHANGED Office!officeVars
<1> DEFINE l == Head(central)
           sh == Added(Dropped(Shelf, Central), Hand, l)
<1>1. /\ carried = <<>> /\ central # <<>> /\ central \in Seq(Letters)
      /\ carried' = <<l, Found(l.to)>> /\ central' = Tail(central)
      /\ UNCHANGED <<home, orphans, inbox, rest, read, posted>>
  BY DEF PickUp, MailInv, TypeOK, readerVars
<1>2. /\ Shelf \in Shelves /\ Shelf[Central] = central /\ Shelf[Hand] = <<>>
      /\ \A o \in Owners : Shelf[<<"inbox", o>>] = inbox[o] /\ Shelf[<<"rest", o>>] = rest[o]
  BY <1>1, ShelfIs DEF MailInv, InHand
<1>3. InHand' = Append(<<>>, l)
  <2>1. carried' # <<>> /\ carried'[1] = l
    BY <1>1
  <2>2. l \in Letters
    BY <1>1, TailFacts
  <2>3. Append(<<>>, l) = <<l>>
    BY <2>2
  <2> QED BY <2>1, <2>3 DEF InHand
<1>4. /\ sh[Central] = central' /\ sh[Hand] = InHand'
      /\ \A o \in Owners : sh[<<"inbox", o>>] = inbox'[o] /\ sh[<<"rest", o>>] = rest'[o]
  BY <1>1, <1>2, <1>3, PlacesFacts DEF Added, Dropped, Shelves
<1>5. sh = Added(Dropped(Shelf, Central), Hand, Head(Shelf[Central]))
  BY <1>2
<1> HIDE DEF sh, l
<1>6. /\ Once(Shelf') /\ Numbered' /\ EndsKnown' /\ Taken' = Taken
      /\ Shelf[Central] # <<>> /\ l \in Moving /\ l \in Letters
      /\ Moving' = (Moving \ {l}) \cup {l} /\ InBox' = InBox
  <2>1. /\ Central \in Places /\ Hand \in Places /\ Central \in OnTheWay /\ Hand \in OnTheWay
        /\ Central \notin Boxes /\ Hand \notin Boxes
    BY PlacesFacts DEF OnTheWay
  <2>2. Shelf[Central] # <<>> /\ Head(Shelf[Central]) = l
    BY <1>1, <1>2 DEF l
  <2>3. UNCHANGED <<home, orphans, read, posted>>
    BY <1>1
  <2>4. /\ Once(Shelf') /\ Numbered' /\ EndsKnown' /\ Taken' = Taken
        /\ l \in Letters /\ l \in Moving
        /\ Moving' = (IF Central \in OnTheWay THEN Moving \ {l} ELSE Moving)
                     \cup (IF Hand \in OnTheWay THEN {l} ELSE {})
        /\ InBox' = (IF Central \in Boxes THEN InBox \ {l} ELSE InBox)
                    \cup (IF Hand \in Boxes THEN {l} ELSE {})
    BY <1>4, <1>5, <2>1, <2>2, <2>3, Moved
  <2> QED BY <2>1, <2>2, <2>4
<1>7. LookedUp'
  <2>1. l.to \in Owners => home[l.to] # "new"
    <3>1. l \in On(Shelf, Places)
      BY <1>6, OfficeSees DEF MailInv
    <3> QED BY <3>1 DEF MailInv, EndsKnown
  <2>2. l.to \in Owners => home[l.to] \in {"open", "closed"}
    BY <2>1 DEF MailInv, TypeOK
  <2>3. carried'[1] = l /\ carried'[2] = Found(l.to)
    BY <1>1 DEF l
  <2> QED BY <1>1, <2>2, <2>3 DEF LookedUp, Found
<1>8. UNCHANGED Office!officeVars
  <2>1. Moving' = Moving
    BY <1>6
  <2> QED BY <1>1, <1>6, <2>1 DEF Office!officeVars, Office!letterVars, Moving, InBox, Taken
<1> QED BY <1>6, <1>7, <1>8 DEF MailInv

LEMMA DeliverStep ==
    ASSUME MailInv, TypeOK', PutInInbox
    PROVE  MailInv' /\ Office!OfficeNext
<1> DEFINE l == carried[1]
           box == <<"inbox", l.to>>
           sh == Added(Dropped(Shelf, Hand), box, l)
<1>1. /\ carried # <<>> /\ carried[2] /\ l \in Letters /\ carried' = <<>>
      /\ inbox' = [inbox EXCEPT ![l.to] = Append(@, l)] /\ inbox \in [Owners -> Seq(Letters)]
      /\ UNCHANGED <<home, central, orphans, rest, read, posted>>
  BY DEF PutInInbox, MailInv, TypeOK, readerVars
<1>2. l.to \in Owners
  BY <1>1 DEF MailInv, LookedUp
<1>3. /\ Shelf \in Shelves /\ Shelf[Central] = central /\ Shelf[Hand] = <<l>>
      /\ \A o \in Owners : Shelf[<<"inbox", o>>] = inbox[o] /\ Shelf[<<"rest", o>>] = rest[o]
  BY <1>1, ShelfIs DEF MailInv, InHand
<1>4. Tail(<<l>>) = <<>> /\ Head(<<l>>) = l /\ <<l>> # <<>> /\ InHand' = <<>>
  BY <1>1 DEF InHand
<1>5. /\ sh[Central] = central' /\ sh[Hand] = InHand'
      /\ \A o \in Owners : sh[<<"inbox", o>>] = inbox'[o] /\ sh[<<"rest", o>>] = rest'[o]
  <2>1. /\ box \in Places /\ box # Hand /\ box # Central
        /\ \A o \in Owners : /\ <<"rest", o>> \in Places /\ <<"inbox", o>> \in Places
                             /\ <<"rest", o>> # box /\ <<"rest", o>> # Hand /\ <<"inbox", o>> # Hand
                             /\ <<"inbox", o>> = box <=> o = l.to
    BY <1>2 DEF Places, Boxes, OnTheWay, Central, Hand
  <2> HIDE DEF box
  <2>2. box = <<"inbox", l.to>>
    BY DEF box
  <2> QED BY <1>1, <1>2, <1>3, <1>4, <2>1, <2>2, PlacesFacts DEF Added, Dropped, Shelves
<1>6. sh = Added(Dropped(Shelf, Hand), box, Head(Shelf[Hand]))
  BY <1>3, <1>4
<1>7. /\ Hand \in Places /\ Hand \in OnTheWay /\ Hand \notin Boxes
      /\ box \in Places /\ box \in Boxes /\ box \notin OnTheWay
  BY <1>2, PlacesFacts DEF OnTheWay
<1>8. Shelf[Hand] # <<>> /\ Head(Shelf[Hand]) = l
  BY <1>3, <1>4
<1> HIDE DEF sh, box
<1>9. /\ Once(Shelf') /\ Numbered' /\ EndsKnown' /\ Taken' = Taken
      /\ l \in Moving /\ Moving' = Moving \ {l} /\ InBox' = InBox \cup {l}
  BY <1>1, <1>5, <1>6, <1>7, <1>8, Moved
<1> HIDE DEF l
<1>10. LookedUp'
  BY <1>1 DEF LookedUp
<1>11. home[l.to] # "new"
  <2>1. l \in On(Shelf, Places)
    BY <1>9, OfficeSees DEF MailInv
  <2> QED BY <1>2, <2>1 DEF MailInv, EndsKnown
<1>12. Office!Deliver(l)
  BY <1>1, <1>2, <1>9, <1>11 DEF Office!Deliver, Moving, InBox, Taken
<1>13. Office!OfficeNext
  BY <1>9, <1>12 DEF Office!OfficeNext, Office!OfficeStep, Moving
<1> QED BY <1>9, <1>10, <1>13 DEF MailInv

\* A letter leaves the queues.
LEMMA Gone ==
    ASSUME MailInv, TypeOK', NEW p \in Places, Shelf[p] # <<>>,
           NEW sh, sh = Dropped(Shelf, p), sh[Central] = central', sh[Hand] = InHand',
           \A o \in Owners : sh[<<"inbox", o>>] = inbox'[o] /\ sh[<<"rest", o>>] = rest'[o],
           UNCHANGED <<home, posted>>,
           Taken' \cup orphans' \subseteq Taken \cup orphans \cup {Head(Shelf[p])}
    PROVE  /\ Once(Shelf') /\ Numbered' /\ EndsKnown' /\ Head(Shelf[p]) \in Letters
           /\ p \in OnTheWay => Head(Shelf[p]) \in Moving
           /\ p \in Boxes => Head(Shelf[p]) \in InBox
           /\ Moving' = IF p \in OnTheWay THEN Moving \ {Head(Shelf[p])} ELSE Moving
           /\ InBox' = IF p \in Boxes THEN InBox \ {Head(Shelf[p])} ELSE InBox
<1> DEFINE l == Head(Shelf[p])
<1>1. /\ Shelf \in Shelves /\ Once(Shelf) /\ Moving = On(Shelf, OnTheWay) /\ InBox = On(Shelf, Boxes)
      /\ On(Shelf, Places) = Moving \cup InBox
  BY ShelfIs, OfficeSees DEF MailInv
<1>2. /\ sh \in Shelves /\ Once(sh)
      /\ \A P \in SUBSET Places : On(sh, P) = IF p \in P THEN On(Shelf, P) \ {l} ELSE On(Shelf, P)
  <2> DEFINE left == Dropped(Shelf, p)
  <2>1. /\ left \in Shelves /\ Once(left)
        /\ \A P \in SUBSET Places : On(left, P) = IF p \in P THEN On(Shelf, P) \ {l} ELSE On(Shelf, P)
    BY <1>1, DropFacts
  <2>2. sh = left
    OBVIOUS
  <2> HIDE DEF left, l
  <2> QED BY <2>1, <2>2
<1>3. /\ l \in On(Shelf, Places) /\ l \in Letters
      /\ p \in OnTheWay => l \in On(Shelf, OnTheWay)
      /\ p \in Boxes => l \in On(Shelf, Boxes)
  BY <1>1, Lies, PlacesFacts
<1>4. Shelf' = sh /\ Moving' = On(sh, OnTheWay) /\ InBox' = On(sh, Boxes)
  BY <1>2, OfficeWillSee
<1>5. On(Shelf', Places) \subseteq On(Shelf, Places)
  <2>1. On(sh, Places) = On(Shelf, Places) \ {l}
    BY <1>2
  <2> QED BY <1>4, <2>1
<1>6. Numbered' /\ EndsKnown'
  BY <1>3, <1>5 DEF MailInv, Numbered, EndsKnown
<1>7. OnTheWay \in SUBSET Places /\ Boxes \in SUBSET Places
  BY PlacesFacts
<1>8. /\ On(sh, OnTheWay) = IF p \in OnTheWay THEN On(Shelf, OnTheWay) \ {l} ELSE On(Shelf, OnTheWay)
      /\ On(sh, Boxes) = IF p \in Boxes THEN On(Shelf, Boxes) \ {l} ELSE On(Shelf, Boxes)
  BY <1>2, <1>7
<1> QED BY <1>1, <1>2, <1>3, <1>4, <1>6, <1>8

LEMMA TakeStep ==
    ASSUME MailInv, TypeOK', NEW o \in Owners, TakeOne(o)
    PROVE  MailInv' /\ (Office!OfficeNext \/ UNCHANGED Office!officeVars)
<1> DEFINE l == Head(inbox[o])
           box == <<"inbox", o>>
           back == <<"rest", o>>
<1>1. /\ inbox[o] # <<>> /\ inbox' = [inbox EXCEPT ![o] = Tail(@)]
      /\ inbox \in [Owners -> Seq(Letters)] /\ rest \in [Owners -> Seq(Letters)]
      /\ read \in [Owners -> Seq(Letters)] /\ UNCHANGED <<home, central, carried, orphans, posted>>
      /\ \/ l.type = Wanted(o) /\ read' = [read EXCEPT ![o] = Append(@, l)] /\ rest' = rest
         \/ rest' = [rest EXCEPT ![o] = Append(@, l)] /\ read' = read
  BY DEF TakeOne, MailInv, TypeOK, dispatcherVars
<1>2. /\ Shelf \in Shelves /\ Shelf[Central] = central /\ Shelf[Hand] = InHand /\ InHand' = InHand
      /\ \A q \in Owners : Shelf[<<"inbox", q>>] = inbox[q] /\ Shelf[<<"rest", q>>] = rest[q]
  BY <1>1, ShelfIs DEF MailInv, InHand
<1>3. /\ box \in Places /\ box \in Boxes /\ box \notin OnTheWay
      /\ back \in Places /\ back \in Boxes /\ back \notin OnTheWay
      /\ box # Central /\ box # Hand /\ back # Central /\ back # Hand /\ box # back
      /\ \A q \in Owners : /\ <<"rest", q>> \in Places /\ <<"inbox", q>> \in Places
                           /\ <<"rest", q>> # box /\ <<"inbox", q>> # back
                           /\ <<"inbox", q>> = box <=> q = o
                           /\ <<"rest", q>> = back <=> q = o
  BY PlacesFacts DEF Places, Boxes, OnTheWay, Central, Hand
<1>4. Shelf[box] = inbox[o] /\ Shelf[box] # <<>> /\ Head(Shelf[box]) = l /\ l \in Letters
  BY <1>1, <1>2, TailFacts
<1>5. LookedUp'
  BY <1>1 DEF MailInv, LookedUp
<1>6. CASE l.type = Wanted(o) /\ read' = [read EXCEPT ![o] = Append(@, l)] /\ rest' = rest
  <2> DEFINE sh == Dropped(Shelf, box)
  <2>1. /\ sh[Central] = central' /\ sh[Hand] = InHand'
        /\ \A q \in Owners : sh[<<"inbox", q>>] = inbox'[q] /\ sh[<<"rest", q>>] = rest'[q]
    <3> HIDE DEF box, back
    <3> QED BY <1>1, <1>2, <1>3, <1>4, <1>6, PlacesFacts DEF Dropped, Shelves
  <2>2. Taken' = Taken \cup {l}
    <3>1. \A q \in Owners : Range(read'[q]) = IF q = o THEN Range(read[q]) \cup {l} ELSE Range(read[q])
      <4>1. read[o] \in Seq(Letters) /\ l \in Letters
        BY <1>1, <1>4
      <4>2. Range(Append(read[o], l)) = Range(read[o]) \cup {l}
        BY <4>1, AppendFacts
      <4> HIDE DEF l
      <4> QED BY <1>1, <1>6, <4>2
    <3>2. \A x : x \in Taken' <=> x \in Taken \cup {l}
      <4> HIDE DEF l
      <4> QED BY <3>1 DEF Taken
    <3> QED BY <3>2
  <2>3. sh = Dropped(Shelf, box)
    OBVIOUS
  <2> HIDE DEF sh, l, box, back
  <2>4. Taken' \cup orphans' \subseteq Taken \cup orphans \cup {l} /\ UNCHANGED <<home, posted>>
    BY <1>1, <2>2
  <2>5. /\ Once(Shelf') /\ Numbered' /\ EndsKnown' /\ l \in InBox
        /\ Moving' = Moving /\ InBox' = InBox \ {l}
    BY <1>3, <1>4, <2>1, <2>3, <2>4, Gone
  <2>6. l.type \in {"message", "steer"}
    BY <1>6 DEF Wanted
  <2>7. Office!Take(l)
    BY <1>1, <2>2, <2>5, <2>6 DEF Office!Take, Office!ReadTypes, Moving, InBox, Taken
  <2>8. Office!OfficeNext
    BY <2>5, <2>7 DEF Office!OfficeNext, InBox
  <2> QED BY <1>5, <2>5, <2>8 DEF MailInv
<1>7. CASE rest' = [rest EXCEPT ![o] = Append(@, l)] /\ read' = read
  <2> DEFINE sh == Added(Dropped(Shelf, box), back, l)
  <2>1. /\ sh[Central] = central' /\ sh[Hand] = InHand'
        /\ \A q \in Owners : sh[<<"inbox", q>>] = inbox'[q] /\ sh[<<"rest", q>>] = rest'[q]
    <3> HIDE DEF box, back
    <3>1. back = <<"rest", o>>
      BY DEF back
    <3> QED BY <1>1, <1>2, <1>3, <1>4, <1>7, <3>1, PlacesFacts DEF Added, Dropped, Shelves
  <2>2. sh = Added(Dropped(Shelf, box), back, Head(Shelf[box]))
    BY <1>4
  <2> HIDE DEF sh, l, box, back
  <2>3. UNCHANGED <<home, orphans, read, posted>>
    BY <1>1, <1>7
  <2>4. /\ Once(Shelf') /\ Numbered' /\ EndsKnown' /\ Taken' = Taken /\ l \in InBox
        /\ Moving' = Moving /\ InBox' = (InBox \ {l}) \cup {l}
    <3>1. /\ Once(Shelf') /\ Numbered' /\ EndsKnown' /\ Taken' = Taken
          /\ box \in Boxes => l \in InBox
          /\ Moving' = (IF box \in OnTheWay THEN Moving \ {l} ELSE Moving)
                       \cup (IF back \in OnTheWay THEN {l} ELSE {})
          /\ InBox' = (IF box \in Boxes THEN InBox \ {l} ELSE InBox)
                      \cup (IF back \in Boxes THEN {l} ELSE {})
      BY <1>3, <1>4, <2>1, <2>2, <2>3, Moved
    <3> QED BY <1>3, <3>1
  <2>5. UNCHANGED Office!officeVars
    <3>1. InBox' = InBox
      BY <2>4
    <3> QED BY <1>1, <2>4, <3>1
               DEF Office!officeVars, Office!letterVars, Moving, InBox, Taken
  <2> QED BY <1>5, <2>4, <2>5 DEF MailInv
<1> QED BY <1>1, <1>6, <1>7

LEMMA PutBackStep ==
    ASSUME MailInv, TypeOK', NEW o \in Owners, PutBack(o)
    PROVE  MailInv' /\ UNCHANGED Office!officeVars
<1> DEFINE l == Head(rest[o])
           box == <<"inbox", o>>
           back == <<"rest", o>>
           sh == Added(Dropped(Shelf, back), box, l)
<1>1. /\ rest[o] # <<>> /\ rest' = [rest EXCEPT ![o] = Tail(@)]
      /\ inbox' = [inbox EXCEPT ![o] = Append(@, l)]
      /\ inbox \in [Owners -> Seq(Letters)] /\ rest \in [Owners -> Seq(Letters)]
      /\ UNCHANGED <<home, central, carried, orphans, read, posted>>
  BY DEF PutBack, MailInv, TypeOK, dispatcherVars
<1>2. /\ Shelf \in Shelves /\ Shelf[Central] = central /\ Shelf[Hand] = InHand /\ InHand' = InHand
      /\ \A q \in Owners : Shelf[<<"inbox", q>>] = inbox[q] /\ Shelf[<<"rest", q>>] = rest[q]
  BY <1>1, ShelfIs DEF MailInv, InHand
<1>3. /\ box \in Places /\ box \in Boxes /\ box \notin OnTheWay
      /\ back \in Places /\ back \in Boxes /\ back \notin OnTheWay
      /\ box # Central /\ box # Hand /\ back # Central /\ back # Hand /\ box # back
      /\ \A q \in Owners : /\ <<"rest", q>> \in Places /\ <<"inbox", q>> \in Places
                           /\ <<"rest", q>> # box /\ <<"inbox", q>> # back
                           /\ <<"inbox", q>> = box <=> q = o
                           /\ <<"rest", q>> = back <=> q = o
  BY PlacesFacts DEF Places, Boxes, OnTheWay, Central, Hand
<1>4. Shelf[back] = rest[o] /\ Shelf[back] # <<>> /\ Head(Shelf[back]) = l /\ l \in Letters
  BY <1>1, <1>2, TailFacts
<1>5. /\ sh[Central] = central' /\ sh[Hand] = InHand'
      /\ \A q \in Owners : sh[<<"inbox", q>>] = inbox'[q] /\ sh[<<"rest", q>>] = rest'[q]
  <2> HIDE DEF box, back
  <2>1. box = <<"inbox", o>>
    BY DEF box
  <2> QED BY <1>1, <1>2, <1>3, <1>4, <2>1, PlacesFacts DEF Added, Dropped, Shelves
<1>6. sh = Added(Dropped(Shelf, back), box, Head(Shelf[back]))
  BY <1>4
<1> HIDE DEF sh, l, box, back
<1>7. UNCHANGED <<home, orphans, read, posted>>
  BY <1>1
<1>8. /\ Once(Shelf') /\ Numbered' /\ EndsKnown' /\ Taken' = Taken /\ l \in InBox
      /\ Moving' = Moving /\ InBox' = (InBox \ {l}) \cup {l}
  <2>1. /\ Once(Shelf') /\ Numbered' /\ EndsKnown' /\ Taken' = Taken
        /\ back \in Boxes => l \in InBox
        /\ Moving' = (IF back \in OnTheWay THEN Moving \ {l} ELSE Moving)
                     \cup (IF box \in OnTheWay THEN {l} ELSE {})
        /\ InBox' = (IF back \in Boxes THEN InBox \ {l} ELSE InBox)
                    \cup (IF box \in Boxes THEN {l} ELSE {})
    BY <1>3, <1>4, <1>5, <1>6, <1>7, Moved
  <2> QED BY <1>3, <2>1
<1>9. UNCHANGED Office!officeVars
  <2>1. InBox' = InBox
    BY <1>8
  <2> QED BY <1>1, <1>8, <2>1 DEF Office!officeVars, Office!letterVars, Moving, InBox, Taken
<1>10. LookedUp'
  BY <1>1 DEF MailInv, LookedUp
<1> QED BY <1>8, <1>9, <1>10 DEF MailInv

\* The notice takes the number of the letter that it speaks of.
LEMMA ReturnStep ==
    ASSUME MailInv, TypeOK', SendBack
    PROVE  MailInv' /\ Office!OfficeNext
<1> DEFINE l == carried[1]
           mid == Dropped(Shelf, Hand)
<1>1. /\ carried # <<>> /\ ~carried[2] /\ l \in Letters /\ carried' = <<>>
      /\ orphans' = orphans \cup {l} /\ central \in Seq(Letters)
      /\ central' = central \o Notice(l) /\ UNCHANGED <<home, inbox, rest, read, posted>>
  BY DEF SendBack, MailInv, TypeOK, readerVars
<1>2. /\ Shelf \in Shelves /\ Once(Shelf) /\ Shelf[Central] = central /\ Shelf[Hand] = <<l>>
      /\ \A o \in Owners : Shelf[<<"inbox", o>>] = inbox[o] /\ Shelf[<<"rest", o>>] = rest[o]
      /\ Moving = On(Shelf, OnTheWay) /\ InBox = On(Shelf, Boxes)
      /\ On(Shelf, Places) = Moving \cup InBox
  BY <1>1, ShelfIs, OfficeSees DEF MailInv, InHand
<1>3. Tail(<<l>>) = <<>> /\ Head(<<l>>) = l /\ <<l>> # <<>> /\ InHand' = <<>>
  BY <1>1 DEF InHand
<1>4. /\ mid[Central] = central /\ mid[Hand] = InHand'
      /\ \A o \in Owners : mid[<<"inbox", o>>] = inbox'[o] /\ mid[<<"rest", o>>] = rest'[o]
  <2>1. \A o \in Owners : /\ <<"rest", o>> \in Places /\ <<"inbox", o>> \in Places
                          /\ <<"rest", o>> # Hand /\ <<"inbox", o>> # Hand
    BY DEF Places, Boxes, OnTheWay, Central, Hand
  <2> QED BY <1>1, <1>2, <1>3, <2>1, PlacesFacts DEF Dropped, Shelves
<1>5. /\ Hand \in Places /\ Hand \in OnTheWay /\ Hand \notin Boxes /\ Central \in Places
      /\ Central \in OnTheWay /\ Central \notin Boxes
      /\ OnTheWay \in SUBSET Places /\ Boxes \in SUBSET Places
  BY PlacesFacts DEF OnTheWay
<1>6. Shelf[Hand] # <<>> /\ Head(Shelf[Hand]) = l
  BY <1>2, <1>3
<1>7. mid = Dropped(Shelf, Hand)
  OBVIOUS
<1>8. LookedUp'
  BY <1>1 DEF LookedUp
<1>9. Taken' = Taken
  BY <1>1 DEF Taken
<1>10. l.to \in Owners => home[l.to] = "closed"
  BY <1>1 DEF MailInv, LookedUp
<1> HIDE DEF mid, l
<1>11. CASE l.type = "nack"
  <2>1. central' = central
    BY <1>1, <1>11, ConcatEmptySeq DEF Notice
  <2>2. /\ mid[Central] = central' /\ UNCHANGED <<home, posted>>
        /\ Taken' \cup orphans' \subseteq Taken \cup orphans \cup {l}
    BY <1>1, <1>4, <1>9, <2>1
  <2>3. /\ Once(Shelf') /\ Numbered' /\ EndsKnown' /\ l \in Moving
        /\ Moving' = Moving \ {l} /\ InBox' = InBox
    BY <1>4, <1>5, <1>6, <1>7, <2>2, Gone
  <2>4. Office!Return(l)
    BY <1>1, <1>9, <1>10, <1>11, <2>3 DEF Office!Return, Moving, InBox, Taken
  <2>5. Office!OfficeNext
    BY <2>3, <2>4 DEF Office!OfficeNext, Office!OfficeStep, Moving
  <2> QED BY <1>8, <2>3, <2>5 DEF MailInv
<1>12. CASE l.type # "nack"
  <2> DEFINE n == Nack(l)
             sh == Added(mid, Central, n)
  <2>1. n \in Letters /\ n.no = l.no /\ n.from = l.to /\ n.to = l.from
    BY <1>1, NackIsLetter DEF Nack, Letter
  <2>2. central' = Append(central, n)
    BY <1>1, <1>12, <2>1, AppendIsConcat DEF Notice
  <2> HIDE DEF n
  <2>3. /\ mid \in Shelves /\ Once(mid)
        /\ \A q \in Places : \A i \in 1..Len(mid[q]) : mid[q][i].no # l.no
        /\ \A P \in SUBSET Places :
              On(mid, P) = IF Hand \in P THEN On(Shelf, P) \ {l} ELSE On(Shelf, P)
    <3>1. Shelf \in Shelves /\ Once(Shelf) /\ Hand \in Places /\ Shelf[Hand] # <<>>
      BY <1>2, <1>5, <1>6
    <3>2. /\ Dropped(Shelf, Hand) \in Shelves /\ Once(Dropped(Shelf, Hand))
          /\ \A q \in Places : \A i \in 1..Len(Dropped(Shelf, Hand)[q]) :
                Dropped(Shelf, Hand)[q][i].no # Head(Shelf[Hand]).no
          /\ \A P \in SUBSET Places :
                On(Dropped(Shelf, Hand), P)
                  = IF Hand \in P THEN On(Shelf, P) \ {Head(Shelf[Hand])} ELSE On(Shelf, P)
      BY <3>1, DropFacts
    <3> QED BY <1>6, <1>7, <3>2
  <2>4. /\ sh \in Shelves /\ Once(sh)
        /\ \A P \in SUBSET Places :
              On(sh, P) = IF Central \in P THEN On(mid, P) \cup {n} ELSE On(mid, P)
    <3>1. mid \in Shelves /\ Once(mid)
      BY <2>3
    <3>2. \A q \in Places : \A i \in 1..Len(mid[q]) : mid[q][i].no # n.no
      BY <2>1, <2>3
    <3> QED BY <1>5, <2>1, <3>1, <3>2, AddFacts
  <2>5. /\ sh[Central] = central' /\ sh[Hand] = InHand'
        /\ \A o \in Owners : sh[<<"inbox", o>>] = inbox'[o] /\ sh[<<"rest", o>>] = rest'[o]
    <3>1. \A o \in Owners : /\ <<"rest", o>> \in Places /\ <<"inbox", o>> \in Places
                            /\ <<"rest", o>> # Central /\ <<"inbox", o>> # Central
      BY DEF Places, Boxes, OnTheWay, Central
    <3> QED BY <1>4, <2>2, <2>3, <3>1, PlacesFacts DEF Added, Shelves
  <2> HIDE DEF sh
  <2>6. Shelf' = sh /\ Moving' = On(sh, OnTheWay) /\ InBox' = On(sh, Boxes)
    BY <2>4, <2>5, OfficeWillSee
  <2>7. /\ Moving' = (Moving \ {l}) \cup {n} /\ InBox' = InBox
        /\ On(sh, Places) \subseteq On(Shelf, Places) \cup {n}
    <3>1. /\ On(sh, OnTheWay) = (On(Shelf, OnTheWay) \ {l}) \cup {n}
          /\ On(sh, Boxes) = On(Shelf, Boxes)
          /\ On(sh, Places) = (On(Shelf, Places) \ {l}) \cup {n}
      BY <1>5, <2>3, <2>4
    <3> QED BY <1>2, <2>6, <3>1
  <2>8. l \in Moving /\ l \in On(Shelf, Places)
    <3>1. l \in On(Shelf, OnTheWay)
      BY <1>2, <1>5, <1>6, Lies
    <3> QED BY <1>2, <3>1
  <2>9. Numbered' /\ EndsKnown'
    <3>1. \A k \in {n} : k.no <= posted' /\ \A o \in {k.from, k.to} \cap Owners : home'[o] # "new"
      <4>1. l.no <= posted /\ \A o \in {l.from, l.to} \cap Owners : home[o] # "new"
        BY <2>8 DEF MailInv, Numbered, EndsKnown
      <4> QED BY <1>1, <2>1, <4>1
    <3>2. posted' >= posted
      BY <1>1, MailboxAssumption DEF MailInv, TypeOK
    <3>3. {n} \in SUBSET Letters /\ On(Shelf', Places) \subseteq On(Shelf, Places) \cup {n}
      BY <2>1, <2>6, <2>7
    <3>4. Taken' \cup orphans' \subseteq On(Shelf, Places) \cup Taken \cup orphans
      BY <1>1, <1>9, <2>8
    <3>5. \A o \in Owners : home[o] # "new" => home'[o] # "new"
      BY <1>1
    <3> QED BY <3>1, <3>2, <3>3, <3>4, <3>5, KnownStays
  <2>10. Office!Return(l)
    <3>1. n = Office!Nack(l)
      BY DEF n, Nack, Letter, Office!Nack, Office!Letter
    <3>2. Moving' = (Moving \ {l}) \cup (IF l.type = "nack" THEN {} ELSE {Office!Nack(l)})
      BY <1>12, <2>7, <3>1
    <3> QED BY <1>1, <1>9, <1>10, <2>7, <2>8, <3>2 DEF Office!Return, Moving, InBox, Taken
  <2>11. Office!OfficeNext
    BY <2>8, <2>10 DEF Office!OfficeNext, Office!OfficeStep, Moving
  <2> QED BY <1>8, <2>4, <2>6, <2>9, <2>11 DEF MailInv
<1> QED BY <1>11, <1>12

--------------------------------------------------------------------------------
(* The refinement *)

LEMMA MailStart == Init => MailInv /\ Office!OfficeInit
<1> SUFFICES ASSUME Init PROVE MailInv /\ Office!OfficeInit
  OBVIOUS
<1>1. TypeOK
  BY MailTypes
<1>2. \A p \in Places : Shelf[p] = <<>>
  <2>1. Shelf[Central] = <<>> /\ Shelf[Hand] = <<>>
    BY <1>1, ShelfIs DEF Init, InHand
  <2>2. \A o \in Owners : Shelf[<<"inbox", o>>] = <<>> /\ Shelf[<<"rest", o>>] = <<>>
    BY <1>1, ShelfIs DEF Init
  <2>3. \A p \in OnTheWay : Shelf[p] = <<>>
    BY <2>1 DEF OnTheWay
  <2>4. \A p \in Boxes : Shelf[p] = <<>>
    <3> SUFFICES ASSUME NEW p \in Boxes PROVE Shelf[p] = <<>>
      OBVIOUS
    <3>1. PICK o \in Owners : p = <<"inbox", o>> \/ p = <<"rest", o>>
      BY PlacesFacts
    <3> QED BY <2>2, <3>1
  <2> QED BY <2>3, <2>4, PlacesFacts
<1>3. Len(<<>>) = 0 /\ Range(<<>>) = {}
  <2>1. <<>> \in Seq(Letters) /\ Len(<<>>) = 0
    BY EmptySeq
  <2>2. DOMAIN <<>> = {}
    BY <2>1, LenProperties
  <2> QED BY <2>1, <2>2 DEF Range
<1>4. Once(Shelf)
  BY <1>2, <1>3 DEF Once
<1>5. \A P \in SUBSET Places : On(Shelf, P) = {}
  BY <1>2, <1>3 DEF On
<1>6. Taken = {} /\ orphans = {}
  BY <1>3 DEF Taken, Init
<1>7. Moving = {} /\ InBox = {} /\ On(Shelf, Places) = {}
  BY <1>1, <1>5, OfficeSees, PlacesFacts
<1>8. Numbered /\ EndsKnown
  BY <1>6, <1>7 DEF Numbered, EndsKnown
<1>9. LookedUp
  BY DEF Init, LookedUp
<1>10. Office!OfficeInit
  BY <1>6, <1>7 DEF Init, Office!OfficeInit, Moving, InBox, Taken
<1> QED BY <1>1, <1>4, <1>8, <1>9, <1>10 DEF MailInv

LEMMA MailStep ==
    MailInv /\ [Next]_vars => MailInv' /\ [Office!OfficeNext]_(Office!officeVars)
<1> SUFFICES ASSUME MailInv, [Next]_vars
             PROVE  MailInv' /\ (Office!OfficeNext \/ UNCHANGED Office!officeVars)
  OBVIOUS
<1>0. TypeOK'
  BY MailTypesStep DEF MailInv
<1>1. ASSUME NEW o \in Owners, Register(o) \/ Unregister(o) PROVE MailInv' /\ Office!OfficeNext
  BY <1>0, <1>1, RegisterStep
<1>2. ASSUME UNCHANGED <<home, central, carried, inbox, rest, read, orphans, posted>>
      PROVE  MailInv' /\ UNCHANGED Office!officeVars
  <2>1. Shelf' = Shelf /\ Moving' = Moving /\ InBox' = InBox /\ Taken' = Taken
    BY <1>2, SameQueues DEF Taken
  <2>2. Numbered' /\ EndsKnown' /\ LookedUp' /\ Once(Shelf')
    BY <1>2, <2>1 DEF MailInv, Numbered, EndsKnown, LookedUp
  <2>3. UNCHANGED Office!officeVars
    BY <1>2, <2>1 DEF Office!officeVars, Office!letterVars, Moving, InBox, Taken
  <2> QED BY <1>0, <2>2, <2>3 DEF MailInv
<1>3. ASSUME NEW o \in Owners, Consume(o) \/ FindsEmpty(o) \/ AllBack(o)
      PROVE  MailInv' /\ UNCHANGED Office!officeVars
  <2>1. UNCHANGED <<home, central, carried, inbox, rest, read, orphans, posted>>
    BY <1>3 DEF Consume, FindsEmpty, AllBack, dispatcherVars
  <2> QED BY <1>2, <2>1
<1>4. ASSUME NEW o \in Owners, TakeOne(o)
      PROVE  MailInv' /\ (Office!OfficeNext \/ UNCHANGED Office!officeVars)
  BY <1>0, <1>4, TakeStep
<1>5. ASSUME NEW o \in Owners, PutBack(o) PROVE MailInv' /\ UNCHANGED Office!officeVars
  BY <1>0, <1>5, PutBackStep
<1>6. ASSUME NEW from \in Senders, NEW to \in Owners,
             Steer(from, to) \/ SendMessage(from, to) \/ SendResult(from, to)
      PROVE  MailInv' /\ Office!OfficeNext
  <2>1. home[to] # "new"
    BY <1>6 DEF Steer, SendMessage, SendResult
  <2>2. PICK type \in {"message", "steer", "result"} : Send(type, from, to)
    BY <1>6 DEF Steer, SendMessage, SendResult
  <2>3. type \in Types \ {"nack"}
    BY DEF Types
  <2> QED BY <1>0, <2>1, <2>2, <2>3, SendStep
<1>7. CASE PickUp
  BY <1>0, <1>7, PickUpStep
<1>8. CASE PutInInbox
  BY <1>0, <1>8, DeliverStep
<1>9. CASE SendBack
  BY <1>0, <1>9, ReturnStep
<1>10. CASE UNCHANGED vars
  <2>1. UNCHANGED <<home, central, carried, inbox, rest, read, orphans, posted>>
    BY <1>10 DEF vars, dispatcherVars, readerVars
  <2> QED BY <1>2, <2>1
<1> QED BY <1>1, <1>3, <1>4, <1>5, <1>6, <1>7, <1>8, <1>9, <1>10
        DEF Next, ReaderStep, DispatcherStep

(* Every letter is under way, in its addressee's box, read once or returned with a  *)
(* notice, however senders, the Dispatcher, the readers and the unregistering of     *)
(* contexts interleave (mailbox.py Dispatcher, AgentMailbox.drain_by_type).          *)
THEOREM MailIsAnOffice == Spec => ImplementsOffice
<1>1. Init => MailInv /\ Office!OfficeInit
  BY MailStart
<1>2. MailInv /\ [Next]_vars => MailInv' /\ [Office!OfficeNext]_(Office!officeVars)
  BY MailStep
<1> QED BY <1>1, <1>2, PTL DEF Spec, ImplementsOffice, Office!Promise
================================================================================
