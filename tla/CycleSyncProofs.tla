---------------------------- MODULE CycleSyncProofs ----------------------------
(***************************************************************************)
(* For any number of cards and any blocks, a word is taken for a word of   *)
(* the card that sent it from an intact spacer on, and from the first word *)
(* on in a block that starts with a whole cycle.                           *)
(*                                                                         *)
(* The invariant behind it is about the count, not about what was given:   *)
(* as long as a word's place is certain, channel is the place of the last  *)
(* word; and before the first word it is the place before its own, unless  *)
(* that is the spacer, for which any count will do.                        *)
(***************************************************************************)
EXTENDS CycleSync, TLAPS

\* The place of the last word is certain.
Certain(j) ==
    \/ WholeCycle /\ Undamaged(1, j)
    \/ \E i \in 1..j : block[i].place = 0 /\ Undamaged(i, j)

\* The count never runs further than the words of one block beyond a cycle.
CountBound ==
    /\ Len(block) <= MaxBlock
    /\ block # <<>> => channel <= Cards + Len(given)

\* The count follows the place while that is certain.
CountIsPlace ==
    LET j == Len(given) IN
    /\ j > 0 /\ Certain(j) => channel = block[j].place
    /\ j = 0 /\ WholeCycle /\ block[1].place # 0 => channel = block[1].place - 1

\* What has been given so far is right.
GivenRight == \A j \in 1..Len(given) : Certain(j) => given[j] = block[j].place

IInv == TypeOK /\ CountBound /\ CountIsPlace /\ GivenRight

--------------------------------------------------------------------------------
(* Places in a cycle. *)

\* Counting within a cycle.
LEMMA NextPlace ==
    ASSUME NEW x \in Nat
    PROVE  /\ x % Cycle \in Places
           /\ (x + 1) % Cycle = IF x % Cycle = Cards THEN 0 ELSE (x % Cycle) + 1
  BY CardsAssumption DEF CardsAssumption, Cycle, Places

\* From place p on, the first cycle has its spacer where it should be.
LEMMA OneSpacer ==
    ASSUME NEW p \in 1..Cards, NEW i \in 1..Cycle
    PROVE  (p + i - 1) % Cycle = 0 <=> i = Cycle - p + 1
  BY CardsAssumption DEF CardsAssumption, Cycle

\* A count that ran on is brought back into the cycle.
LEMMA CountBack ==
    ASSUME NEW c \in Nat
    PROVE  CountInCycle(c) \in Places
  BY CardsAssumption DEF CardsAssumption, CountInCycle, Places

\* Card c of the count is itself within a cycle.
LEMMA CountCard ==
    ASSUME NEW c \in Nat
    PROVE  /\ (c % Cards) + 1 \in Places
           /\ c < Cards => c % Cards = c
  BY CardsAssumption DEF CardsAssumption, Places

--------------------------------------------------------------------------------
(* The steps. *)

\* What arrives is a block of words.
LEMMA BlocksAreWords ==
    ASSUME synchWordControl \in BOOLEAN, NEW n \in 1..MaxBlock, NEW b \in Blocks(n)
    PROVE  b \in Seq(Words) /\ Len(b) = n
  <1>1. n \in Nat
    BY MaxBlockAssumption DEF MaxBlockAssumption
  <1>2. PICK p \in Places, cut \in 1..n, skip \in Places, s \in Intended(0), i \in 1..n, d \in Looks :
          b = Damaged(Stream(p, n, cut, skip, s), i, d)
    BY DEF Blocks
  <1>3. s \in Looks
    BY DEF Intended, Looks
  <1>4. \A k \in 1..n : p + k - 1 + (IF k > cut THEN skip ELSE 0) \in Nat
    BY <1>1, CardsAssumption DEF Places, CardsAssumption
  <1>5. \A k \in 1..n : (p + k - 1 + (IF k > cut THEN skip ELSE 0)) % Cycle \in Places
    BY <1>4, NextPlace
  <1>6. \A k \in 1..n : Stream(p, n, cut, skip, s)[k] \in Words
    BY <1>3, <1>5 DEF Stream, Words, Looks
  <1>7. Stream(p, n, cut, skip, s) \in [1..n -> Words]
    BY <1>6 DEF Stream
  <1>8. b \in [1..n -> Words]
    BY <1>2, <1>7 DEF Damaged, Words
  <1> QED BY <1>1, <1>8

\* At the head of a block with a whole cycle, the count is set to the place before that
\* of the first word, whatever it was: the search and the expectation agree.
LEMMA HeadOfBlock ==
    ASSUME TypeOK, NEW b \in Seq(Words), NEW stale \in SUBSET (Len(b) + 1 .. Cycle),
           FirstChannel(SpacersSeen(b, stale))
    PROVE  /\ channel' \in Places
           /\ (/\ Len(b) >= Cycle /\ b[1].place # 0
               /\ \A i \in 1..Cycle : /\ b[i].place = (b[1].place + i - 1) % Cycle
                                      /\ b[i].looks \in Intended(b[i].place))
              => channel' = b[1].place - 1
  <1> DEFINE c == CountInCycle(channel)
             seen == SpacersSeen(b, stale)
             found == Searched(seen)
  <1>1. c \in Places
    BY CountBack DEF TypeOK
  <1>2. found \subseteq 2..Cycle
    BY DEF Searched
  <1>3. channel' \in Places
    BY <1>1, <1>2, CardsAssumption DEF FirstChannel, Places, Cycle, CardsAssumption
  <1>4. ASSUME Len(b) >= Cycle, b[1].place # 0,
               \A i \in 1..Cycle : /\ b[i].place = (b[1].place + i - 1) % Cycle
                                    /\ b[i].looks \in Intended(b[i].place)
        PROVE  channel' = b[1].place - 1
    <2> DEFINE p == b[1].place
    <2>1. p \in 1..Cards /\ \A i \in 1..Cycle : i \in 1..Len(b)
      <3>1. 1..Cycle \subseteq 1..Len(b) /\ 1 \in 1..Cycle
        BY <1>4, CardsAssumption DEF Cycle, CardsAssumption
      <3>2. b[1] \in Words
        BY <3>1
      <3>3. p \in Places /\ p # 0
        BY <1>4, <3>2 DEF Words
      <3> QED BY <3>1, <3>3, CardsAssumption DEF Places, CardsAssumption
    <2>2. \A i \in 1..Cycle : b[i].looks # "data" <=> b[i].place = 0
      BY <1>4 DEF Intended
    <2>3. \A i \in 1..Cycle : b[i].place = 0 <=> i = Cycle - p + 1
      BY <1>4, <2>1, OneSpacer
    <2>4. stale = {}
      BY <1>4, CardsAssumption DEF Cycle, CardsAssumption
    <2>5. \A i \in 1..Cycle : i \in seen <=> i = Cycle - p + 1
      BY <2>1, <2>2, <2>3, <2>4 DEF SpacersSeen
    <2>6. found = {Cycle - p + 1}
      BY <2>1, <2>5, CardsAssumption DEF Searched, Cycle, CardsAssumption
    <2>7. Cycle - c \in seen => Cycle - c = Cycle - p + 1
      BY <1>1, <2>5, CardsAssumption DEF Places, Cycle, CardsAssumption
    <2>8. \/ Cycle - c \in seen /\ channel' = c
          \/ \E i \in found : channel' = Cycle - i
      BY <2>6 DEF FirstChannel
    <2> HIDE DEF c, seen, found, p
    <2>9. CASE Cycle - c \in seen /\ channel' = c
      <3>1. c = p - 1
        BY <1>1, <2>1, <2>7, <2>9, CardsAssumption DEF Places, Cycle, CardsAssumption
      <3> QED BY <2>9, <3>1 DEF p
    <2>10. CASE \E i \in found : channel' = Cycle - i
      <3>1. channel' = Cycle - (Cycle - p + 1)
        BY <2>6, <2>10
      <3>2. channel' = p - 1
        BY <2>1, <3>1, CardsAssumption DEF Cycle, CardsAssumption
      <3> QED BY <3>2 DEF p
    <2> QED BY <2>8, <2>9, <2>10
  <1> QED BY <1>3, <1>4

LEMMA ArriveKeeps ==
    ASSUME IInv, Arrive
    PROVE  IInv'
  <1>1. PICK n \in 1..MaxBlock : \E b \in Blocks(n), stale \in SUBSET (n + 1 .. Cycle) :
          block' = b /\ FirstChannel(SpacersSeen(b, stale))
    BY DEF Arrive
  <1>2. PICK b \in Blocks(n), stale \in SUBSET (n + 1 .. Cycle) :
          block' = b /\ FirstChannel(SpacersSeen(b, stale))
    BY <1>1
  <1>3. n \in Nat /\ MaxBlock \in Nat /\ n <= MaxBlock
    BY MaxBlockAssumption DEF MaxBlockAssumption
  <1>4. TypeOK
    BY DEF IInv
  <1>5. b \in Seq(Words) /\ Len(b) = n
    BY <1>4, BlocksAreWords DEF TypeOK
  <1>6. given' = given /\ given \in Seq(Places) /\ Len(given) = 0
    BY <1>4 DEF Arrive, TypeOK
  <1>7. stale \in SUBSET (Len(b) + 1 .. Cycle)
    BY <1>5
  <1>8. channel' \in Places
    BY <1>2, <1>4, <1>5, <1>7, HeadOfBlock
  <1>9. TypeOK'
    BY <1>2, <1>3, <1>4, <1>5, <1>6, <1>8, CardsAssumption
    DEF TypeOK, Places, Arrive, CardsAssumption
  <1>10. CountBound'
    BY <1>2, <1>3, <1>5, <1>6, <1>8, CardsAssumption DEF CountBound, Places, CardsAssumption
  <1>11. CountIsPlace'
    <2>1. SUFFICES ASSUME WholeCycle', b[1].place # 0
                   PROVE  channel' = b[1].place - 1
      BY <1>2, <1>6 DEF CountIsPlace
    <2>2. /\ Len(b) >= Cycle
          /\ \A i \in 1..Cycle : /\ b[i].place = (b[1].place + i - 1) % Cycle
                                 /\ b[i].looks \in Intended(b[i].place)
      BY <1>2, <2>1 DEF WholeCycle, Undamaged, Intact, Intended, Arrive
    <2> QED BY <1>2, <1>4, <1>5, <1>7, <2>1, <2>2, HeadOfBlock
  <1>12. GivenRight'
    BY <1>6 DEF GivenRight
  <1> QED BY <1>9, <1>10, <1>11, <1>12 DEF IInv

LEMMA ReleaseKeeps ==
    ASSUME IInv, Release
    PROVE  IInv'
  <1>1. block' = <<>> /\ given' = <<>> /\ channel' = channel
    BY DEF Release
  <1>2. TypeOK' /\ CountBound' /\ GivenRight'
    BY <1>1, MaxBlockAssumption
    DEF IInv, TypeOK, CountBound, GivenRight, Release, MaxBlockAssumption
  <1>3. ~ WholeCycle'
    BY <1>1, CardsAssumption DEF WholeCycle, Cycle, CardsAssumption
  <1> QED BY <1>1, <1>2, <1>3 DEF IInv, CountIsPlace

\* While the place is certain, a word is given its place and the count follows it.
LEMMA NextWordRight ==
    ASSUME IInv, NextWord, Certain(Len(given) + 1)
    PROVE  LET k == Len(given) + 1
           IN  channel' = block[k].place /\ given' = Append(given, block[k].place)
  <1> DEFINE j == Len(given)
             k == j + 1
             q == block[k].place
  <1>1. /\ block \in Seq(Words) /\ given \in Seq(Places) /\ channel \in Nat
        /\ j \in Nat /\ k \in 1..Len(block) /\ synchWordControl \in BOOLEAN
    BY CardsAssumption, MaxBlockAssumption
    DEF IInv, TypeOK, NextWord, CardsAssumption, MaxBlockAssumption
  <1>2. /\ q \in Places
        /\ \A i \in 1..Len(block) : block[i].place \in Places
    <2>1. \A i \in 1..Len(block) : block[i] \in Words
      BY <1>1
    <2>2. \A i \in 1..Len(block) : block[i].place \in Places
      BY <2>1 DEF Words
    <2> QED BY <1>1, <2>2
  <1>3. Intact(k)
    BY <1>1 DEF Certain, Undamaged
  <1>4. CASE q = 0
    <2>1. SynchWord(block[k])
      BY <1>3, <1>4 DEF Intact, Intended, SynchWord
    <2> QED BY <1>4, <2>1 DEF NextWord
  <1>5. CASE q # 0
    <2>1. ~ SynchWord(block[k])
      BY <1>3, <1>5 DEF Intact, Intended, SynchWord
    <2>2. channel = q - 1
      <3>1. CASE j = 0
        <4>1. WholeCycle
          BY <1>5, <3>1 DEF Certain
        <4> QED BY <1>5, <3>1, <4>1 DEF IInv, CountIsPlace
      <3>2. CASE j > 0
        <4>1. PICK a \in 1..j : /\ Undamaged(a, k)
                                /\ (WholeCycle /\ a = 1) \/ block[a].place = 0
          BY <1>1, <1>5, <3>2 DEF Certain
        <4>2. Undamaged(a, j) /\ a \in Nat /\ a <= j
          BY <1>1, <4>1 DEF Undamaged
        <4>3. channel = block[j].place
          BY <1>1, <3>2, <4>1, <4>2 DEF IInv, CountIsPlace, Certain
        <4>4. block[a].place \in Nat
          BY <1>1, <1>2, <4>2 DEF Places
        <4> DEFINE x == block[a].place + j - a
        <4>5. x \in Nat /\ x + 1 = block[a].place + k - a
          BY <1>1, <4>2, <4>4
        <4>6. block[j].place = x % Cycle /\ q = (x + 1) % Cycle
          BY <1>1, <4>1, <4>2, <4>5 DEF Undamaged
        <4> HIDE DEF x, q, j, k
        <4>7. x % Cycle \in Places /\ q = IF x % Cycle = Cards THEN 0 ELSE (x % Cycle) + 1
          BY <4>5, <4>6, NextPlace
        <4> QED BY <1>5, <4>3, <4>6, <4>7 DEF Places
      <3> QED BY <1>1, <3>1, <3>2
    <2>3. channel < Cards /\ channel + 1 = q
      BY <1>1, <1>2, <2>2, CardsAssumption DEF Places, CardsAssumption
    <2>4. channel % Cards = channel
      BY <1>1, <2>3, CountCard
    <2> QED BY <2>1, <2>3, <2>4 DEF NextWord
  <1> QED BY <1>4, <1>5

LEMMA NextWordKeeps ==
    ASSUME IInv, NextWord
    PROVE  IInv'
  <1> DEFINE j == Len(given)
  <1>1. /\ block \in Seq(Words) /\ given \in Seq(Places) /\ channel \in Nat
        /\ j \in Nat /\ j < Len(block) /\ block # <<>>
    BY CardsAssumption, MaxBlockAssumption
    DEF IInv, TypeOK, NextWord, CardsAssumption, MaxBlockAssumption
  <1>2. PICK g \in Places, c \in {0, channel + 1} : given' = Append(given, g) /\ channel' = c
    BY <1>1, CountCard, CardsAssumption DEF NextWord, Places, CardsAssumption
  <1>3. /\ given' \in Seq(Places) /\ Len(given') = j + 1
        /\ \A i \in 1..j : given'[i] = given[i]
        /\ given'[j + 1] = g
    BY <1>1, <1>2
  <1>4. block' = block /\ synchWordControl' = synchWordControl
    BY DEF NextWord
  <1>5. channel <= Cards + j /\ Len(block) <= MaxBlock
    BY <1>1 DEF IInv, CountBound
  <1>6. TypeOK' /\ CountBound'
    <2>1. channel' \in Nat /\ channel' <= Cards + j + 1
      BY <1>1, <1>2, <1>5, CardsAssumption DEF CardsAssumption
    <2>2. channel' \in 0 .. Cards + MaxBlock
      BY <1>1, <1>5, <2>1, CardsAssumption, MaxBlockAssumption
      DEF CardsAssumption, MaxBlockAssumption
    <2>3. TypeOK'
      BY <1>1, <1>3, <1>4, <2>2 DEF IInv, TypeOK
    <2>4. CountBound'
      BY <1>1, <1>3, <1>4, <1>5, <2>1, CardsAssumption DEF CountBound, CardsAssumption
    <2> QED BY <2>3, <2>4
  <1>7. Certain(j + 1) => channel' = block[j + 1].place /\ g = block[j + 1].place
    <2>1. SUFFICES ASSUME Certain(j + 1)
                   PROVE  channel' = block[j + 1].place /\ g = block[j + 1].place
      OBVIOUS
    <2>2. channel' = block[j + 1].place /\ given' = Append(given, block[j + 1].place)
      BY <2>1, NextWordRight
    <2>3. given'[j + 1] = block[j + 1].place
      BY <1>1, <2>2
    <2> QED BY <1>3, <2>2, <2>3
  <1>8. \A i : Certain(i)' <=> Certain(i)
    BY <1>4 DEF Certain, WholeCycle, Undamaged, Intact, Intended
  <1>9. CountIsPlace'
    BY <1>1, <1>3, <1>4, <1>7, <1>8 DEF CountIsPlace
  <1>10. GivenRight'
    BY <1>1, <1>3, <1>4, <1>7, <1>8 DEF IInv, GivenRight
  <1> QED BY <1>6, <1>9, <1>10 DEF IInv

--------------------------------------------------------------------------------
(* The theorems. *)

\* Whatever is lost or damaged, the synchronisation keeps its invariant.
THEOREM SyncInvariant == Spec => []IInv
  <1>1. Init => IInv
    BY CardsAssumption, MaxBlockAssumption
    DEF Init, IInv, TypeOK, CountBound, CountIsPlace, GivenRight, WholeCycle, Cycle, Places,
        CardsAssumption, MaxBlockAssumption
  <1>2. IInv /\ [Next]_vars => IInv'
    <2> SUFFICES ASSUME IInv, [Next]_vars PROVE IInv'
      OBVIOUS
    <2>1. CASE Arrive
      BY <2>1, ArriveKeeps
    <2>2. CASE NextWord
      BY <2>2, NextWordKeeps
    <2>3. CASE Release
      BY <2>3, ReleaseKeeps
    <2>4. CASE UNCHANGED vars
      BY <2>4
      DEF vars, IInv, TypeOK, CountBound, CountIsPlace, GivenRight, Certain, WholeCycle,
          Undamaged, Intact, Intended
    <2> QED BY <2>1, <2>2, <2>3, <2>4 DEF Next
  <1> QED BY <1>1, <1>2, PTL DEF Spec

\* The count stays within the words of one block beyond a cycle, so that the spacer is
\* looked for inside the buffer (class_CSM.cpp:214), for all cards and blocks.
THEOREM TypeCorrect == Spec => []TypeOK
  <1>1. IInv => TypeOK
    BY DEF IInv
  <1> QED BY <1>1, SyncInvariant, PTL

\* From an intact spacer to the next damage every word is taken for the right card's.
THEOREM SpacerRestores == Spec => []RightAfterSpacer
  <1>1. IInv => RightAfterSpacer
    BY DEF IInv, GivenRight, RightAfterSpacer, Certain
  <1> QED BY <1>1, SyncInvariant, PTL

\* A block that starts with a whole cycle is right from its first word, whatever was
\* lost before it.
THEOREM SearchRestores == Spec => []RightFromFirstWord
  <1>1. IInv => RightFromFirstWord
    BY DEF IInv, GivenRight, RightFromFirstWord, Certain
  <1> QED BY <1>1, SyncInvariant, PTL
================================================================================
