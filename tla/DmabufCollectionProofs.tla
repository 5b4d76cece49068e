------------------------ MODULE DmabufCollectionProofs ------------------------
(***************************************************************************)
(* The dups of window buffers, for any number of instances, any window and *)
(* descriptor table: none is lost, a context holds those of its buffers,   *)
(* and nobody closes what is another's, descriptor 0 after a collection    *)
(* that fell short excepted.                                               *)
(***************************************************************************)
EXTENDS DmabufCollection, TLAPS

-----------------------------------------------------------------------------
(* Types                                                                   *)

\* The loops stay within the slots.
LoopInv ==
    \A w \in Instances :
        /\ found[w] <= count[w]
        /\ at[w] = "empty" => i[w] <= count[w]
        /\ at[w] = "undo" => i[w] <= found[w] /\ short = TRUE
        /\ at[w] \notin {"collect", "undo"} => found[w] = 0 /\ attempt[w] = 0
        /\ at[w] \notin {"empty", "undo"} => i[w] = 0
        /\ at[w] = "idle" => count[w] = 0
        /\ attempt[w] <= count[w] * Tries
        /\ ctx[w] = TRUE => at[w] = "up"

\* More buffers may take more attempts.
LEMMA MoreTries ==
    ASSUME NEW c \in Nat, c <= MaxCollect
    PROVE  c * Tries \in Nat /\ c * Tries <= MaxCollect * Tries
<1>1. MaxCollect - c \in Nat /\ Tries \in Nat
    BY CollectBounds
<1>2. (MaxCollect - c) * Tries >= 0
    BY <1>1
<1>3. (MaxCollect - c) * Tries = MaxCollect * Tries - c * Tries
    BY CollectBounds
<1> QED
    BY <1>1, <1>2, <1>3, CollectBounds

\* The process begins with descriptor 0 and nothing collected.
LEMMA InitLoops == Init => TypeOK /\ LoopInv
<1> SUFFICES ASSUME Init PROVE TypeOK /\ LoopInv
    OBVIOUS
<1>0. 0 \in 0 .. MaxCollect /\ 0 \in Fds \cup {-1} /\ 0 <= 0 * Tries /\ 0 <= MaxCollect * Tries
    BY CollectBounds, MoreTries DEF Fds
<1>1. TableTypeOK
    BY <1>0 DEF Init, TableTypeOK
<1>2. SlotTypeOK
    BY <1>0 DEF Init, SlotTypeOK
<1>3. /\ i = [w \in Instances |-> 0] /\ found = [w \in Instances |-> 0]
      /\ attempt = [w \in Instances |-> 0] /\ count = [w \in Instances |-> 0]
    BY DEF Init
<1>4. LoopTypeOK
    BY <1>0, <1>3 DEF Init, LoopTypeOK, Steps
<1>5. FlagTypeOK
    BY DEF Init, FlagTypeOK
<1>6. \A w \in Instances : /\ found[w] = 0 /\ i[w] = 0 /\ attempt[w] = 0 /\ count[w] = 0
                           /\ at[w] = "idle"
    BY <1>3 DEF Init
<1>7. \A w \in Instances : ctx[w] # TRUE
    BY DEF Init
<1>8. LoopInv
  <2>1. \A w \in Instances : at[w] # "undo" /\ at[w] # "empty"
    BY <1>6
  <2>2. \A w \in Instances : attempt[w] <= count[w] * Tries
    BY <1>0, <1>6
  <2>3. ASSUME NEW w \in Instances PROVE found[w] <= count[w]
    <3>1. found[w] = 0 /\ count[w] = 0 /\ 0 <= 0
      BY <1>3
    <3> QED
      BY <3>1
  <2> QED
    BY <1>6, <1>7, <2>1, <2>2, <2>3 DEF LoopInv
<1> QED
    BY <1>1, <1>2, <1>4, <1>5, <1>8 DEF TypeOK

\* The table is a table after every step.
LEMMA TableStays ==
    ASSUME TypeOK, Next
    PROVE  TableTypeOK'
<1> USE DEF TypeOK, TableTypeOK
<1>1. ASSUME NEW n, CloseFd(n) PROVE TableTypeOK'
  <2>1. 0 \in 0 .. MaxCollect
    BY CollectBounds
  <2> QED
    BY <1>1, <2>1 DEF CloseFd
<1>2. ASSUME NEW w \in Instances \cup {App}, NEW b \in 0 .. MaxCollect, NEW n, Open(w, b, n)
      PROVE  TableTypeOK'
    BY <1>2 DEF Open
<1>3. ASSUME UNCHANGED table PROVE TableTypeOK'
    BY <1>3 DEF table
<1>4. CASE AppStep
  <2>1. 0 \in 0 .. MaxCollect
    BY CollectBounds
  <2> QED
    BY <1>1, <1>2, <1>4, <2>1 DEF AppStep
<1>5. ASSUME NEW w \in Instances, InstanceStep(w) PROVE TableTypeOK'
  <2>1. CASE EmptySlot(w) \/ Undo(w)
    BY <1>1, <1>3, <2>1 DEF EmptySlot, Undo, Empty
  <2>2. CASE Keep(w)
    <3>1. count[w] <= MaxCollect /\ count[w] \in Nat
      BY CollectBounds DEF LoopTypeOK
    <3>2. PICK n \in Fds, b \in 1 .. count[w] : Open(w, b, n)
      BY <2>2 DEF Keep, KeepIn
    <3> QED
      BY <1>2, <3>1, <3>2, CollectBounds
  <2> QED
    BY <1>3, <1>5, <2>1, <2>2 DEF InstanceStep, Leave, EmptyDone, Resize, Skip, Break,
       Collected, Connect
<1> QED
    BY <1>4, <1>5 DEF Next

\* So are the slots and the buffers they are for.
LEMMA SlotsStay ==
    ASSUME TypeOK, LoopInv, Next
    PROVE  SlotTypeOK'
<1> USE DEF TypeOK, SlotTypeOK
<1>1. ASSUME UNCHANGED <<slot, anb>> PROVE SlotTypeOK'
    BY <1>1
<1>2. ASSUME NEW w \in Instances, InstanceStep(w) PROVE SlotTypeOK'
  <2>1. CASE EmptySlot(w) \/ Undo(w)
    <3>1. CASE UNCHANGED slot
      BY <1>1, <2>1, <3>1 DEF EmptySlot, Undo
    <3>2. CASE slot' = [slot EXCEPT ![w][i[w]] = -1]
      <4>1. UNCHANGED anb
        BY <2>1 DEF EmptySlot, Undo
      <4> QED
        BY <3>2, <4>1
    <3> QED
      BY <2>1, <3>1, <3>2 DEF EmptySlot, Undo, Empty
  <2>2. CASE Keep(w)
    <3>1. count[w] <= MaxCollect /\ count[w] \in Nat
      BY CollectBounds DEF LoopTypeOK
    <3>2. PICK n \in Fds, b \in 1 .. count[w] :
             /\ slot' = [slot EXCEPT ![w][found[w]] = n]
             /\ anb' = [anb EXCEPT ![w][found[w]] = b]
      BY <2>2 DEF Keep, KeepIn
    <3>3. n \in Fds \cup {-1} /\ b \in 0 .. MaxCollect
      BY <3>1, CollectBounds
    <3> QED
      BY <3>2, <3>3
  <2> QED
    BY <1>1, <1>2, <2>1, <2>2 DEF InstanceStep, Leave, EmptyDone, Resize, Skip, Break,
       Collected, Connect
<1> QED
    BY <1>1, <1>2 DEF Next, AppStep, state

\* The counters keep their ranges, and each its place.
LEMMA LoopsStay ==
    ASSUME TypeOK, LoopInv, Next
    PROVE  LoopTypeOK' /\ FlagTypeOK' /\ LoopInv'
<1> USE CollectBounds DEF TypeOK, LoopTypeOK, FlagTypeOK, LoopInv
<1>1. CASE AppStep
    BY <1>1 DEF AppStep, state
<1>2. ASSUME NEW w \in Instances, InstanceStep(w) PROVE LoopTypeOK' /\ FlagTypeOK' /\ LoopInv'
  <2>0. \A c \in {0} \cup 2 .. MaxCollect : c * Tries \in Nat /\ c * Tries <= MaxCollect * Tries
    BY MoreTries
  <2>1. CASE Leave(w)
    BY <2>1 DEF Leave, Goto, Steps
  <2>2. CASE EmptySlot(w)
    BY <2>2 DEF EmptySlot, SetIndex
  <2>3. CASE EmptyDone(w)
    BY <2>0, <2>3 DEF EmptyDone, Goto, LoopOver, SetIndex, Steps
  <2>4. CASE Resize(w)
    BY <2>0, <2>4 DEF Resize, Goto, Fault, Steps
  <2>5. CASE Skip(w)
    BY <2>0, <2>5 DEF Skip, MayTry, Tried, Fault
  <2>6. CASE Keep(w)
    BY <2>0, <2>6 DEF Keep, KeepIn, MayTry, Tried
  <2>7. CASE Break(w)
    BY <2>7 DEF Break, MayTry, Fault, FallShort, Goto, Steps
  <2>8. CASE Collected(w)
    <3>1. CASE found[w] = count[w]
      BY <2>0, <2>8, <3>1 DEF Collected, LoopOver, SetIndex, Goto, Steps
    <3>2. CASE found[w] # count[w]
      BY <2>8, <3>2 DEF Collected, FallShort, Goto, Steps
    <3> QED
      BY <3>1, <3>2
  <2>9. CASE Undo(w)
    BY <2>0, <2>9 DEF Undo, LoopOver, SetIndex, Goto, Steps
  <2>10. CASE Connect(w)
    <3>1. CASE ctx' = [ctx EXCEPT ![w] = TRUE] /\ Goto(w, "up") /\ UNCHANGED faults
      BY <2>10, <3>1 DEF Connect, Goto, Steps
    <3>2. CASE Fault /\ Goto(w, "wait") /\ UNCHANGED ctx
      BY <2>10, <3>2 DEF Connect, Goto, Fault, Steps
    <3> QED
      BY <2>10, <3>1, <3>2 DEF Connect
  <2> QED
    BY <1>2, <2>1, <2>2, <2>3, <2>4, <2>5, <2>6, <2>7, <2>8, <2>9, <2>10 DEF InstanceStep
<1> QED
    BY <1>1, <1>2 DEF Next

\* A stuttering step changes neither.
LEMMA TypeStutters == TypeOK /\ LoopInv /\ UNCHANGED vars => TypeOK' /\ LoopInv'
BY DEF TypeOK, TableTypeOK, SlotTypeOK, LoopTypeOK, FlagTypeOK, LoopInv, vars, table, state

\* TypeOK holds in every reachable state: no index leaves the arrays, and no
\* collection dequeues more often than it may.
THEOREM TypeCorrect == Spec => []TypeOK
<1>1. TypeOK /\ LoopInv /\ [Next]_vars => TypeOK' /\ LoopInv'
    BY TableStays, SlotsStay, LoopsStay, TypeStutters DEF TypeOK
<1> QED
    BY <1>1, InitLoops, PTL DEF Spec

-----------------------------------------------------------------------------
(* The inductive invariant                                                 *)

\* The slots that collect_dmabufs has filled and nobody emptied.
Filled(w) ==
    IF at[w] = "collect" THEN 0 .. found[w] - 1
    ELSE IF at[w] \in {"connect", "up"} THEN 0 .. count[w] - 1
    ELSE {}

\* Filled slots name descriptors, of different buffers.
FillInv ==
    \A w \in Instances : \A k \in Filled(w) :
        /\ slot[w][k] >= 0
        /\ \A l \in Filled(w) : anb[w][k] = anb[w][l] => k = l

\* A number on record is the instance's own, once; 0 need not be.
OwnInv ==
    \A w \in Instances : \A k \in OnRecord(w) : slot[w][k] > 0 =>
        /\ Holds(w, k)
        /\ \A l \in OnRecord(w) : slot[w][l] = slot[w][k] => l = k

\* Off the record there is nothing to close but zeros.
RestInv ==
    \A w \in Instances : \A k \in Slots \ OnRecord(w) : slot[w][k] <= 0

\* As long as no collection fell short, 0 is on nobody's record.
ZeroInv ==
    ~short => /\ owner[0] = Process
              /\ \A w \in Instances : \A k \in OnRecord(w) : slot[w][k] > 0

DescInv == OwnInv /\ RestInv /\ ZeroInv /\ NoDupLost

IInv == TypeOK /\ LoopInv /\ FillInv /\ DescInv

\* Records are slots.
LEMMA RecordsAreSlots ==
    ASSUME TypeOK, LoopInv, NEW w \in Instances
    PROVE  OnRecord(w) \subseteq Slots /\ Filled(w) \subseteq OnRecord(w)
BY CollectBounds DEF TypeOK, LoopTypeOK, LoopInv, OnRecord, Filled, Slots, Steps

\* Steps that touch neither table nor slots: what comes on record is no
\* descriptor, unless a collection fell short.
LEMMA RecordMoves ==
    ASSUME SlotTypeOK, DescInv, owner' = owner, image' = image, slot' = slot, anb' = anb,
           short => short',
           \A u \in Instances : OnRecord(u) \subseteq OnRecord(u)',
           \A u \in Instances : OnRecord(u)' = OnRecord(u) \/ short',
           \A u \in Instances : OnRecord(u)' \subseteq Slots
    PROVE  DescInv'
<1> USE DEF DescInv
<1>1. \A w \in Instances : \A k \in OnRecord(w)' : slot[w][k] > 0 => k \in OnRecord(w)
    BY DEF RestInv, SlotTypeOK, Fds
<1>2. OwnInv'
    BY <1>1 DEF OwnInv, Holds
<1>3. RestInv'
    BY DEF RestInv
<1>4. ZeroInv'
    BY DEF ZeroInv
<1>5. NoDupLost'
    BY DEF NoDupLost
<1> QED
    BY <1>2, <1>3, <1>4, <1>5

\* A slot on record is emptied.
LEMMA EmptyKeeps ==
    ASSUME TypeOK, DescInv, NEW w \in Instances, NEW k \in OnRecord(w), Empty(w, k),
           \A u \in Instances : OnRecord(u) \subseteq Slots, UNCHANGED <<anb, short>>,
           OnRecord(w)' = OnRecord(w) \ {k},
           \A u \in Instances \ {w} : OnRecord(u)' = OnRecord(u)
    PROVE  /\ DescInv'
           /\ \A n \in Fds : owner[n] # NoOne /\ owner'[n] = NoOne =>
                 owner[n] = w \/ (n = 0 /\ short)
<1> USE OwnersDiffer DEF DescInv, TypeOK, TableTypeOK, SlotTypeOK
<1> DEFINE n == slot[w][k]
<1>1. /\ slot'[w][k] = -1
      /\ \A u \in Instances, l \in Slots : u # w \/ l # k => slot'[u][l] = slot[u][l]
    BY DEF Empty
<1>2. k \in Slots /\ n \in Fds \cup {-1}
    OBVIOUS
<1>3. \A m \in Fds : /\ m # n => owner'[m] = owner[m] /\ image'[m] = image[m]
                     /\ owner'[m] = owner[m] \/ (m = n /\ owner'[m] = NoOne)
    BY <1>2 DEF Empty, CloseFd, table, Fds
<1>4. n > 0 => owner[n] = w
    BY DEF OwnInv, Holds
<1>5. ~short => n > 0
    BY DEF ZeroInv
<1>6. \A u \in Instances : \A l \in OnRecord(u) : u # w => slot[u][l] # n \/ n <= 0
    BY <1>2, <1>4 DEF OwnInv, Holds, Fds
<1>7. \A l \in OnRecord(w) : l # k /\ n > 0 => slot[w][l] # n
    BY DEF OwnInv
<1>13. \A m \in Fds : m = n => owner'[m] = NoOne
  <2> SUFFICES ASSUME n \in Fds PROVE owner'[n] = NoOne
    OBVIOUS
  <2>1. CloseFd(n)
    BY DEF Empty, Fds
  <2> QED
    BY <2>1 DEF CloseFd
<1> HIDE DEF n
<1>8. \A u \in Instances : \A l \in OnRecord(u)' :
        /\ l \in OnRecord(u) /\ l \in Slots /\ (u # w \/ l # k)
        /\ slot'[u][l] = slot[u][l] /\ anb'[u][l] = anb[u][l]
        /\ slot[u][l] > 0 => slot[u][l] # n /\ slot[u][l] \in Fds
  <2> SUFFICES ASSUME NEW u \in Instances, NEW l \in OnRecord(u)'
               PROVE  /\ l \in OnRecord(u) /\ l \in Slots /\ (u # w \/ l # k)
                      /\ slot'[u][l] = slot[u][l] /\ anb'[u][l] = anb[u][l]
                      /\ slot[u][l] > 0 => slot[u][l] # n /\ slot[u][l] \in Fds
    OBVIOUS
  <2>1. l \in OnRecord(u) /\ (u # w \/ l # k)
    OBVIOUS
  <2>2. l \in Slots
    BY <2>1
  <2>3. slot[u][l] > 0 => slot[u][l] # n
    BY <1>2, <1>6, <1>7, <2>1 DEF Fds
  <2>4. slot[u][l] \in Fds \cup {-1}
    BY <2>2
  <2> QED
    BY <1>1, <2>1, <2>2, <2>3, <2>4
<1>9. OwnInv'
  <2> SUFFICES ASSUME NEW u \in Instances, NEW l \in OnRecord(u)', slot'[u][l] > 0
               PROVE  /\ Holds(u, l)'
                      /\ \A m \in OnRecord(u)' : slot'[u][m] = slot'[u][l] => m = l
    BY DEF OwnInv
  <2>1. /\ l \in OnRecord(u) /\ slot'[u][l] = slot[u][l] /\ anb'[u][l] = anb[u][l]
        /\ slot[u][l] # n /\ slot[u][l] \in Fds /\ slot[u][l] > 0
    BY <1>8
  <2>2. Holds(u, l)
    BY <2>1 DEF OwnInv
  <2>3. Holds(u, l)'
    BY <1>3, <2>1, <2>2 DEF Holds
  <2>4. \A m \in OnRecord(u)' : m \in OnRecord(u) /\ slot'[u][m] = slot[u][m]
    BY <1>8
  <2>5. \A m \in OnRecord(u)' : slot'[u][m] = slot'[u][l] => m = l
    BY <2>1, <2>4 DEF OwnInv
  <2> QED
    BY <2>3, <2>5
<1>10. RestInv'
  <2> SUFFICES ASSUME NEW u \in Instances, NEW l \in Slots, l \notin OnRecord(u)'
               PROVE  slot'[u][l] <= 0
    BY DEF RestInv
  <2>1. CASE u = w /\ l = k
    BY <1>1, <2>1
  <2>2. CASE u # w \/ l # k
    <3>1. l \notin OnRecord(u) /\ slot'[u][l] = slot[u][l]
      BY <1>1, <2>2
    <3> QED
      BY <3>1 DEF RestInv
  <2> QED
    BY <2>1, <2>2
<1>11. ZeroInv'
  <2> SUFFICES ASSUME ~short
               PROVE  owner'[0] = Process /\ \A u \in Instances : \A l \in OnRecord(u)' : slot'[u][l] > 0
    BY DEF ZeroInv
  <2>1. owner[0] = Process /\ 0 # n /\ 0 \in Fds
    BY <1>5, CollectBounds DEF ZeroInv, Fds
  <2>2. owner'[0] = Process
    BY <1>3, <2>1
  <2>3. \A u \in Instances : \A l \in OnRecord(u)' : slot'[u][l] > 0
    BY <1>8 DEF ZeroInv
  <2> QED
    BY <2>2, <2>3
<1>12. NoDupLost'
  <2> SUFFICES ASSUME NEW m \in Fds, NEW u \in Instances, owner'[m] = u
               PROVE  \E l \in OnRecord(u)' : slot'[u][l] = m
    BY DEF NoDupLost
  <2>1. owner[m] = u /\ m # n
    BY <1>2, <1>3, <1>13
  <2>2. PICK l \in OnRecord(u) : slot[u][l] = m
    BY <2>1 DEF NoDupLost
  <2>3. u # w \/ l # k
    BY <2>1, <2>2 DEF n
  <2>4. l \in OnRecord(u)' /\ l \in Slots
    BY <2>2, <2>3
  <2> QED
    BY <1>1, <2>2, <2>3, <2>4
<1>14. ASSUME NEW m \in Fds, owner[m] # NoOne, owner'[m] = NoOne
       PROVE  owner[m] = w \/ (m = 0 /\ short)
  <2>1. m = n
    BY <1>3, <1>14
  <2> QED
    BY <1>4, <1>5, <2>1 DEF Fds
<1> QED
    BY <1>9, <1>10, <1>11, <1>12, <1>14

\* A dup is kept in the slot after the last filled one.
LEMMA KeepKeeps ==
    ASSUME TypeOK, DescInv, NEW w \in Instances, NEW k \in Slots \ OnRecord(w),
           NEW n \in Fds, NEW b \in 0 .. MaxCollect, Open(w, b, n),
           slot' = [slot EXCEPT ![w][k] = n], anb' = [anb EXCEPT ![w][k] = b],
           UNCHANGED short,
           OnRecord(w)' = OnRecord(w) \cup {k},
           \A u \in Instances : OnRecord(u) \subseteq Slots,
           \A u \in Instances \ {w} : OnRecord(u)' = OnRecord(u)
    PROVE  DescInv'
<1> USE OwnersDiffer DEF DescInv, TypeOK, TableTypeOK, SlotTypeOK
<1>1. /\ slot'[w][k] = n /\ anb'[w][k] = b
      /\ \A u \in Instances, l \in Slots :
            u # w \/ l # k => slot'[u][l] = slot[u][l] /\ anb'[u][l] = anb[u][l]
    OBVIOUS
<1>2. /\ owner[n] = NoOne /\ owner'[n] = w /\ image'[n] = b
      /\ \A m \in Fds : m # n => owner'[m] = owner[m] /\ image'[m] = image[m]
    BY DEF Open, Free
<1>3. \A u \in Instances : \A l \in OnRecord(u) :
        /\ l \in OnRecord(u)' /\ l \in Slots /\ (u # w \/ l # k)
        /\ slot'[u][l] = slot[u][l] /\ anb'[u][l] = anb[u][l]
        /\ slot[u][l] > 0 => slot[u][l] # n /\ slot[u][l] \in Fds
  <2> SUFFICES ASSUME NEW u \in Instances, NEW l \in OnRecord(u)
               PROVE  /\ l \in OnRecord(u)' /\ l \in Slots /\ (u # w \/ l # k)
                      /\ slot'[u][l] = slot[u][l] /\ anb'[u][l] = anb[u][l]
                      /\ slot[u][l] > 0 => slot[u][l] # n /\ slot[u][l] \in Fds
    OBVIOUS
  <2>1. l \in OnRecord(u)' /\ l \in Slots /\ (u # w \/ l # k)
    OBVIOUS
  <2>2. slot[u][l] > 0 => owner[slot[u][l]] = u
    BY DEF OwnInv, Holds
  <2>3. slot[u][l] > 0 => slot[u][l] # n
    BY <1>2, <2>2
  <2>4. slot[u][l] \in Fds \cup {-1}
    BY <2>1
  <2> QED
    BY <1>1, <2>1, <2>3, <2>4
<1>4. \A u \in Instances : \A l \in OnRecord(u)' : l \in OnRecord(u) \/ (u = w /\ l = k)
    OBVIOUS
<1>5. OwnInv'
  <2> SUFFICES ASSUME NEW u \in Instances, NEW l \in OnRecord(u)', slot'[u][l] > 0
               PROVE  /\ Holds(u, l)'
                      /\ \A m \in OnRecord(u)' : slot'[u][m] = slot'[u][l] => m = l
    BY DEF OwnInv
  <2>1. CASE u = w /\ l = k
    <3>1. Holds(u, l)'
      BY <1>1, <1>2, <2>1 DEF Holds
    <3>2. ASSUME NEW m \in OnRecord(u)', slot'[u][m] = slot'[u][l], m # l PROVE FALSE
      <4>1. m \in OnRecord(u)
        BY <1>4, <2>1, <3>2
      <4>2. slot[u][m] = n /\ slot[u][m] > 0
        BY <1>1, <1>3, <2>1, <3>2, <4>1
      <4> QED
        BY <1>3, <4>1, <4>2
    <3> QED
      BY <3>1, <3>2
  <2>2. CASE ~(u = w /\ l = k)
    <3>1. /\ l \in OnRecord(u) /\ slot'[u][l] = slot[u][l] /\ anb'[u][l] = anb[u][l]
          /\ slot[u][l] # n /\ slot[u][l] \in Fds /\ slot[u][l] > 0
      BY <1>3, <1>4, <2>2
    <3>2. Holds(u, l)
      BY <3>1 DEF OwnInv
    <3>3. Holds(u, l)'
      BY <1>2, <3>1, <3>2 DEF Holds
    <3>4. ASSUME NEW m \in OnRecord(u)', slot'[u][m] = slot'[u][l], m # l PROVE FALSE
      <4>1. m \in OnRecord(u)
        BY <1>1, <1>4, <3>1, <3>4
      <4>2. slot[u][m] = slot[u][l]
        BY <1>3, <3>1, <3>4, <4>1
      <4> QED
        BY <3>1, <3>4, <4>1, <4>2 DEF OwnInv
    <3> QED
      BY <3>3, <3>4
  <2> QED
    BY <2>1, <2>2
<1>6. RestInv'
  <2> SUFFICES ASSUME NEW u \in Instances, NEW l \in Slots, l \notin OnRecord(u)'
               PROVE  slot'[u][l] <= 0
    BY DEF RestInv
  <2>1. l \notin OnRecord(u) /\ (u # w \/ l # k)
    OBVIOUS
  <2>2. slot'[u][l] = slot[u][l]
    BY <1>1, <2>1
  <2> QED
    BY <2>1, <2>2 DEF RestInv
<1>7. ZeroInv'
  <2> SUFFICES ASSUME ~short
               PROVE  owner'[0] = Process /\ \A u \in Instances : \A l \in OnRecord(u)' : slot'[u][l] > 0
    BY DEF ZeroInv
  <2>1. owner[0] = Process /\ 0 \in Fds
    BY CollectBounds DEF ZeroInv, Fds
  <2>2. n # 0 /\ n > 0
    BY <1>2, <2>1 DEF Fds
  <2>3. \A u \in Instances : \A l \in OnRecord(u)' : slot'[u][l] > 0
    BY <1>1, <1>3, <1>4, <2>2 DEF ZeroInv
  <2> QED
    BY <1>2, <2>1, <2>2, <2>3
<1>8. NoDupLost'
  <2> SUFFICES ASSUME NEW m \in Fds, NEW u \in Instances, owner'[m] = u
               PROVE  \E l \in OnRecord(u)' : slot'[u][l] = m
    BY DEF NoDupLost
  <2>1. CASE m = n
    BY <1>1, <1>2, <2>1
  <2>2. CASE m # n
    <3>1. PICK l \in OnRecord(u) : slot[u][l] = m
      BY <1>2, <2>2 DEF NoDupLost
    <3> QED
      BY <1>3, <3>1
  <2> QED
    BY <2>1, <2>2
<1> QED
    BY <1>5, <1>6, <1>7, <1>8

\* What the app opens and closes is nobody's dup.
LEMMA AppKeeps ==
    ASSUME TypeOK, LoopInv, DescInv, AppStep
    PROVE  DescInv'
<1> USE OwnersDiffer DEF DescInv, TypeOK, TableTypeOK, SlotTypeOK
<1>1. UNCHANGED <<state, short>>
    BY DEF AppStep
<1>2. PICK n \in Fds : Open(App, 0, n) \/ (owner[n] = App /\ CloseFd(n))
    BY DEF AppStep
<1>3. /\ owner[n] \in {NoOne, App} /\ owner'[n] \in {NoOne, App}
      /\ \A m \in Fds : m # n => owner'[m] = owner[m] /\ image'[m] = image[m]
    BY <1>2 DEF Open, Free, CloseFd
<1>4. \A u \in Instances : OnRecord(u)' = OnRecord(u) /\ OnRecord(u) \subseteq Slots
    BY <1>1, RecordsAreSlots DEF OnRecord, state
<1>5. OwnInv'
  <2> SUFFICES ASSUME NEW u \in Instances, NEW l \in OnRecord(u), slot[u][l] > 0
               PROVE  Holds(u, l)'
    BY <1>1, <1>4 DEF OwnInv, state
  <2>1. Holds(u, l) /\ slot[u][l] \in Fds
    BY <1>4 DEF OwnInv
  <2>2. slot[u][l] # n
    BY <1>3, <2>1 DEF Holds
  <2> QED
    BY <1>1, <1>3, <2>1, <2>2 DEF Holds, state
<1>6. RestInv'
    BY <1>1, <1>4 DEF RestInv, state
<1>7. ZeroInv'
    BY <1>1, <1>3, <1>4, CollectBounds DEF ZeroInv, state, Fds
<1>8. NoDupLost'
    BY <1>1, <1>3, <1>4 DEF NoDupLost, state
<1> QED
    BY <1>5, <1>6, <1>7, <1>8

-----------------------------------------------------------------------------
(* The steps                                                               *)

\* Filled slots that stay as they are stay filled.
LEMMA FillShrinks ==
    ASSUME FillInv,
           \A w \in Instances : \A k \in Filled(w)' :
              k \in Filled(w) /\ slot'[w][k] = slot[w][k] /\ anb'[w][k] = anb[w][k]
    PROVE  FillInv'
BY DEF FillInv

\* The other instances are where they were.
LEMMA OthersStay ==
    ASSUME TypeOK, NEW w \in Instances, InstanceStep(w), NEW u \in Instances \ {w}
    PROVE  /\ at'[u] = at[u] /\ i'[u] = i[u] /\ found'[u] = found[u] /\ count'[u] = count[u]
           /\ slot'[u] = slot[u] /\ anb'[u] = anb[u]
           /\ OnRecord(u)' = OnRecord(u) /\ Filled(u)' = Filled(u)
<1> USE DEF TypeOK, LoopTypeOK, SlotTypeOK
<1>1. /\ at'[u] = at[u] /\ i'[u] = i[u] /\ found'[u] = found[u] /\ count'[u] = count[u]
      /\ slot'[u] = slot[u] /\ anb'[u] = anb[u]
  <2>1. CASE Leave(w) \/ EmptyDone(w) \/ Resize(w)
    BY <2>1 DEF Leave, EmptyDone, Resize, Goto, LoopOver, SetIndex
  <2>2. CASE Skip(w) \/ Break(w) \/ Connect(w)
    BY <2>2 DEF Skip, Break, Connect, FallShort, Goto
  <2>3. CASE Keep(w)
    BY <2>3 DEF Keep, KeepIn
  <2>4. CASE Collected(w)
    BY <2>4 DEF Collected, FallShort, Goto, LoopOver, SetIndex
  <2>5. CASE EmptySlot(w)
    BY <2>5 DEF EmptySlot, Empty, SetIndex
  <2>6. CASE Undo(w)
    BY <2>6 DEF Undo, Empty, SetIndex, LoopOver, Goto
  <2> QED
    BY <2>1, <2>2, <2>3, <2>4, <2>5, <2>6 DEF InstanceStep
<1> QED
    BY <1>1 DEF OnRecord, Filled

\* The records after a step are slots.
LEMMA RecordsStaySlots ==
    ASSUME TypeOK, LoopInv, Next
    PROVE  \A w \in Instances : OnRecord(w) \subseteq Slots /\ OnRecord(w)' \subseteq Slots
<1>1. TypeOK' /\ LoopInv'
    BY TableStays, SlotsStay, LoopsStay DEF TypeOK
<1> QED
    BY <1>1, RecordsAreSlots, CollectBounds
       DEF TypeOK, LoopTypeOK, LoopInv, OnRecord, Slots, Steps

\* Emptying takes one slot off the record.
LEMMA EmptyStep ==
    ASSUME IInv, NEW w \in Instances, EmptySlot(w) \/ (Undo(w) /\ i[w] < found[w])
    PROVE  /\ DescInv' /\ FillInv'
           /\ \A n \in Fds : owner[n] # NoOne /\ owner'[n] = NoOne =>
                 owner[n] = w \/ (n = 0 /\ short)
<1> USE DEF IInv
<1>0. Next
    BY DEF Next, InstanceStep
<1>1. /\ at[w] \in {"empty", "undo"} /\ i[w] \in Nat /\ count[w] \in Nat /\ i[w] < count[w]
    BY CollectBounds DEF EmptySlot, Undo, LoopInv, TypeOK, LoopTypeOK
<1>2. /\ Empty(w, i[w]) /\ i' = [i EXCEPT ![w] = i[w] + 1]
      /\ UNCHANGED <<at, count, anb, short>>
    BY DEF EmptySlot, Undo, SetIndex
<1>3. i'[w] = i[w] + 1
    BY <1>2 DEF TypeOK, LoopTypeOK
<1>4. i[w] \in OnRecord(w) /\ OnRecord(w)' = OnRecord(w) \ {i[w]}
    BY <1>1, <1>2, <1>3 DEF OnRecord
<1>5. \A u \in Instances \ {w} : OnRecord(u)' = OnRecord(u) /\ Filled(u)' = Filled(u)
                                /\ slot'[u] = slot[u]
    BY OthersStay DEF InstanceStep
<1>6. \A u \in Instances : OnRecord(u) \subseteq Slots
    BY <1>0, RecordsStaySlots
<1>7. /\ DescInv'
      /\ \A n \in Fds : owner[n] # NoOne /\ owner'[n] = NoOne =>
            owner[n] = w \/ (n = 0 /\ short)
    BY <1>2, <1>4, <1>5, <1>6, EmptyKeeps
<1>8. Filled(w)' = {}
    BY <1>1, <1>2 DEF Filled
<1>9. FillInv'
    BY <1>2, <1>5, <1>8, FillShrinks
<1> QED
    BY <1>7, <1>9

\* Keeping puts one more on it.
LEMMA KeepStep ==
    ASSUME IInv, NEW w \in Instances, Keep(w)
    PROVE  DescInv' /\ FillInv'
<1> USE DEF IInv
<1>0. Next
    BY DEF Next, InstanceStep
<1>1. PICK n \in Fds, b \in (1 .. count[w]) \ Found(w) :
         /\ Open(w, b, n)
         /\ slot' = [slot EXCEPT ![w][found[w]] = n]
         /\ anb' = [anb EXCEPT ![w][found[w]] = b]
    BY DEF Keep, KeepIn
<1>2. /\ at[w] = "collect" /\ found[w] < count[w] /\ found[w] \in Nat /\ count[w] \in Nat
      /\ count[w] <= MaxCollect /\ UNCHANGED <<at, count, short>>
    BY CollectBounds DEF Keep, KeepIn, MayTry, TypeOK, LoopTypeOK
<1>3. found'[w] = found[w] + 1
    BY DEF Keep, KeepIn, TypeOK, LoopTypeOK
<1>4. /\ found[w] \in Slots \ OnRecord(w)
      /\ OnRecord(w)' = OnRecord(w) \cup {found[w]}
      /\ Filled(w) = 0 .. found[w] - 1 /\ Filled(w)' = Filled(w) \cup {found[w]}
    BY <1>2, <1>3, CollectBounds DEF OnRecord, Filled, Slots
<1>5. \A u \in Instances \ {w} : OnRecord(u)' = OnRecord(u) /\ Filled(u)' = Filled(u)
                                /\ slot'[u] = slot[u] /\ anb'[u] = anb[u]
    BY OthersStay DEF InstanceStep
<1>6. \A u \in Instances : OnRecord(u) \subseteq Slots
    BY <1>0, RecordsStaySlots
<1>7. b \in 0 .. MaxCollect
    BY <1>1, <1>2, CollectBounds
<1>8. DescInv'
    BY <1>1, <1>2, <1>4, <1>5, <1>6, <1>7, KeepKeeps
<1>9. /\ slot'[w][found[w]] = n /\ anb'[w][found[w]] = b
      /\ \A l \in Filled(w) : slot'[w][l] = slot[w][l] /\ anb'[w][l] = anb[w][l]
    BY <1>1, <1>2, <1>4 DEF TypeOK, SlotTypeOK
<1>10. \A l \in Filled(w) : anb[w][l] # b /\ l # found[w]
    BY <1>1, <1>2, <1>4 DEF Found
<1>11. FillInv'
  <2> SUFFICES ASSUME NEW u \in Instances, NEW k \in Filled(u)'
               PROVE  /\ slot'[u][k] >= 0
                      /\ \A l \in Filled(u)' : anb'[u][k] = anb'[u][l] => k = l
    BY DEF FillInv
  <2>1. CASE u # w
    BY <1>5, <2>1 DEF FillInv
  <2>2. CASE u = w
    <3>1. slot'[u][k] >= 0
      <4>1. n >= 0
        BY CollectBounds DEF Fds
      <4>2. \A l \in Filled(w) : slot[w][l] >= 0
        BY DEF FillInv
      <4> QED
        BY <1>4, <1>9, <2>2, <4>1, <4>2
    <3>2. ASSUME NEW l \in Filled(u)', anb'[u][k] = anb'[u][l] PROVE k = l
      BY <1>4, <1>9, <1>10, <2>2, <3>2 DEF FillInv
    <3> QED
      BY <3>1, <3>2
  <2> QED
    BY <2>1, <2>2
<1> QED
    BY <1>8, <1>11

\* The other steps leave table and slots alone.
LEMMA QuietStep ==
    ASSUME IInv, NEW w \in Instances, InstanceStep(w),
           ~EmptySlot(w), ~(Undo(w) /\ i[w] < found[w]), ~Keep(w)
    PROVE  DescInv' /\ FillInv' /\ UNCHANGED <<table, slot>>
<1> USE DEF IInv
<1>0. Next
    BY DEF Next
<1>1. UNCHANGED <<table, slot, anb>>
    BY DEF InstanceStep, Leave, EmptyDone, Resize, Skip, Break, Collected, Undo, Connect
<1>2. \A u \in Instances \ {w} : OnRecord(u)' = OnRecord(u) /\ Filled(u)' = Filled(u)
    BY OthersStay
<1>3. /\ at[w] \in Steps /\ found[w] \in Nat /\ count[w] \in Nat /\ i[w] \in Nat
      /\ DOMAIN at = Instances /\ DOMAIN i = Instances /\ DOMAIN count = Instances
      /\ DOMAIN found = Instances
    BY CollectBounds DEF TypeOK, LoopTypeOK
<1>4. /\ OnRecord(w) \subseteq OnRecord(w)' /\ (OnRecord(w)' = OnRecord(w) \/ short')
      /\ Filled(w)' \subseteq Filled(w) /\ (short => short')
  <2>1. CASE Leave(w)
    BY <1>3, <2>1 DEF OnRecord, Filled, LoopInv, Leave, Goto
  <2>2. CASE EmptyDone(w)
    BY <1>3, <2>2 DEF OnRecord, Filled, LoopInv, EmptyDone, Goto, LoopOver, SetIndex
  <2>3. CASE Resize(w)
    BY <1>3, <2>3 DEF OnRecord, Filled, LoopInv, Resize, Goto
  <2>4. CASE Skip(w)
    BY <1>3, <2>4 DEF OnRecord, Filled, LoopInv, Skip
  <2>5. CASE Break(w)
    BY <1>3, <2>5 DEF OnRecord, Filled, LoopInv, Break, MayTry, FallShort, Goto
  <2>6. CASE Collected(w)
    <3>1. CASE found[w] = count[w]
      BY <1>3, <2>6, <3>1 DEF OnRecord, Filled, LoopInv, Collected, LoopOver, SetIndex, Goto
    <3>2. CASE found[w] # count[w]
      BY <1>3, <2>6, <3>2 DEF OnRecord, Filled, LoopInv, Collected, FallShort, Goto
    <3> QED
      BY <3>1, <3>2
  <2>7. CASE Undo(w)
    BY <1>3, <2>7 DEF OnRecord, Filled, LoopInv, Undo, LoopOver, SetIndex, Goto
  <2>8. CASE Connect(w)
    BY <1>3, <2>8 DEF OnRecord, Filled, LoopInv, Connect, Goto
  <2> QED
    BY <2>1, <2>2, <2>3, <2>4, <2>5, <2>6, <2>7, <2>8 DEF InstanceStep
<1>5. /\ \A u \in Instances : OnRecord(u) \subseteq OnRecord(u)'
      /\ \A u \in Instances : OnRecord(u)' = OnRecord(u) \/ short'
      /\ \A u \in Instances : OnRecord(u)' \subseteq Slots
    BY <1>0, <1>2, <1>4, RecordsStaySlots
<1>6. DescInv'
  <2>1. SlotTypeOK /\ DescInv /\ (short => short')
    BY <1>4 DEF TypeOK
  <2>2. owner' = owner /\ image' = image /\ slot' = slot /\ anb' = anb
    BY <1>1 DEF table
  <2> QED
    BY <1>5, <2>1, <2>2, RecordMoves
<1>7. FillInv'
    BY <1>1, <1>2, <1>4, FillShrinks
<1> QED
    BY <1>1, <1>6, <1>7

\* Every step keeps the invariant, and closes only what it may.
LEMMA StepInv ==
    ASSUME IInv, [Next]_vars
    PROVE  /\ IInv'
           /\ \A w \in Instances : slot'[w] # slot[w] =>
                 \A n \in Fds : owner[n] # NoOne /\ owner'[n] = NoOne =>
                    owner[n] = w \/ (n = 0 /\ short)
<1> DEFINE Closes == \A w \in Instances : slot'[w] # slot[w] =>
                       \A n \in Fds : owner[n] # NoOne /\ owner'[n] = NoOne =>
                          owner[n] = w \/ (n = 0 /\ short)
<1> USE DEF IInv
<1>1. TypeOK' /\ LoopInv'
    BY TableStays, SlotsStay, LoopsStay, TypeStutters DEF TypeOK
<1>2. CASE UNCHANGED vars
  <2>1. DescInv'
    BY <1>2 DEF vars, table, state, DescInv, OwnInv, Holds, RestInv, ZeroInv, NoDupLost, OnRecord
  <2>2. FillInv'
    BY <1>2 DEF vars, state, FillInv, Filled
  <2> QED
    BY <1>1, <1>2, <2>1, <2>2 DEF vars, state
<1>3. CASE AppStep
  <2>1. FillInv' /\ UNCHANGED slot
    BY <1>3 DEF AppStep, state, FillInv, Filled
  <2> QED
    BY <1>1, <1>3, <2>1, AppKeeps
<1>4. ASSUME NEW w \in Instances, InstanceStep(w) PROVE IInv' /\ Closes
  <2>1. \A u \in Instances \ {w} : slot'[u] = slot[u]
    BY <1>4, OthersStay
  <2>2. CASE EmptySlot(w) \/ (Undo(w) /\ i[w] < found[w])
    BY <1>1, <2>1, <2>2, EmptyStep
  <2>3. CASE Keep(w)
    <3>1. PICK n \in Fds, b \in (1 .. count[w]) \ Found(w) : Open(w, b, n)
      BY <2>3 DEF Keep, KeepIn
    <3>2. \A m \in Fds : owner'[m] = owner[m] \/ owner[m] = NoOne
      BY <3>1 DEF Open, Free, TypeOK, TableTypeOK
    <3> QED
      BY <1>1, <2>3, <3>2, KeepStep
  <2>4. CASE ~EmptySlot(w) /\ ~(Undo(w) /\ i[w] < found[w]) /\ ~Keep(w)
    BY <1>1, <1>4, <2>4, QuietStep
  <2> QED
    BY <2>2, <2>3, <2>4
<1> QED
    BY <1>2, <1>3, <1>4 DEF Next

\* Nothing is on record at first.
LEMMA InitInv == Init => IInv
<1> SUFFICES ASSUME Init PROVE IInv
    OBVIOUS
<1>1. TypeOK /\ LoopInv
    BY InitLoops
<1>2. \A w \in Instances : OnRecord(w) = {} /\ Filled(w) = {} /\ \A k \in Slots : slot[w][k] = 0
  <2> SUFFICES ASSUME NEW w \in Instances
               PROVE  OnRecord(w) = {} /\ Filled(w) = {} /\ \A k \in Slots : slot[w][k] = 0
    OBVIOUS
  <2>1. at[w] = "idle" /\ \A k \in Slots : slot[w][k] = 0
    BY DEF Init
  <2>2. count[w] = 0
    BY <1>1, <2>1 DEF LoopInv
  <2> QED
    BY <2>1, <2>2 DEF OnRecord, Filled
<1>3. owner[0] = Process /\ \A n \in Fds : owner[n] \notin Instances
    BY OwnersDiffer, CollectBounds DEF Init, Fds
<1> QED
    BY <1>1, <1>2, <1>3 DEF IInv, FillInv, DescInv, OwnInv, RestInv, ZeroInv, NoDupLost

\* The invariant holds in every reachable state.
LEMMA Reached == Spec => []IInv
BY InitInv, StepInv, PTL DEF Spec

\* No dup is lost, whatever an attempt runs into.
THEOREM DupsStayOnRecord == Spec => []NoDupLost
<1>1. IInv => NoDupLost
    BY DEF IInv, DescInv
<1> QED
    BY <1>1, Reached, PTL

\* What a context may send are the dups of its buffers.
THEOREM ContextSound == Spec => []ContextHoldsBuffers
<1>1. IInv => ContextHoldsBuffers
  <2> SUFFICES ASSUME IInv, NEW w \in Instances, ctx[w], NEW k \in 0 .. count[w] - 1
               PROVE  /\ \/ slot[w][k] >= 0 /\ Holds(w, k)
                         \/ slot[w][k] = 0 /\ short
                      /\ \A l \in 0 .. count[w] - 1 : anb[w][k] = anb[w][l] => k = l
    BY DEF ContextHoldsBuffers
  <2>1. at[w] = "up"
    BY DEF IInv, LoopInv, TypeOK, FlagTypeOK
  <2>2. Filled(w) = 0 .. count[w] - 1 /\ OnRecord(w) = 0 .. count[w] - 1
    BY <2>1 DEF Filled, OnRecord
  <2>3. slot[w][k] \in Fds \cup {-1}
    BY <2>2, RecordsAreSlots DEF IInv, TypeOK, SlotTypeOK
  <2>4. slot[w][k] >= 0 /\ \A l \in 0 .. count[w] - 1 : anb[w][k] = anb[w][l] => k = l
    BY <2>2 DEF IInv, FillInv
  <2>5. CASE slot[w][k] > 0
    BY <2>2, <2>4, <2>5 DEF IInv, DescInv, OwnInv
  <2>6. CASE slot[w][k] = 0
    <3>1. k \in OnRecord(w) /\ ZeroInv
      BY <2>2 DEF IInv, DescInv
    <3>2. short
      BY <2>6, <3>1 DEF ZeroInv
    <3> QED
      BY <2>4, <2>6, <3>2
  <2> QED
    <3>1. slot[w][k] > 0 \/ slot[w][k] = 0
      BY <2>3, <2>4, CollectBounds DEF Fds
    <3> QED
      BY <2>4, <2>5, <2>6, <3>1
<1> QED
    BY <1>1, Reached, PTL

\* Nobody closes another's descriptor, 0 after a short collection excepted.
THEOREM ClosingIsExact == Spec => ClosesItsOwn
<1>1. IInv /\ [Next]_vars =>
        [\A w \in Instances : slot'[w] # slot[w] =>
           \A n \in Fds : owner[n] # NoOne /\ owner'[n] = NoOne =>
              owner[n] = w \/ (n = 0 /\ short)]_vars
    BY StepInv
<1> QED
    BY <1>1, Reached, PTL DEF Spec, ClosesItsOwn
=============================================================================
