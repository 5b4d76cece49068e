--------------------------- MODULE DmabufCollection ---------------------------
(***************************************************************************)
(* How an instance's window buffers become dma-buf descriptors.  do_connect *)
(* empties the slots of the attempt before (cleanup_dmabufs), sizes the     *)
(* window, dequeues and queues buffers until it has seen each one, keeps a  *)
(* dup of each one's descriptor (collect_dmabufs), and only then connects.  *)
(* The instances of a process share its descriptor table with each other    *)
(* and with the rest of the app; every dup and close is a step.             *)
(*                                                                         *)
(* calloc leaves 0, a descriptor, in the slots, and buf_count is set before *)
(* the slots are filled: after a collection that fell short cleanup_dmabufs *)
(* closes 0 for every slot below buf_count that was never filled.           *)
(***************************************************************************)
EXTENDS Integers

CONSTANTS
    Instances,         \* the consumer_states of the process
    MaxCollect,        \* MAX_COLLECT_BUFS, 8 in the code
    Tries,             \* attempts per buffer, 4 in the code
    MaxFd,             \* bound: the last number of the descriptor table
    MaxFaults,         \* bound: calls that fail
    NoOne, Process, App  \* who a number belongs to: nobody, the process since
                         \* its birth, or the rest of the app

ASSUME CollectBounds ==
    /\ MaxCollect \in Nat /\ MaxCollect >= 2
    /\ Tries \in Nat \ {0} /\ MaxFd \in Nat /\ MaxFaults \in Nat
ASSUME OwnersDiffer ==
    /\ NoOne # Process /\ NoOne # App /\ Process # App
    /\ {NoOne, Process, App} \cap Instances = {}

VARIABLES
    owner, image,      \* per number: whose it is, the buffer it is a dup of
    at,                \* per instance: the step its thread is at
    i,                 \* the index of the loops that close
    found, attempt,    \* the counters of collect_dmabufs
    count,             \* buf_count
    slot, anb,         \* dmabuf_fds and buf_anb
    ctx,               \* a context may send what is in the slots
    short,             \* history: a collection fell short
    faults

table == <<owner, image>>
state == <<at, i, found, attempt, count, slot, anb, ctx>>
vars == <<table, state, short, faults>>

Fds == 0 .. MaxFd
Slots == 0 .. MaxCollect - 1
Buffers == 1 .. MaxCollect      \* the window's buffers; 0 is none
Steps == {"idle", "empty", "collect", "undo", "connect", "wait", "up"}

Init ==
    /\ owner = [n \in Fds |-> IF n = 0 THEN Process ELSE NoOne]
    /\ image = [n \in Fds |-> 0]
    /\ at = [w \in Instances |-> "idle"]
    /\ i = [w \in Instances |-> 0] /\ found = i /\ attempt = i /\ count = i
    /\ slot = [w \in Instances |-> [k \in Slots |-> 0]]
    /\ anb = [w \in Instances |-> [k \in Slots |-> 0]]
    /\ ctx = [w \in Instances |-> FALSE]
    /\ short = FALSE /\ faults = 0

-----------------------------------------------------------------------------
(* The descriptor table                                                    *)

Free == {n \in Fds : owner[n] = NoOne}

\* open and dup take the lowest free number.
Open(who, b, n) ==
    /\ n \in Free /\ \A m \in Free : n <= m
    /\ owner' = [owner EXCEPT ![n] = who]
    /\ image' = [image EXCEPT ![n] = b]

\* close on a number; one that is not open fails and nobody looks.
CloseFd(n) ==
    /\ owner' = [owner EXCEPT ![n] = NoOne]
    /\ image' = [image EXCEPT ![n] = 0]

Fault == faults < MaxFaults /\ faults' = faults + 1

Goto(w, l) == at' = [at EXCEPT ![w] = l]
SetIndex(w, k) == i' = [i EXCEPT ![w] = k]

\* A function returns: its local variables are gone.
LoopOver(w) ==
    /\ SetIndex(w, 0)
    /\ found' = [found EXCEPT ![w] = 0]
    /\ attempt' = [attempt EXCEPT ![w] = 0]

\* One slot is emptied: its descriptor is closed, unless it holds -1.
Empty(w, k) ==
    /\ IF slot[w][k] >= 0 THEN CloseFd(slot[w][k]) ELSE UNCHANGED table
    /\ slot' = [slot EXCEPT ![w][k] = -1]

-----------------------------------------------------------------------------
(* nativeStart, nativeStop and do_connect                                  *)

\* The render thread has been joined (it stops between its attempts and its
\* frames only), or tries again; the context is disconnected and the slots
\* are emptied.
Leave(w) ==
    /\ at[w] \in {"wait", "up"}
    /\ ctx' = [ctx EXCEPT ![w] = FALSE]
    /\ Goto(w, "empty")
    /\ UNCHANGED <<table, i, found, attempt, count, slot, anb, short, faults>>

\* cleanup_dmabufs, one slot at a time, and its end.
EmptySlot(w) ==
    /\ at[w] = "empty" /\ i[w] < count[w]
    /\ Empty(w, i[w])
    /\ SetIndex(w, i[w] + 1)
    /\ UNCHANGED <<at, found, attempt, count, anb, ctx, short, faults>>

EmptyDone(w) ==
    /\ at[w] = "empty" /\ i[w] = count[w]
    /\ count' = [count EXCEPT ![w] = 0]
    /\ Goto(w, "idle") /\ LoopOver(w)
    /\ UNCHANGED <<table, slot, anb, ctx, short, faults>>

\* Mutant: the number of buffers is not capped.
ResizeUncapped(w) ==
    /\ at[w] = "idle"
    /\ \E total \in 2 .. MaxCollect + 1 : count' = [count EXCEPT ![w] = total]
    /\ Goto(w, "collect")
    /\ UNCHANGED <<table, i, found, attempt, slot, anb, ctx, short, faults>>

\* The window is connected and asked for min_undequeued + 2 buffers, of which
\* at most MAX_COLLECT_BUFS are used; or it cannot be connected.
Resize(w) ==
    /\ at[w] = "idle"
    /\ \/ /\ \E total \in 2 .. MaxCollect : count' = [count EXCEPT ![w] = total]
          /\ Goto(w, "collect")
          /\ UNCHANGED faults
       \/ /\ Fault
          /\ Goto(w, "wait")
          /\ UNCHANGED count
    /\ UNCHANGED <<table, i, found, attempt, slot, anb, ctx, short>>

-----------------------------------------------------------------------------
(* collect_dmabufs                                                         *)

Found(w) == {anb[w][k] : k \in 0 .. found[w] - 1}
MayTry(w) == at[w] = "collect" /\ attempt[w] < count[w] * Tries /\ found[w] < count[w]
Tried(w) == attempt' = [attempt EXCEPT ![w] = @ + 1]

\* The buffer is a known one, or has no descriptor, or dup fails.
Skip(w) ==
    /\ MayTry(w)
    /\ Tried(w)
    /\ \/ (Found(w) # {} \/ Free = {}) /\ UNCHANGED faults
       \/ Fault
    /\ UNCHANGED <<table, at, i, found, count, slot, anb, ctx, short>>

KeepIn(w, buffers) ==
    /\ MayTry(w)
    /\ Tried(w)
    /\ \E n \in Fds, b \in buffers :
          /\ Open(w, b, n)
          /\ slot' = [slot EXCEPT ![w][found[w]] = n]
          /\ anb' = [anb EXCEPT ![w][found[w]] = b]
    /\ found' = [found EXCEPT ![w] = @ + 1]
    /\ UNCHANGED <<at, i, count, ctx, short, faults>>

\* Mutant: a known buffer is taken for a new one.
KeepAny(w) == KeepIn(w, 1 .. count[w])

\* A new buffer's descriptor is duplicated into the next slot.
Keep(w) == KeepIn(w, (1 .. count[w]) \ Found(w))

\* What was found is not enough.
FallShort(w) == Goto(w, "undo") /\ short' = TRUE /\ UNCHANGED <<i, found, attempt>>

\* The dequeue fails: the loop breaks off.
Break(w) ==
    /\ MayTry(w)
    /\ Fault
    /\ FallShort(w)
    /\ UNCHANGED <<table, count, slot, anb, ctx>>

\* Mutant: a collection that fell short forgets what it found.
CollectedForgets(w) ==
    /\ at[w] = "collect" /\ ~MayTry(w)
    /\ IF found[w] = count[w]
       THEN Goto(w, "connect") /\ UNCHANGED <<count, short>>
       ELSE Goto(w, "wait") /\ short' = TRUE /\ count' = [count EXCEPT ![w] = 0]
    /\ LoopOver(w)
    /\ UNCHANGED <<table, slot, anb, ctx, faults>>

\* The loop ends.
Collected(w) ==
    /\ at[w] = "collect" /\ ~MayTry(w)
    /\ IF found[w] = count[w]
       THEN Goto(w, "connect") /\ LoopOver(w) /\ UNCHANGED short
       ELSE FallShort(w)
    /\ UNCHANGED <<table, count, slot, anb, ctx, faults>>

\* Mutant: a slot that was closed again still names its descriptor.
UndoStale(w) ==
    /\ at[w] = "undo"
    /\ IF i[w] < found[w]
       THEN /\ CloseFd(slot[w][i[w]]) /\ SetIndex(w, i[w] + 1)
            /\ UNCHANGED <<at, found, attempt>>
       ELSE Goto(w, "wait") /\ LoopOver(w) /\ UNCHANGED table
    /\ UNCHANGED <<count, slot, anb, ctx, short, faults>>

\* What was found is closed again; buf_count keeps the number asked for.
Undo(w) ==
    /\ at[w] = "undo"
    /\ IF i[w] < found[w]
       THEN Empty(w, i[w]) /\ SetIndex(w, i[w] + 1) /\ UNCHANGED <<at, found, attempt>>
       ELSE Goto(w, "wait") /\ LoopOver(w) /\ UNCHANGED <<table, slot>>
    /\ UNCHANGED <<count, anb, ctx, short, faults>>

\* The daemon is reached and the slots handed to the context, or the attempt
\* fails here; buf_count stays.
Connect(w) ==
    /\ at[w] = "connect"
    /\ \/ /\ ctx' = [ctx EXCEPT ![w] = TRUE]
          /\ Goto(w, "up")
          /\ UNCHANGED faults
       \/ /\ Fault
          /\ Goto(w, "wait")
          /\ UNCHANGED ctx
    /\ UNCHANGED <<table, i, found, attempt, count, slot, anb, short>>

InstanceStep(w) ==
    \/ Leave(w) \/ EmptySlot(w) \/ EmptyDone(w) \/ Resize(w)
    \/ Skip(w) \/ Keep(w) \/ Break(w) \/ Collected(w) \/ Undo(w) \/ Connect(w)

\* The rest of the app opens descriptors and closes its own.
AppStep ==
    /\ \E n \in Fds : Open(App, 0, n) \/ (owner[n] = App /\ CloseFd(n))
    /\ UNCHANGED <<state, short, faults>>

Next == (\E w \in Instances : InstanceStep(w)) \/ AppStep

Spec == Init /\ [][Next]_vars
-----------------------------------------------------------------------------
(* Properties                                                              *)

TableTypeOK ==
    /\ owner \in [Fds -> Instances \cup {NoOne, Process, App}]
    /\ image \in [Fds -> 0 .. MaxCollect]

SlotTypeOK ==
    /\ slot \in [Instances -> [Slots -> Fds \cup {-1}]]
    /\ anb \in [Instances -> [Slots -> 0 .. MaxCollect]]

LoopTypeOK ==
    /\ at \in [Instances -> Steps]
    /\ count \in [Instances -> {0} \cup 2 .. MaxCollect]
    /\ found \in [Instances -> 0 .. MaxCollect]
    /\ i \in [Instances -> 0 .. MaxCollect]
    /\ attempt \in [Instances -> Nat]
    /\ \A w \in Instances : attempt[w] <= MaxCollect * Tries

FlagTypeOK == ctx \in [Instances -> BOOLEAN] /\ short \in BOOLEAN /\ faults \in Nat

\* Every variable has its type: indices stay within the arrays, and no
\* collection dequeues more often than it may.
TypeOK == TableTypeOK /\ SlotTypeOK /\ LoopTypeOK /\ FlagTypeOK

\* The slots whose descriptors an instance will still close.
OnRecord(w) ==
    IF at[w] = "collect" THEN 0 .. found[w] - 1
    ELSE IF at[w] \in {"empty", "undo"} THEN i[w] .. count[w] - 1
    ELSE 0 .. count[w] - 1

\* No dup is lost: whatever an attempt runs into, each descriptor an instance
\* opened is in a slot that a coming cleanup_dmabufs, or the failing
\* collection itself, closes.
NoDupLost ==
    \A n \in Fds, w \in Instances :
        owner[n] = w => \E k \in OnRecord(w) : slot[w][k] = n

\* Slot k's number is this instance's dup of the buffer it was filled with.
Holds(w, k) == owner[slot[w][k]] = w /\ image[slot[w][k]] = anb[w][k]

\* What a context may send to a producer are the open dups of as many
\* different buffers as it announces, each in its own slot, whatever the
\* other instances close.  Descriptor 0 is the exception, once a collection
\* fell short: it may have been given to a buffer and closed by somebody's
\* never filled slot.
ContextHoldsBuffers ==
    \A w \in Instances : ctx[w] =>
        \A k \in 0 .. count[w] - 1 :
            /\ \/ slot[w][k] >= 0 /\ Holds(w, k)
               \/ slot[w][k] = 0 /\ short
            /\ \A l \in 0 .. count[w] - 1 : anb[w][k] = anb[w][l] => k = l

\* An instance closes nobody else's descriptor: neither the app's nor another
\* instance's, and 0, with which the process was born, only once a collection
\* fell short.
ClosesItsOwn ==
    [][\A w \in Instances : slot'[w] # slot[w] =>
          \A n \in Fds : owner[n] # NoOne /\ owner'[n] = NoOne =>
             owner[n] = w \/ (n = 0 /\ short)]_vars
=============================================================================
