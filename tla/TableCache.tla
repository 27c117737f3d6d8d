----------------------------- MODULE TableCache -----------------------------
(***************************************************************************)
(* The tables of labels that every query looks bins up in                  *)
(* (airtree-query/src/meta/Histogram.cpp).  Threads construct histograms   *)
(* at the same time; the table of a bit length is built by the first that  *)
(* asks for it, while it holds the lock, and shared by all.                *)
(*                                                                         *)
(* Sorting leaves open the order of codes with the same label (there are   *)
(* some, among the labels nearest to zero): two tables of one length need  *)
(* not be equal, and a place found in one is not a place in the other.     *)
(***************************************************************************)
EXTENDS Integers

CONSTANTS
  Threads,
  Lengths,     \* the bit lengths asked for, headers may say any
  Supported,   \* those that reConstruct knows: 12, 13, 16 and 20
  Label,       \* Label[b][c] is the label of the code c of b bits
  MaxCalls,    \* bound: how often a thread asks
  NoThread, NoTable

CodesOf(b) == 0 .. 2 ^ b - 1

\* Histogram::Table: the code of each bin, and the place of each code.
Tables(b) == [bins : [CodesOf(b) -> CodesOf(b)], position : [CodesOf(b) -> CodesOf(b)]]

ASSUME LengthsAssumption == Supported \subseteq Lengths /\ Lengths \subseteq Nat /\ Lengths # {}
ASSUME ThreadsAssumption == NoThread \notin Threads
ASSUME LabelAssumption   == \A b \in Supported : Label[b] \in [CodesOf(b) -> Int]
ASSUME CallsAssumption   == MaxCalls \in Nat
ASSUME NoTableAssumption == \A b \in Supported : NoTable \notin Tables(b)

VARIABLES
  lock,    \* who holds the mutex
  cache,   \* the table kept for each length
  at,      \* where each thread is
  want,    \* the length it asks for
  table,   \* the table it is building
  held,    \* the histograms it has: [length, table]
  calls    \* how often it has asked

cachevars == <<lock, cache, at, want, table, held, calls>>

CacheInit ==
  /\ lock = NoThread
  /\ cache = [b \in Lengths |-> NoTable]
  /\ at = [t \in Threads |-> "idle"]
  /\ want = [t \in Threads |-> CHOOSE b \in Lengths : TRUE]
  /\ table = [t \in Threads |-> NoTable]
  /\ held = [t \in Threads |-> {}]
  /\ calls = [t \in Threads |-> 0]

-----------------------------------------------------------------------------
Goto(t, p) == at' = [at EXCEPT ![t] = p]

\* Histogram::Histogram and sortedValues
Ask(t) ==
  /\ at[t] = "idle" /\ calls[t] < MaxCalls
  /\ \E b \in Lengths : want' = [want EXCEPT ![t] = b]
  /\ calls' = [calls EXCEPT ![t] = @ + 1]
  /\ Goto(t, "lock")
  /\ UNCHANGED <<lock, cache, table, held>>

\* Mutant: the lock is not waited for.
AcquireAnyway(t) ==
  /\ at[t] = "lock"
  /\ lock' = t
  /\ Goto(t, "find")
  /\ UNCHANGED <<cache, want, table, held, calls>>

\* lock_guard
Acquire(t) ==
  /\ at[t] = "lock" /\ lock = NoThread
  /\ lock' = t
  /\ Goto(t, "find")
  /\ UNCHANGED <<cache, want, table, held, calls>>

\* Mutant: looking for a length leaves an entry for it, empty until the table is built.
FindInserting(t) ==
  /\ at[t] = "find"
  /\ Goto(t, IF cache[want[t]] # NoTable THEN "return"
             ELSE IF want[t] \in Supported THEN "resize" ELSE "throw")
  /\ cache' = [cache EXCEPT ![want[t]] = IF @ = NoTable THEN [bins |-> <<>>, position |-> <<>>] ELSE @]
  /\ UNCHANGED <<lock, want, table, held, calls>>

\* buildTable refuses a length before it builds anything.
Find(t) ==
  /\ at[t] = "find"
  /\ Goto(t, IF cache[want[t]] # NoTable THEN "return"
             ELSE IF want[t] \in Supported THEN "resize" ELSE "throw")
  /\ UNCHANGED <<lock, cache, want, table, held, calls>>

\* Memory may run out wherever some is asked for.
OutOfMemory(t) ==
  /\ at[t] \in {"resize", "index", "emplace"}
  /\ Goto(t, "throw")
  /\ UNCHANGED <<lock, cache, want, table, held, calls>>

ForCodeZero(b) == [c \in CodesOf(b) |-> 0]

\* make_shared and resize: as many bins as codes, all for code 0.
Resize(t) ==
  /\ at[t] = "resize"
  /\ table' = [table EXCEPT ![t] = [bins |-> ForCodeZero(want[t]), position |-> ForCodeZero(want[t])]]
  /\ Goto(t, "fill")
  /\ UNCHANGED <<lock, cache, want, held, calls>>

\* A bin for each code.
Fill(t) ==
  /\ at[t] = "fill"
  /\ table' = [table EXCEPT ![t].bins = [c \in CodesOf(want[t]) |-> c]]
  /\ Goto(t, "sort")
  /\ UNCHANGED <<lock, cache, want, held, calls>>

\* The orders that std::sort may leave: every code in one place, by label.
Orders(b) ==
  {s \in [CodesOf(b) -> CodesOf(b)] :
     /\ \A c \in CodesOf(b) : \E i \in CodesOf(b) : s[i] = c /\ \A j \in CodesOf(b) : s[j] = c => j = i
     /\ \A i, j \in CodesOf(b) : i < j => Label[b][s[i]] <= Label[b][s[j]]}

Sort(t) ==
  /\ at[t] = "sort"
  /\ \E s \in Orders(want[t]) : table' = [table EXCEPT ![t].bins = s]
  /\ Goto(t, "index")
  /\ UNCHANGED <<lock, cache, want, held, calls>>

\* Where each code has come to lie.
Index(t) ==
  /\ at[t] = "index"
  /\ table' = [table EXCEPT ![t].position =
                 [c \in CodesOf(want[t]) |-> CHOOSE i \in CodesOf(want[t]) : table[t].bins[i] = c]]
  /\ Goto(t, "emplace")
  /\ UNCHANGED <<lock, cache, want, held, calls>>

Emplace(t) ==
  /\ at[t] = "emplace"
  /\ cache' = [cache EXCEPT ![want[t]] = table[t]]
  /\ table' = [table EXCEPT ![t] = NoTable]
  /\ Goto(t, "return")
  /\ UNCHANGED <<lock, want, held, calls>>

\* The pointer is copied before the lock is given back.
Return(t) ==
  /\ at[t] = "return"
  /\ held' = [held EXCEPT ![t] = @ \cup {[length |-> want[t], table |-> cache[want[t]]]}]
  /\ lock' = NoThread
  /\ Goto(t, "idle")
  /\ UNCHANGED <<cache, want, table, calls>>

\* Mutant: an exception leaves the mutex locked.
ThrowLocked(t) ==
  /\ at[t] = "throw"
  /\ Goto(t, "idle")
  /\ UNCHANGED <<lock, cache, want, table, held, calls>>

\* lock_guard's destructor, and no histogram.
Throw(t) ==
  /\ at[t] = "throw"
  /\ lock' = NoThread
  /\ table' = [table EXCEPT ![t] = NoTable]
  /\ Goto(t, "idle")
  /\ UNCHANGED <<cache, want, held, calls>>

Proceed(t) ==
  \/ Acquire(t) \/ Find(t) \/ OutOfMemory(t) \/ Resize(t) \/ Fill(t) \/ Sort(t)
  \/ Index(t) \/ Emplace(t) \/ Return(t) \/ Throw(t)

CacheNext == \E t \in Threads : Ask(t) \/ Proceed(t)

CacheSpec == CacheInit /\ [][CacheNext]_cachevars

\* The scheduler runs every thread that can go on; threads ask a bounded number of
\* times, so one that waits for the mutex is not passed over for ever.
CacheFairness == \A t \in Threads : WF_cachevars(Proceed(t))

-----------------------------------------------------------------------------
\* Sorted by label, with every code where the index says.
Complete(b, tb) ==
  /\ tb.bins \in Orders(b) /\ tb.position \in [CodesOf(b) -> CodesOf(b)]
  /\ \A c \in CodesOf(b) : tb.bins[tb.position[c]] = c /\ tb.position[tb.bins[c]] = c

(***************************************************************************)
(* Whichever threads ask for whichever lengths, and whatever failed while  *)
(* a table was built, no histogram looks into a table that is half built,  *)
(* or refused (tableFor): it has all codes of its length, by label, and    *)
(* positionOf undoes getInternalRepresentation.                            *)
(***************************************************************************)
SeenWhole ==
  \A t \in Threads : \A h \in held[t] : h.length \in Supported /\ Complete(h.length, h.table)

(***************************************************************************)
(* All histograms of a length look into the same table, so a place that    *)
(* one thread found is the same bin to every other, also where labels are  *)
(* equal and the sort could have left them otherwise.                      *)
(***************************************************************************)
OneTable ==
  \A t, u \in Threads : \A g \in held[t], h \in held[u] : g.length = h.length => g.table = h.table

(***************************************************************************)
(* A thread that asks gets its histogram or an exception: neither an       *)
(* unsupported length nor memory running out leaves the mutex locked.      *)
(***************************************************************************)
Answered == \A t \in Threads : at[t] = "lock" ~> at[t] = "idle"

=============================================================================
