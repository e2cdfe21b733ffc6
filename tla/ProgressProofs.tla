--------------------------- MODULE ProgressProofs ---------------------------
(***************************************************************************)
(* Proofs about Progress, for any clients, jobs, checks, stops and         *)
(* notifications at once: what ProgressShown says of the pages, the        *)
(* entries of the registry, the trackers of the jobs and the lists of      *)
(* observers.                                                              *)
(*                                                                         *)
(* What a page shows is settled by messages under way, so the invariant    *)
(* says which notification will come to which client (Announced, Coming).  *)
(* The rest of it says where a client can be in a list, who makes and      *)
(* removes entries, and which job is alone (MemberInv, LockInv, JoinInv,   *)
(* AloneInv, JobInv).                                                      *)
(***************************************************************************)
EXTENDS Progress, SequenceTheorems, TLAPS

-----------------------------------------------------------------------------
(* The invariant.                                                          *)

(* Records of jobs, clients and notifications.                             *)
JobTypes ==
    [kind : JobKinds, pc : {"begin", "create", "save", "set", "unsaved", "report", "over"},
     tracker : Nat, saves : Stages \ {"Queued"}]
ClientTypes ==
    [pc : {"away", "asked", "locked", "create", "add", "listen", "busy", "leave", "gone"},
     po : Nat, read : Stages]
NoteTypes == [o : Nat \ {0}, in : Nat, len : Nat \cup {-1}, next : Nat]

(* What the variables hold. Only the newest entry is ever in the registry. *)
Types ==
    /\ db \in Stages
    /\ registry \in {NoEntry, Len(stage)}
    /\ removing \in {"no", "check", "delete"}
    /\ stage \in Seq(Stages)
    /\ jobs \in Seq(JobTypes)
    /\ current \in 0 .. Len(jobs)
    /\ client \in [Subscribers -> ClientTypes]
    /\ shown \in [Subscribers -> Stages]
    /\ lastSaver \in {NotSaved} \cup 0 .. Len(jobs)
    /\ missed \subseteq Subscribers
    /\ \A j \in DOMAIN jobs : jobs[j].tracker <= Len(stage)
    /\ \A c \in Subscribers : client[c].po <= Len(stage)

(* The observers are in the first places of the last array, each once.     *)
ListInv ==
    /\ slice \in Seq(Nat) /\ Len(slice) = Len(stage)
    /\ arrays \in Seq(Seq(Seq(Subscribers \cup {Nil}))) /\ Len(arrays) = Len(stage)
    /\ \A o \in DOMAIN slice :
          /\ arrays[o] # <<>>
          /\ slice[o] \in 0 .. Len(array(o))
          /\ \A i \in 1 .. slice[o] : array(o)[i] \in Subscribers
          /\ \A i, k \in 1 .. slice[o] : array(o)[i] = array(o)[k] => i = k

(* A notification under way is at a place of the array it read.            *)
NoteInv ==
    /\ notifiers \in Seq(NoteTypes)
    /\ \A n \in DOMAIN notifiers :
          /\ notifiers[n].o \in DOMAIN arrays
          /\ notifiers[n].len = -1 => notifiers[n].next = 1
          /\ notifiers[n].len # -1 =>
                /\ notifiers[n].in \in DOMAIN arrays[notifiers[n].o]
                /\ notifiers[n].len \in 1 .. Len(arrays[notifiers[n].o][notifiers[n].in])
                /\ notifiers[n].next \in 1 .. notifiers[n].len

(* Who is in the list of an entry listens there or is about to leave it;   *)
(* who left while another entry was in the registry stays in the old list. *)
MemberInv ==
    \A c \in Subscribers :
      /\ client[c].pc \in {"add", "listen", "busy"} => client[c].po # NoEntry
      /\ client[c].pc \in {"listen", "busy"} => c \in Observers(client[c].po)
      /\ \A o \in DOMAIN slice : c \in Observers(o) =>
            \/ client[c].pc \in {"listen", "busy"} /\ client[c].po = o
            \/ client[c].pc = "leave" /\ (client[c].po = o \/ registry # o)
            \/ client[c].pc = "gone" /\ registry # o

(* One client at a time makes an entry, and none is there meanwhile.       *)
LockInv ==
    \A c \in Subscribers : client[c].pc \in {"locked", "create"} =>
        /\ registry = NoEntry /\ removing # "delete"
        /\ \A d \in Subscribers : client[d].pc \in {"locked", "create"} => d = c

(* Who is not late is in the list of the entry in the registry, which is   *)
(* not about to be removed.                                                *)
JoinInv ==
    \A c \in Subscribers : client[c].pc \in {"listen", "busy"} /\ c \notin late =>
        client[c].po = registry /\ removing # "delete"

(* A job that is not detached runs alone in the process of the map.        *)
Active(j) == ~Over(j) /\ j \notin detached
AloneInv ==
    \A j \in DOMAIN jobs : Active(j) =>
        /\ current = j /\ removing = "no"
        /\ \A i \in DOMAIN jobs : i # j => Over(i)

(* The stage that a job is about to set is the status that was saved last, *)
(* unless a check or a detached job saved it, or it could not be saved.    *)
JobInv ==
    \A j \in DOMAIN jobs :
        /\ jobs[j].pc \in {"begin", "create"} => jobs[j].saves = "Progressing" /\ jobs[j].kind = "update"
        /\ jobs[j].kind = "update" /\ jobs[j].pc \in {"save", "set", "unsaved"} =>
              jobs[j].tracker # NoEntry
        /\ jobs[j].kind = "update" /\ jobs[j].pc \in {"save", "set", "unsaved"} /\ Active(j) =>
              jobs[j].tracker = registry
        /\ jobs[j].pc = "unsaved" => OutOfStep
        /\ jobs[j].pc = "set" => lastSaver = j \/ OutOfStep
        /\ jobs[j].pc = "set" /\ lastSaver = j => db = jobs[j].saves

(* An update has begun and not saved a status.                             *)
Fresh(j) ==
    /\ jobs[j].kind = "update" /\ jobs[j].saves = "Progressing"
    /\ jobs[j].pc \in {"begin", "create", "save"}
(* The entry may be behind the database: a check or a detached job saved   *)
(* the status, it could not be saved, or a job is about to set it.         *)
Unsettled == OutOfStep \/ \E j \in DOMAIN jobs : jobs[j].pc = "set" \/ Fresh(j)

(* A notification that has not begun will tell of the status; ...          *)
Announced == \E n \in DOMAIN notifiers : notifiers[n].len = -1 /\ stage[notifiers[n].o] = db

(* ... one that has will come to the place of the client.                  *)
Coming(c) ==
    \E n \in DOMAIN notifiers :
        /\ notifiers[n].len # -1 /\ notifiers[n].o = client[c].po
        /\ \E p \in notifiers[n].next .. notifiers[n].len :
              /\ arrays[client[c].po][notifiers[n].in][p] = c
              /\ notifiers[n].in = Len(arrays[client[c].po]) => p <= slice[client[c].po]

(* The entry tells the status, and so will the one that is being made.     *)
EntrySettled ==
    /\ registry # NoEntry => stage[registry] = db
    /\ \A c \in Subscribers : client[c].pc = "create" => client[c].read = db

(* A page that was not passed over will hear of the status, or shows it.   *)
ClientSettled(c) ==
    client[c].pc \in Waiting /\ c \notin missed =>
        \/ Announced
        \/ /\ client[c].pc \in {"add", "listen", "busy"} => stage[client[c].po] = db
           /\ shown[c] = db \/ client[c].pc = "busy" \/ (client[c].pc = "listen" /\ Coming(c))

(* Otherwise the entry in the registry tells the status, and a page shows  *)
(* it or is going to.                                                      *)
SettledInv == Unsettled \/ (EntrySettled /\ \A c \in Subscribers : ClientSettled(c))

(* The inductive invariant.                                                *)
IInv ==
    /\ Types /\ ListInv /\ NoteInv /\ MemberInv /\ LockInv
    /\ JoinInv /\ AloneInv /\ JobInv /\ SettledInv

(* In the beginning there is nothing.                                      *)
LEMMA InitIInv == ProgressInit => IInv
<1> SUFFICES ASSUME ProgressInit PROVE IInv
  OBVIOUS
<1> USE DEF ProgressInit, NoEntry
<1>1. Types
  BY DEF Types, Stages, Outcomes, ClientTypes
<1>2. ListInv /\ NoteInv /\ MemberInv /\ LockInv /\ JoinInv /\ AloneInv /\ JobInv
  BY DEF ListInv, NoteInv, MemberInv, LockInv, JoinInv, AloneInv, JobInv
<1>3. SettledInv
  BY DEF SettledInv, EntrySettled, ClientSettled, Waiting
<1> QED
  BY <1>1, <1>2, <1>3 DEF IInv

-----------------------------------------------------------------------------
(* The lists of observers.                                                 *)

(* Where the lists stay, so do the observers.                              *)
LEMMA SameLists ==
    ASSUME slice' = slice, arrays' = arrays
    PROVE  \A o : Observers(o)' = Observers(o) /\ array(o)' = array(o)
BY DEF Observers, array

(* A new entry has no observers, the others keep theirs.                   *)
LEMMA NewEntry ==
    ASSUME Types, ListInv, NEW s \in Stages, newProgressObservable(s)
    PROVE  /\ stage' \in Seq(Stages) /\ Len(stage') = Len(stage) + 1
           /\ stage'[Len(stage) + 1] = s
           /\ \A o \in 1 .. Len(stage) :
                 stage'[o] = stage[o] /\ slice'[o] = slice[o] /\ arrays'[o] = arrays[o]
           /\ ListInv'
           /\ \A o \in 1 .. Len(stage) : Observers(o)' = Observers(o)
           /\ \A o : o = Len(stage) + 1 => Observers(o)' = {}
<1> DEFINE m == Len(stage)
<1>1. /\ stage \in Seq(Stages) /\ slice \in Seq(Nat) /\ Len(slice) = m
      /\ arrays \in Seq(Seq(Seq(Subscribers \cup {Nil}))) /\ Len(arrays) = m /\ m \in Nat
  BY DEF Types, ListInv
<1>2. <<Nowhere>> \in Seq(Seq(Subscribers \cup {Nil})) /\ Len(<<Nowhere>>) = 1 /\ Len(Nowhere) = 0
      /\ <<Nowhere>>[1] = Nowhere
  BY DEF Nowhere
<1>3. /\ stage' \in Seq(Stages) /\ slice' \in Seq(Nat)
      /\ arrays' \in Seq(Seq(Seq(Subscribers \cup {Nil})))
      /\ Len(stage') = m + 1 /\ Len(slice') = m + 1 /\ Len(arrays') = m + 1
      /\ stage'[m + 1] = s /\ slice'[m + 1] = 0 /\ arrays'[m + 1] = <<Nowhere>>
  BY <1>1, <1>2 DEF newProgressObservable
<1>4. \A o \in 1 .. m : stage'[o] = stage[o] /\ slice'[o] = slice[o] /\ arrays'[o] = arrays[o]
  BY <1>1 DEF newProgressObservable
<1>5. \A o \in 1 .. m : array(o)' = array(o) /\ Observers(o)' = Observers(o)
  BY <1>4 DEF array, Observers
<1>6. ASSUME NEW o, o = m + 1 PROVE Observers(o)' = {} /\ array(o)' = Nowhere
  <2> HIDE DEF m
  <2>1. Len(arrays'[o]) = 1 /\ arrays'[o][1] = Nowhere
    BY <1>2, <1>3, <1>6
  <2>2. array(o)' = Nowhere
    BY <2>1 DEF array
  <2>3. 1 .. slice'[o] = {}
    BY <1>3, <1>6
  <2> QED
    BY <2>2, <2>3 DEF Observers
<1>7. DOMAIN slice' = 1 .. m + 1 /\ DOMAIN slice = 1 .. m
  BY <1>1, <1>3
<1>8. \A o \in 1 .. m + 1 : o \in 1 .. m \/ o = m + 1
  BY <1>1
<1>9. ASSUME NEW o \in DOMAIN slice'
      PROVE  /\ arrays'[o] # <<>>
             /\ slice'[o] \in 0 .. Len(array(o)')
             /\ \A i \in 1 .. slice'[o] : array(o)'[i] \in Subscribers
             /\ \A i, k \in 1 .. slice'[o] : array(o)'[i] = array(o)'[k] => i = k
  <2>1. CASE o \in 1 .. m
    BY <1>4, <1>5, <1>7, <2>1 DEF ListInv
  <2>2. CASE o = m + 1
    <3>1. slice'[o] = 0 /\ array(o)' = Nowhere /\ arrays'[o] = <<Nowhere>>
      BY <1>3, <1>6, <2>2
    <3> QED
      BY <1>2, <3>1
  <2> QED
    BY <1>7, <1>8, <2>1, <2>2
<1>10. ListInv'
  BY <1>3, <1>9 DEF ListInv
<1> QED
  BY <1>3, <1>4, <1>5, <1>6, <1>10

(* An array is not changed in the places that are read, and one that is    *)
(* left is not changed any more.                                           *)
LEMMA Added ==
    ASSUME Types, ListInv, MemberInv, NEW c \in Subscribers, AddObserver(c), NEW o, o = client[c].po
    PROVE  /\ o \in DOMAIN slice /\ ListInv'
           /\ slice'[o] = slice[o] + 1 /\ DOMAIN slice' = DOMAIN slice
           /\ \A x \in DOMAIN slice : x # o => slice'[x] = slice[x] /\ arrays'[x] = arrays[x]
           /\ Observers(o)' = Observers(o) \cup {c}
           /\ Len(arrays'[o]) \in {Len(arrays[o]), Len(arrays[o]) + 1}
           /\ \A k \in 1 .. Len(arrays[o]) :
                 /\ Len(arrays'[o][k]) = Len(arrays[o][k])
                 /\ \A p \in 1 .. Len(arrays[o][k]) :
                       k < Len(arrays'[o]) \/ p <= slice[o] =>
                           arrays'[o][k][p] = arrays[o][k][p]
<1> DEFINE C == Subscribers \cup {Nil}
           L == arrays[o]
           m == Len(L)
           a == L[m]
           n == slice[o]
           b == [Larger(a) EXCEPT ![n + 1] = c]
<1>1. o \in DOMAIN slice /\ o \in DOMAIN arrays /\ DOMAIN slice = DOMAIN arrays
  BY DEF AddObserver, MemberInv, Types, ListInv, NoEntry, ClientTypes
<1>2. /\ L \in Seq(Seq(C)) /\ m \in Nat \ {0} /\ a \in Seq(C) /\ n \in 0 .. Len(a)
      /\ \A i \in 1 .. n : a[i] \in Subscribers
      /\ \A i, k \in 1 .. n : a[i] = a[k] => i = k
  <2>1. L \in Seq(Seq(C)) /\ L # <<>>
    BY <1>1 DEF ListInv
  <2>2. m \in Nat \ {0} /\ a \in Seq(C)
    <3> HIDE DEF L, C
    <3> QED
      BY <2>1
  <2> QED
    BY <1>1, <2>1, <2>2 DEF ListInv, array
<1>3. \A i \in 1 .. n : a[i] # c
  <2>1. client[c].pc = "add"
    BY DEF AddObserver
  <2>2. c \notin Observers(o)
    BY <1>1, <2>1 DEF MemberInv
  <2> QED
    BY <2>2 DEF Observers, array
<1>4. /\ slice' = [slice EXCEPT ![o] = n + 1]
      /\ arrays' = [arrays EXCEPT ![o] =
                       IF n + 1 <= Len(a) THEN [L EXCEPT ![m] = [a EXCEPT ![n + 1] = c]]
                                          ELSE Append(L, b)]
  BY DEF AddObserver, array
<1>5. /\ slice \in Seq(Nat) /\ arrays \in Seq(Seq(Seq(C)))
      /\ Len(slice) = Len(stage) /\ Len(arrays) = Len(stage)
  BY DEF ListInv
<1>6. stage' = stage
  BY DEF AddObserver
<1> DEFINE R == arrays'[o]
           d == R[Len(R)]
<1>7. /\ R = IF n + 1 <= Len(a) THEN [L EXCEPT ![m] = [a EXCEPT ![n + 1] = c]] ELSE Append(L, b)
      /\ slice'[o] = n + 1 /\ slice' \in Seq(Nat) /\ Len(slice') = Len(stage)
      /\ \A x \in DOMAIN slice : x # o => slice'[x] = slice[x] /\ arrays'[x] = arrays[x]
      /\ DOMAIN slice' = DOMAIN slice /\ DOMAIN arrays' = DOMAIN arrays
  <2> DEFINE new == IF n + 1 <= Len(a) THEN [L EXCEPT ![m] = [a EXCEPT ![n + 1] = c]]
                    ELSE Append(L, b)
  <2>1. slice' = [slice EXCEPT ![o] = n + 1] /\ arrays' = [arrays EXCEPT ![o] = new]
    BY <1>4
  <2>2. n + 1 \in Nat
    BY <1>2
  <2> HIDE DEF new, n
  <2>3. R = new
    BY <1>1, <1>5, <2>1
  <2>4. /\ slice'[o] = n + 1 /\ slice' \in Seq(Nat) /\ Len(slice') = Len(stage)
        /\ \A x \in DOMAIN slice : x # o => slice'[x] = slice[x]
        /\ DOMAIN slice' = DOMAIN slice
    BY <1>1, <1>5, <2>1, <2>2
  <2>5. /\ \A x \in DOMAIN slice : x # o => arrays'[x] = arrays[x]
        /\ DOMAIN arrays' = DOMAIN arrays
    BY <1>1, <1>5, <2>1
  <2> QED
    BY <2>3, <2>4, <2>5 DEF new, n
<1>8. /\ R \in Seq(Seq(C)) /\ Len(R) \in {m, m + 1}
      /\ n + 1 <= Len(d) /\ d[n + 1] = c /\ \A i \in 1 .. n : d[i] = a[i]
      /\ \A k \in 1 .. m : /\ Len(R[k]) = Len(L[k])
                           /\ \A p \in 1 .. Len(L[k]) : k < Len(R) \/ p <= n => R[k][p] = L[k][p]
  <2> HIDE DEF L, a, n, m, C
  <2>1. CASE n + 1 <= Len(a)
    <3> DEFINE e == [a EXCEPT ![n + 1] = c]
    <3>1. R = [L EXCEPT ![m] = e]
      BY <1>7, <2>1
    <3>2. /\ e \in Seq(C) /\ Len(e) = Len(a) /\ e[n + 1] = c
          /\ \A i \in 1 .. Len(a) : i # n + 1 => e[i] = a[i]
      BY <1>2, <2>1 DEF C
    <3> HIDE DEF e, R
    <3>3. R \in Seq(Seq(C)) /\ Len(R) = m /\ R[m] = e /\ \A k \in 1 .. m : k # m => R[k] = L[k]
      BY <1>2, <3>1, <3>2 DEF m
    <3>4. \A i \in 1 .. n : i \in 1 .. Len(a) /\ i # n + 1
      BY <1>2
    <3>5. \A k \in 1 .. m : /\ Len(R[k]) = Len(L[k])
                            /\ \A p \in 1 .. Len(L[k]) : k < Len(R) \/ p <= n => R[k][p] = L[k][p]
      <4>1. a = L[m] /\ m \in Nat /\ n \in Nat
        BY <1>2 DEF a
      <4> QED
        BY <3>2, <3>3, <4>1
    <3> QED
      BY <1>2, <2>1, <3>2, <3>3, <3>4, <3>5
  <2>2. CASE ~(n + 1 <= Len(a))
    <3>1. n = Len(a) /\ n \in Nat
      BY <1>2, <2>2
    <3> DEFINE size == IF Len(a) = 0 THEN 1 ELSE 2 * Len(a)
    <3>2. size \in Nat /\ n + 1 \in 1 .. size
      BY <3>1
    <3>3. Larger(a) = [i \in 1 .. size |-> IF i <= Len(a) THEN a[i] ELSE Nil]
      BY DEF Larger
    <3> HIDE DEF size
    <3>4. Larger(a) \in [1 .. size -> C] /\ \A i \in 1 .. n : Larger(a)[i] = a[i] /\ i \in 1 .. size
      BY <1>2, <3>1, <3>2, <3>3 DEF C
    <3>5. b \in [1 .. size -> C] /\ b[n + 1] = c /\ \A i \in 1 .. n : b[i] = a[i]
      BY <3>1, <3>2, <3>4 DEF C
    <3>6. b \in Seq(C) /\ Len(b) = size
      <4> HIDE DEF b
      <4> QED
        BY <3>2, <3>5
    <3>7. R = Append(L, b)
      BY <1>7, <2>2
    <3> HIDE DEF b, R
    <3>8. R \in Seq(Seq(C)) /\ Len(R) = m + 1 /\ R[m + 1] = b /\ \A k \in 1 .. m : R[k] = L[k]
      BY <1>2, <3>6, <3>7 DEF m
    <3> QED
      BY <1>2, <3>2, <3>5, <3>6, <3>8
  <2> QED
    BY <2>1, <2>2
<1>9. array(o)' = d
  BY DEF array
<1>10. Observers(o)' = Observers(o) \cup {c}
  <2> HIDE DEF R, d
  <2>1. Observers(o)' = {d[i] : i \in 1 .. n + 1}
    BY <1>7, <1>9 DEF Observers
  <2>2. Observers(o) = {a[i] : i \in 1 .. n}
    BY DEF Observers, array
  <2> HIDE DEF L, m, a, n
  <2>3. \A i \in 1 .. n + 1 : i \in 1 .. n \/ i = n + 1
    BY <1>2
  <2>4. n \in Nat /\ n + 1 \in 1 .. n + 1 /\ \A i \in 1 .. n : i \in 1 .. n + 1
    BY <1>2
  <2> QED
    BY <1>8, <2>1, <2>2, <2>3, <2>4
<1>11. ListInv'
  <2>1. arrays' \in Seq(Seq(Seq(C))) /\ Len(arrays') = Len(stage)
    <3> HIDE DEF R, C
    <3>1. R \in Seq(Seq(C)) /\ arrays' = [arrays EXCEPT ![o] = R]
      BY <1>4, <1>5, <1>7, <1>8
    <3> QED
      BY <1>1, <1>5, <3>1
  <2>2. ASSUME NEW x \in DOMAIN slice
        PROVE  /\ arrays'[x] # <<>>
               /\ slice'[x] \in 0 .. Len(array(x)')
               /\ \A i \in 1 .. slice'[x] : array(x)'[i] \in Subscribers
               /\ \A i, k \in 1 .. slice'[x] : array(x)'[i] = array(x)'[k] => i = k
    <3>1. CASE x # o
      BY <1>7, <2>2, <3>1 DEF ListInv, array
    <3>2. CASE x = o
      <4> HIDE DEF L, m, a, n, R, d
      <4>1. R # <<>> /\ n + 1 \in 0 .. Len(d)
        <5>1. Len(R) \in Nat \ {0} /\ Len(d) \in Nat /\ n \in Nat
          BY <1>2, <1>8 DEF d
        <5> QED
          BY <1>8, <5>1
      <4>2. \A i \in 1 .. n + 1 :
               \/ (i \in 1 .. n /\ d[i] = a[i] /\ d[i] \in Subscribers /\ d[i] # c)
               \/ (i = n + 1 /\ d[i] = c)
        <5>1. n \in Nat /\ \A i \in 1 .. n + 1 : i \in 1 .. n \/ i = n + 1
          BY <1>2
        <5>2. \A i \in 1 .. n : d[i] = a[i] /\ a[i] \in Subscribers /\ a[i] # c
          BY <1>2, <1>3, <1>8
        <5>3. d[n + 1] = c
          BY <1>8
        <5> QED
          BY <5>1, <5>2, <5>3
      <4>3. \A i, k \in 1 .. n + 1 : d[i] = d[k] => i = k
        BY <1>2, <4>2
      <4>4. arrays'[x] = R /\ slice'[x] = n + 1 /\ array(x)' = d
        BY <1>7, <1>9, <3>2 DEF R
      <4> QED
        BY <4>1, <4>2, <4>3, <4>4
    <3> QED
      BY <3>1, <3>2
  <2> QED
    BY <1>6, <1>7, <2>1, <2>2 DEF ListInv
<1> HIDE DEF R
<1> QED
  BY <1>1, <1>7, <1>8, <1>10, <1>11 DEF R

(* Who is not listed leaves the lists as they are; ...                     *)
LEMMA NotRemoved ==
    ASSUME NEW c \in Subscribers, RemoveObserver(c),
           client[c].po = NoEntry \/ c \notin Observers(client[c].po)
    PROVE  slice' = slice /\ arrays' = arrays /\ missed' = missed \ {c}
BY DEF RemoveObserver

(* ... the place of who is listed is taken by the last.                    *)
LEMMA Removed ==
    ASSUME Types, ListInv, NEW c \in Subscribers, RemoveObserver(c), NEW o, o = client[c].po,
           o # NoEntry, c \in Observers(o)
    PROVE  /\ o \in DOMAIN slice /\ ListInv' /\ Observers(o)' = Observers(o) \ {c}
           /\ DOMAIN slice' = DOMAIN slice /\ slice'[o] = slice[o] - 1
           /\ \A x \in DOMAIN slice : x # o => slice'[x] = slice[x] /\ arrays'[x] = arrays[x]
           /\ Len(arrays'[o]) = Len(arrays[o])
           /\ \A k \in 1 .. Len(arrays[o]) :
                 /\ Len(arrays'[o][k]) = Len(arrays[o][k])
                 /\ k # Len(arrays[o]) => arrays'[o][k] = arrays[o][k]
           /\ \E i \in 1 .. slice[o] :
                 /\ array(o)[i] = c
                 /\ missed' = (missed \cup Skipped(o, i)) \ {c}
                 /\ \A p \in 1 .. slice[o] :
                       p # i /\ p # slice[o] => array(o)'[p] = array(o)[p]
                 /\ i # slice[o] => array(o)'[i] = array(o)[slice[o]]
<1> DEFINE C == Subscribers \cup {Nil}
           L == arrays[o]
           m == Len(L)
           a == L[m]
           n == slice[o]
           i == CHOOSE x \in 1 .. n : a[x] = c
           b == [a EXCEPT ![i] = a[n], ![n] = Nil]
<1>1. o \in DOMAIN slice /\ o \in DOMAIN arrays /\ DOMAIN slice = DOMAIN arrays
  BY DEF Types, ListInv, NoEntry, ClientTypes
<1>2. /\ L \in Seq(Seq(C)) /\ m \in Nat \ {0} /\ a \in Seq(C) /\ n \in 0 .. Len(a)
      /\ \A x \in 1 .. n : a[x] \in Subscribers
      /\ \A x, y \in 1 .. n : a[x] = a[y] => x = y
  <2>1. L \in Seq(Seq(C)) /\ L # <<>>
    BY <1>1 DEF ListInv
  <2>2. m \in Nat \ {0} /\ a \in Seq(C)
    <3> HIDE DEF L, C
    <3> QED
      BY <2>1
  <2> QED
    BY <1>1, <2>1, <2>2 DEF ListInv, array
<1>3. i \in 1 .. n /\ a[i] = c
  <2>1. \E x \in 1 .. n : a[x] = c
    BY DEF Observers, array
  <2> HIDE DEF a, n
  <2> QED
    BY <2>1
<1>4. /\ slice' = [slice EXCEPT ![o] = n - 1]
      /\ arrays' = [arrays EXCEPT ![o] = [L EXCEPT ![m] = b]]
      /\ missed' = (missed \cup Skipped(o, i)) \ {c}
      /\ stage' = stage
  BY DEF RemoveObserver, array
<1>5. /\ slice \in Seq(Nat) /\ arrays \in Seq(Seq(Seq(C)))
      /\ Len(slice) = Len(stage) /\ Len(arrays) = Len(stage)
  BY DEF ListInv
<1> DEFINE R == [L EXCEPT ![m] = b]
<1> HIDE DEF i, C
<1>6. /\ b \in Seq(C) /\ Len(b) = Len(a) /\ n \in 1 .. Len(a) /\ n - 1 \in Nat /\ n \in Nat
      /\ \A p \in 1 .. n : p # i /\ p # n => b[p] = a[p]
      /\ i # n => b[i] = a[n]
  <2> HIDE DEF a, n
  <2>1. n \in 1 .. Len(a) /\ n - 1 \in Nat /\ n \in Nat /\ i \in 1 .. Len(a)
    BY <1>2, <1>3
  <2>2. a[n] \in C /\ Nil \in C
    BY <1>2, <2>1 DEF C
  <2> QED
    BY <1>2, <2>1, <2>2
<1>7. /\ slice'[o] = n - 1 /\ slice' \in Seq(Nat) /\ Len(slice') = Len(stage)
      /\ \A x \in DOMAIN slice : x # o => slice'[x] = slice[x]
      /\ DOMAIN slice' = DOMAIN slice
  <2> HIDE DEF n
  <2> QED
    BY <1>1, <1>4, <1>5, <1>6
<1>8. /\ R \in Seq(Seq(C)) /\ Len(R) = m /\ R[m] = b
      /\ \A k \in 1 .. m : k # m => R[k] = L[k]
  <2> HIDE DEF L, b
  <2> QED
    BY <1>2, <1>6 DEF m
<1>9. /\ arrays'[o] = R /\ arrays' \in Seq(Seq(Seq(C))) /\ Len(arrays') = Len(stage)
      /\ \A x \in DOMAIN slice : x # o => arrays'[x] = arrays[x]
  <2>1. arrays' = [arrays EXCEPT ![o] = R]
    BY <1>4
  <2> HIDE DEF R
  <2> QED
    BY <1>1, <1>5, <1>8, <2>1
<1> HIDE DEF R, b
<1>10. array(o)' = b
  BY <1>8, <1>9 DEF array
<1>11. Observers(o)' = Observers(o) \ {c}
  <2>1. Observers(o)' = {b[x] : x \in 1 .. n - 1}
    BY <1>7, <1>10 DEF Observers
  <2>2. Observers(o) = {a[x] : x \in 1 .. n}
    BY DEF Observers, array
  <2> HIDE DEF L, m, a, n
  <2>3. \A x \in 1 .. n - 1 : x \in 1 .. n /\ x # n
    BY <1>6
  <2>4. \A x \in 1 .. n : x = n \/ x \in 1 .. n - 1
    BY <1>6
  <2>5. n \in 1 .. n
    BY <1>6
  <2>6. ASSUME NEW x \in 1 .. n - 1 PROVE \E y \in 1 .. n : b[x] = a[y] /\ a[y] # c
    <3>1. CASE x = i
      BY <1>2, <1>3, <1>6, <2>3, <2>5, <3>1
    <3>2. CASE x # i
      BY <1>2, <1>3, <1>6, <2>3, <3>2
    <3> QED
      BY <3>1, <3>2
  <2>7. ASSUME NEW y \in 1 .. n, a[y] # c PROVE \E x \in 1 .. n - 1 : b[x] = a[y]
    <3>1. CASE y = n
      BY <1>3, <1>6, <2>4, <2>7, <3>1
    <3>2. CASE y # n
      BY <1>3, <1>6, <2>4, <2>7, <3>2
    <3> QED
      BY <3>1, <3>2
  <2> QED
    BY <2>1, <2>2, <2>6, <2>7
<1>12. ListInv'
  <2>1. ASSUME NEW x \in DOMAIN slice
        PROVE  /\ arrays'[x] # <<>>
               /\ slice'[x] \in 0 .. Len(array(x)')
               /\ \A y \in 1 .. slice'[x] : array(x)'[y] \in Subscribers
               /\ \A y, z \in 1 .. slice'[x] : array(x)'[y] = array(x)'[z] => y = z
    <3>1. CASE x # o
      BY <1>7, <1>9, <2>1, <3>1 DEF ListInv, array
    <3>2. CASE x = o
      <4>1. /\ arrays'[x] = R /\ slice'[x] = n - 1 /\ array(x)' = b
        BY <1>7, <1>9, <1>10, <3>2
      <4> HIDE DEF L, m, a, n
      <4>2. R # <<>> /\ n - 1 \in 0 .. Len(b)
        BY <1>2, <1>6, <1>8
      <4>3. \A y \in 1 .. n - 1 : y \in 1 .. n /\ y # n
        BY <1>6
      <4>4. n \in 1 .. n
        BY <1>6
      <4>5. \A y \in 1 .. n - 1 : b[y] = IF y = i THEN a[n] ELSE a[y]
        BY <1>6, <4>3
      <4>6. \A y \in 1 .. n - 1 : b[y] \in Subscribers
        BY <1>2, <4>3, <4>4, <4>5
      <4>7. \A y, z \in 1 .. n - 1 : b[y] = b[z] => y = z
        BY <1>2, <4>3, <4>4, <4>5
      <4> QED
        BY <4>1, <4>2, <4>6, <4>7
    <3> QED
      BY <3>1, <3>2
  <2> QED
    BY <1>4, <1>7, <1>9, <2>1 DEF ListInv, C
<1>13. \A k \in 1 .. m : Len(R[k]) = Len(L[k])
  BY <1>6, <1>8
<1>14. /\ i \in 1 .. slice[o] /\ array(o)[i] = c
       /\ \A p \in 1 .. slice[o] : p # i /\ p # slice[o] => array(o)'[p] = array(o)[p]
       /\ i # slice[o] => array(o)'[i] = array(o)[slice[o]]
  BY <1>3, <1>6, <1>10 DEF array
<1>15. /\ Len(arrays'[o]) = Len(arrays[o])
       /\ \A k \in 1 .. Len(arrays[o]) :
             /\ Len(arrays'[o][k]) = Len(arrays[o][k])
             /\ k # Len(arrays[o]) => arrays'[o][k] = arrays[o][k]
  BY <1>8, <1>9, <1>13
<1>16. slice'[o] = slice[o] - 1
  BY <1>7
<1>17. missed' = (missed \cup Skipped(o, i)) \ {c}
  BY <1>4
<1>18. \E x \in 1 .. slice[o] :
         /\ array(o)[x] = c
         /\ missed' = (missed \cup Skipped(o, x)) \ {c}
         /\ \A p \in 1 .. slice[o] : p # x /\ p # slice[o] => array(o)'[p] = array(o)[p]
         /\ x # slice[o] => array(o)'[x] = array(o)[slice[o]]
  BY <1>14, <1>17
<1> HIDE DEF L, m, a, n
<1> QED
  BY <1>1, <1>7, <1>9, <1>11, <1>12, <1>15, <1>16, <1>18

-----------------------------------------------------------------------------
(* The variables hold what they should.                                    *)

(* One element of a list is replaced (a job, a client's notification).     *)
LEMMA Replaced ==
    ASSUME NEW S, NEW s \in Seq(S), NEW j \in DOMAIN s, NEW r \in S,
           NEW t, t = [s EXCEPT ![j] = r]
    PROVE  /\ t \in Seq(S) /\ Len(t) = Len(s) /\ DOMAIN t = DOMAIN s /\ t[j] = r
           /\ \A i \in DOMAIN s : i # j => t[i] = s[i]
OBVIOUS

(* One element is added behind the others.                                 *)
LEMMA Appended ==
    ASSUME NEW S, NEW s \in Seq(S), NEW r \in S, NEW t, t = Append(s, r)
    PROVE  /\ t \in Seq(S) /\ Len(t) = Len(s) + 1 /\ t[Len(s) + 1] = r
           /\ DOMAIN t = DOMAIN s \cup {Len(s) + 1}
           /\ \A i \in DOMAIN s : t[i] = s[i] /\ i # Len(s) + 1
OBVIOUS

(* RemoveAt leaves the other elements.                                     *)
LEMMA Dropped ==
    ASSUME NEW S, NEW s \in Seq(S), NEW n \in DOMAIN s, NEW t, t = RemoveAt(s, n)
    PROVE  /\ t \in Seq(S) /\ Len(t) = Len(s) - 1
           /\ \A i \in DOMAIN t : \E k \in DOMAIN s : k # n /\ t[i] = s[k]
           /\ \A k \in DOMAIN s : k # n => \E i \in DOMAIN t : t[i] = s[k]
<1> DEFINE m == Len(s)
<1>1. m \in Nat /\ n \in 1 .. m /\ DOMAIN s = 1 .. m
  OBVIOUS
<1>2. t = SubSeq(s, 1, n - 1) \o SubSeq(s, n + 1, m)
  BY DEF RemoveAt
<1>3. SubSeq(s, 1, n - 1) \in Seq(S) /\ Len(SubSeq(s, 1, n - 1)) = n - 1
      /\ \A i \in 1 .. n - 1 : SubSeq(s, 1, n - 1)[i] = s[i]
  BY <1>1
<1>4. SubSeq(s, n + 1, m) \in Seq(S) /\ Len(SubSeq(s, n + 1, m)) = m - n
      /\ \A i \in 1 .. m - n : SubSeq(s, n + 1, m)[i] = s[i + n]
  BY <1>1
<1>5. t \in Seq(S) /\ Len(t) = m - 1
      /\ \A i \in 1 .. m - 1 : t[i] = IF i < n THEN s[i] ELSE s[i + 1]
  <2> DEFINE u == SubSeq(s, 1, n - 1)
             v == SubSeq(s, n + 1, m)
  <2>1. t = u \o v /\ u \in Seq(S) /\ v \in Seq(S)
    BY <1>2, <1>3, <1>4
  <2> HIDE DEF u, v, m
  <2>2. t \in Seq(S) /\ Len(t) = Len(u) + Len(v)
        /\ \A i \in 1 .. Len(u) + Len(v) : t[i] = IF i <= Len(u) THEN u[i] ELSE v[i - Len(u)]
    BY <2>1
  <2>3. Len(u) = n - 1 /\ Len(v) = m - n
    BY <1>3, <1>4 DEF u, v
  <2>4. ASSUME NEW i \in 1 .. m - 1 PROVE t[i] = IF i < n THEN s[i] ELSE s[i + 1]
    <3>1. CASE i < n
      BY <1>1, <1>3, <2>2, <2>3, <3>1 DEF u
    <3>2. CASE ~(i < n)
      <4>1. i - Len(u) \in 1 .. m - n /\ (i - Len(u)) + n = i + 1 /\ ~(i <= Len(u))
        BY <1>1, <2>3, <3>2
      <4>2. t[i] = v[i - Len(u)]
        BY <1>1, <2>2, <2>3, <4>1
      <4>3. v[i - Len(u)] = s[(i - Len(u)) + n]
        BY <1>4, <4>1 DEF v
      <4> QED
        BY <3>2, <4>1, <4>2, <4>3
    <3> QED
      BY <3>1, <3>2
  <2> QED
    BY <1>1, <2>2, <2>3, <2>4
<1>6. DOMAIN t = 1 .. m - 1 /\ Len(t) = Len(s) - 1
  BY <1>5
<1> HIDE DEF m
<1>7. ASSUME NEW i \in 1 .. m - 1 PROVE \E k \in 1 .. m : k # n /\ t[i] = s[k]
  BY <1>1, <1>5
<1>8. ASSUME NEW k \in 1 .. m, k # n PROVE \E i \in 1 .. m - 1 : t[i] = s[k]
  <2>1. CASE k < n
    BY <1>1, <1>5, <2>1
  <2>2. CASE k > n
    <3>1. k - 1 \in 1 .. m - 1 /\ ~(k - 1 < n) /\ (k - 1) + 1 = k
      BY <1>1, <2>2
    <3> QED
      BY <1>5, <3>1
  <2> QED
    BY <1>1, <1>8, <2>1, <2>2
<1>9. \A i \in DOMAIN t : \E k \in DOMAIN s : k # n /\ t[i] = s[k]
  BY <1>1, <1>6, <1>7
<1>10. \A k \in DOMAIN s : k # n => \E i \in DOMAIN t : t[i] = s[k]
  BY <1>1, <1>6, <1>8
<1> QED
  BY <1>5, <1>6, <1>9, <1>10

-----------------------------------------------------------------------------
(* What the steps of a job do to it.                                       *)

(* The others stay as they are, and it keeps its kind.                     *)
OneJob(j) ==
    /\ jobs' \in Seq(JobTypes) /\ Len(jobs') = Len(jobs) /\ DOMAIN jobs' = DOMAIN jobs
    /\ \A i \in DOMAIN jobs : i # j => jobs'[i] = jobs[i]
    /\ jobs'[j].kind = jobs[j].kind /\ jobs[j].pc # "over"

(* A new job has not saved a status.                                       *)
LEMMA NewJobs ==
    ASSUME NEW k \in JobKinds
    PROVE  /\ NewJob(k) \in JobTypes
           /\ NewJob(k).tracker = NoEntry /\ NewJob(k).saves = "Progressing" /\ NewJob(k).kind = k
           /\ NewJob(k).pc = IF k = "update" THEN "begin" ELSE "save"
<1>1. NewJob(k) \in JobTypes
  BY DEF NewJob, JobTypes, NoEntry, Stages, Outcomes
<1> QED
  BY <1>1 DEF NewJob

(* A look at the registry gives a job its tracker, or tells it to make     *)
(* one.                                                                    *)
LEMMA JobCreates ==
    ASSUME Types, NEW j \in DOMAIN jobs, GetOrCreate(j)
    PROVE  /\ OneJob(j) /\ jobs[j].pc \in {"begin", "create"} /\ jobs'[j].saves = jobs[j].saves
           /\ \/ /\ jobs'[j].pc = "create" /\ jobs'[j].tracker = jobs[j].tracker
                 /\ registry' = registry /\ UNCHANGED observables
              \/ /\ jobs'[j].pc = "save" /\ jobs'[j].tracker = registry' /\ registry' # NoEntry
                 /\ \/ registry' = registry /\ UNCHANGED observables
                    \/ /\ registry = NoEntry /\ newProgressObservable("Queued")
                       /\ registry' = Len(stage) + 1 /\ ~RegistryLocked
<1>1. jobs \in Seq(JobTypes) /\ jobs[j] \in JobTypes /\ registry \in Nat /\ Len(stage) \in Nat
  BY DEF Types, NoEntry
<1>2. jobs[j].kind \in JobKinds /\ jobs[j].tracker \in Nat /\ jobs[j].saves \in Stages \ {"Queued"}
  BY <1>1 DEF JobTypes
<1>3. CASE jobs[j].pc = "begin" /\ registry = NoEntry
  <2> DEFINE r == [jobs[j] EXCEPT !.pc = "create"]
  <2>1. jobs' = [jobs EXCEPT ![j] = r] /\ UNCHANGED <<registry, observables>>
    BY <1>3 DEF GetOrCreate
  <2>2. r \in JobTypes /\ r.kind = jobs[j].kind /\ r.pc = "create" /\ r.tracker = jobs[j].tracker
        /\ r.saves = jobs[j].saves
    BY <1>1 DEF JobTypes
  <2> HIDE DEF r
  <2> QED
    BY <1>1, <1>3, <2>1, <2>2, Replaced DEF OneJob
<1>4. ASSUME jobs' = [jobs EXCEPT ![j].tracker = registry', ![j].pc = "save"], registry' \in Nat,
             jobs[j].pc \in {"begin", "create"}
      PROVE  /\ OneJob(j) /\ jobs'[j].saves = jobs[j].saves
             /\ jobs'[j].pc = "save" /\ jobs'[j].tracker = registry'
  <2> DEFINE r == [[jobs[j] EXCEPT !.tracker = registry'] EXCEPT !.pc = "save"]
  <2>1. jobs' = [jobs EXCEPT ![j] = r]
    BY <1>1, <1>4
  <2>2. r \in JobTypes /\ r.kind = jobs[j].kind /\ r.pc = "save" /\ r.tracker = registry'
        /\ r.saves = jobs[j].saves
    <3> DEFINE u == [jobs[j] EXCEPT !.tracker = registry']
    <3>1. u \in JobTypes /\ u.kind = jobs[j].kind /\ u.tracker = registry'
          /\ u.saves = jobs[j].saves
      BY <1>1, <1>4 DEF JobTypes
    <3> HIDE DEF u
    <3>2. [u EXCEPT !.pc = "save"] \in JobTypes
      BY <3>1 DEF JobTypes
    <3> QED
      BY <3>1, <3>2 DEF u, JobTypes
  <2> HIDE DEF r
  <2>3. /\ jobs' \in Seq(JobTypes) /\ Len(jobs') = Len(jobs) /\ DOMAIN jobs' = DOMAIN jobs
        /\ jobs'[j] = r /\ \A i \in DOMAIN jobs : i # j => jobs'[i] = jobs[i]
    BY <1>1, <2>1, <2>2, Replaced
  <2> QED
    BY <1>4, <2>2, <2>3 DEF OneJob
<1>5. CASE jobs[j].pc \in {"begin", "create"} /\ registry # NoEntry
  BY <1>1, <1>4, <1>5 DEF GetOrCreate
<1>6. CASE jobs[j].pc = "create" /\ registry = NoEntry
  <2>1. /\ newProgressObservable("Queued") /\ registry' = Len(stage) + 1 /\ ~RegistryLocked
        /\ jobs' = [jobs EXCEPT ![j].tracker = registry', ![j].pc = "save"]
    BY <1>6 DEF GetOrCreate
  <2> QED
    BY <1>1, <1>4, <1>6, <2>1 DEF NoEntry
<1>7. jobs[j].pc \in {"begin", "create"}
  BY DEF GetOrCreate
<1> QED
  BY <1>3, <1>5, <1>6, <1>7

(* When the status is saved, or could not be, the job goes on to set the   *)
(* stage; a check may report without having saved it.                      *)
LEMMA JobSaves ==
    ASSUME Types, NEW j \in DOMAIN jobs, SaveStatus(j)
    PROVE  /\ OneJob(j) /\ jobs[j].pc = "save"
           /\ jobs'[j].saves = jobs[j].saves /\ jobs'[j].tracker = jobs[j].tracker
           /\ \/ jobs'[j].pc = "set" /\ db' = jobs[j].saves /\ lastSaver' = j
              \/ /\ jobs'[j].pc = "unsaved" /\ jobs[j].kind = "update"
                 /\ db' = db /\ lastSaver' = NotSaved
              \/ /\ jobs'[j].pc = "report" /\ jobs[j].kind = "check"
                 /\ db' = db /\ lastSaver' = lastSaver
<1>1. jobs \in Seq(JobTypes) /\ jobs[j] \in JobTypes
  BY DEF Types
<1>2. ASSUME NEW p \in {"set", "unsaved", "report"}, jobs' = [jobs EXCEPT ![j].pc = p], jobs[j].pc = "save"
      PROVE  OneJob(j) /\ jobs'[j].pc = p /\ jobs'[j].saves = jobs[j].saves
             /\ jobs'[j].tracker = jobs[j].tracker
  <2> DEFINE r == [jobs[j] EXCEPT !.pc = p]
  <2>1. jobs' = [jobs EXCEPT ![j] = r]
    BY <1>2
  <2>2. r \in JobTypes /\ r.kind = jobs[j].kind /\ r.pc = p /\ r.tracker = jobs[j].tracker
        /\ r.saves = jobs[j].saves
    BY <1>1 DEF JobTypes
  <2> HIDE DEF r
  <2> QED
    BY <1>1, <1>2, <2>1, <2>2, Replaced DEF OneJob
<1> QED
  BY <1>2 DEF SaveStatus

(* After a stage is set, the job reports, or has its last status to save.  *)
LEMMA JobSets ==
    ASSUME Types, NEW j \in DOMAIN jobs, SetNewStage(j)
    PROVE  /\ OneJob(j) /\ jobs[j].pc \in {"set", "unsaved"}
           /\ jobs'[j].tracker = jobs[j].tracker
           /\ \/ /\ jobs'[j].pc = "report" /\ jobs'[j].saves = jobs[j].saves
              \/ /\ jobs'[j].pc = "save" /\ jobs'[j].saves # "Progressing"
<1>1. jobs \in Seq(JobTypes) /\ jobs[j] \in JobTypes /\ jobs[j].pc \in {"set", "unsaved"}
  BY DEF Types, SetNewStage
<1>2. CASE jobs' = [jobs EXCEPT ![j].pc = "report"]
  <2> DEFINE r == [jobs[j] EXCEPT !.pc = "report"]
  <2>1. jobs' = [jobs EXCEPT ![j] = r]
    BY <1>2
  <2>2. r \in JobTypes /\ r.kind = jobs[j].kind /\ r.pc = "report" /\ r.tracker = jobs[j].tracker
        /\ r.saves = jobs[j].saves
    BY <1>1 DEF JobTypes
  <2> HIDE DEF r
  <2> QED
    BY <1>1, <2>1, <2>2, Replaced DEF OneJob
<1>3. CASE \E s \in Outcomes : jobs' = [jobs EXCEPT ![j].saves = s, ![j].pc = "save"]
  <2>1. PICK s \in Outcomes : jobs' = [jobs EXCEPT ![j].saves = s, ![j].pc = "save"]
    BY <1>3
  <2> DEFINE r == [[jobs[j] EXCEPT !.saves = s] EXCEPT !.pc = "save"]
  <2>2. jobs' = [jobs EXCEPT ![j] = r]
    BY <1>1, <2>1
  <2>3. r \in JobTypes /\ r.kind = jobs[j].kind /\ r.pc = "save" /\ r.tracker = jobs[j].tracker
        /\ r.saves # "Progressing"
    BY <1>1, <2>1 DEF JobTypes, Outcomes, Stages
  <2> HIDE DEF r
  <2> QED
    BY <1>1, <2>2, <2>3, Replaced DEF OneJob
<1> QED
  BY <1>2, <1>3 DEF SetNewStage, NextStage, Outcomes

(* A job that has reported is over.                                        *)
LEMMA JobEnds ==
    ASSUME Types, NEW j \in DOMAIN jobs, runNext(j)
    PROVE  /\ OneJob(j) /\ jobs[j].pc = "report" /\ jobs'[j].tracker = jobs[j].tracker
           /\ jobs'[j].pc = "over" /\ jobs'[j].saves = jobs[j].saves
           /\ removing = "no" /\ removing' \in {"no", "check"} /\ current' = 0
<1>1. jobs \in Seq(JobTypes) /\ jobs[j] \in JobTypes /\ jobs[j].pc = "report"
  BY DEF Types, runNext
<1> DEFINE r == [jobs[j] EXCEPT !.pc = "over"]
<1>2. jobs' = [jobs EXCEPT ![j] = r]
  BY DEF runNext
<1>3. r \in JobTypes /\ r.kind = jobs[j].kind /\ r.pc = "over" /\ r.tracker = jobs[j].tracker
      /\ r.saves = jobs[j].saves
  BY <1>1 DEF JobTypes
<1> HIDE DEF r
<1>4. removing = "no" /\ removing' \in {"no", "check"} /\ current' = 0
  BY DEF runNext, deleteProcess
<1> QED
  BY <1>1, <1>2, <1>3, <1>4, Replaced DEF OneJob

(* The job that follows is behind the others, its predecessor is over.     *)
LEMMA JobFollows ==
    ASSUME Types, NEW j \in DOMAIN jobs, Follow(j)
    PROVE  /\ jobs' \in Seq(JobTypes) /\ DOMAIN jobs' = DOMAIN jobs \cup {Len(jobs) + 1}
           /\ Len(jobs') = Len(jobs) + 1
           /\ \A i \in DOMAIN jobs : i # Len(jobs) + 1 /\ (i # j => jobs'[i] = jobs[i])
           /\ jobs[j].pc = "report" /\ jobs'[j].pc = "over" /\ jobs'[j].kind = jobs[j].kind
           /\ jobs'[j].tracker = jobs[j].tracker
           /\ \E k \in JobKinds : jobs'[Len(jobs) + 1] = NewJob(k)
<1>1. jobs \in Seq(JobTypes) /\ jobs[j] \in JobTypes /\ jobs[j].pc = "report"
  BY DEF Types, Follow
<1> DEFINE r == [jobs[j] EXCEPT !.pc = "over"]
           s == [jobs EXCEPT ![j] = r]
<1>2. PICK k \in JobKinds : jobs' = Append(s, NewJob(k))
  BY DEF Follow
<1>3. r \in JobTypes /\ r.kind = jobs[j].kind /\ r.pc = "over" /\ r.tracker = jobs[j].tracker
  BY <1>1 DEF JobTypes
<1> HIDE DEF r
<1>4. /\ s \in Seq(JobTypes) /\ Len(s) = Len(jobs) /\ DOMAIN s = DOMAIN jobs /\ s[j] = r
      /\ \A i \in DOMAIN jobs : i # j => s[i] = jobs[i]
  BY <1>1, <1>3, Replaced
<1> HIDE DEF s
<1> DEFINE x == NewJob(k)
<1>5. /\ jobs' \in Seq(JobTypes) /\ Len(jobs') = Len(s) + 1 /\ jobs'[Len(s) + 1] = x
      /\ DOMAIN jobs' = DOMAIN s \cup {Len(s) + 1}
      /\ \A i \in DOMAIN s : jobs'[i] = s[i] /\ i # Len(s) + 1
  <2>1. s \in Seq(JobTypes) /\ x \in JobTypes /\ jobs' = Append(s, x)
    BY <1>2, <1>4, NewJobs
  <2> HIDE DEF x
  <2> QED
    BY <2>1, Appended
<1>6. Len(jobs') = Len(jobs) + 1 /\ DOMAIN jobs' = DOMAIN jobs \cup {Len(jobs) + 1}
      /\ jobs'[Len(jobs) + 1] = NewJob(k)
  BY <1>4, <1>5
<1>7. \A i \in DOMAIN jobs : i # Len(jobs) + 1 /\ jobs'[i] = s[i]
  BY <1>4, <1>5
<1> QED
  BY <1>1, <1>3, <1>4, <1>5, <1>6, <1>7

-----------------------------------------------------------------------------
(* What the steps of a client do to it.                                    *)

(* The others stay as they are.                                            *)
OneClient(c) ==
    /\ client' \in [Subscribers -> ClientTypes]
    /\ \A d \in Subscribers : d # c => client'[d] = client[d]

(* A client moves on, and may keep or change what it holds.                *)
LEMMA ClientMoves ==
    ASSUME Types, NEW c \in Subscribers, NEW r \in ClientTypes, client' = [client EXCEPT ![c] = r]
    PROVE  OneClient(c) /\ client'[c] = r
BY DEF Types, OneClient

(* A client that goes on keeps what it got.                                *)
LEMMA ClientGoesTo ==
    ASSUME Types, NEW c \in Subscribers,
           NEW p \in {"away", "asked", "locked", "create", "add", "listen", "busy", "leave", "gone"},
           client' = [client EXCEPT ![c].pc = p]
    PROVE  OneClient(c) /\ client'[c].pc = p /\ client'[c].po = client[c].po
           /\ client'[c].read = client[c].read
<1>1. client[c] \in ClientTypes /\ client \in [Subscribers -> ClientTypes]
  BY DEF Types
<1> DEFINE r == [client[c] EXCEPT !.pc = p]
<1>2. r \in ClientTypes /\ r.pc = p /\ r.po = client[c].po /\ r.read = client[c].read
  BY <1>1 DEF ClientTypes
<1>3. client' = [client EXCEPT ![c] = r]
  OBVIOUS
<1> HIDE DEF r
<1> QED
  BY <1>1, <1>2, <1>3, ClientMoves

(* A client takes an entry.                                                *)
LEMMA ClientTakes ==
    ASSUME Types, NEW c \in Subscribers, NEW p \in {"add", "leave", "gone"}, NEW o \in Nat,
           client' = [client EXCEPT ![c].po = o, ![c].pc = p]
    PROVE  OneClient(c) /\ client'[c].pc = p /\ client'[c].po = o
           /\ client'[c].read = client[c].read
<1>1. client[c] \in ClientTypes /\ client \in [Subscribers -> ClientTypes]
  BY DEF Types
<1> DEFINE u == [client[c] EXCEPT !.po = o]
           r == [u EXCEPT !.pc = p]
<1>2. u \in ClientTypes /\ u.po = o /\ u.read = client[c].read
  BY <1>1 DEF ClientTypes
<1>3. client' = [client EXCEPT ![c] = r]
  BY <1>1
<1> HIDE DEF u
<1>4. r \in ClientTypes /\ r.pc = p /\ r.po = o /\ r.read = client[c].read
  BY <1>2 DEF ClientTypes
<1> HIDE DEF r
<1> QED
  BY <1>1, <1>3, <1>4, ClientMoves

(* What GetOrCreateStateful does to the client.                            *)
LEMMA ClientGets ==
    ASSUME Types, NEW c \in Subscribers, GetOrCreateStateful(c)
    PROVE  /\ OneClient(c)
           /\ \/ /\ client[c].pc = "asked" /\ ~RegistryLocked /\ registry # NoEntry
                 /\ client'[c].pc = "add" /\ client'[c].po = registry
                 /\ registry' = registry /\ UNCHANGED observables
              \/ /\ client[c].pc = "asked" /\ ~RegistryLocked /\ registry = NoEntry
                 /\ client'[c].pc = "locked" /\ client'[c].po = client[c].po
                 /\ registry' = registry /\ UNCHANGED observables
              \/ /\ client[c].pc = "locked" /\ client'[c].pc = "create"
                 /\ client'[c].po = client[c].po /\ client'[c].read = db
                 /\ registry' = registry /\ UNCHANGED observables
              \/ /\ client[c].pc = "create" /\ client'[c].pc = "add"
                 /\ newProgressObservable(client[c].read)
                 /\ registry' = Len(stage) + 1 /\ client'[c].po = registry'
<1>1. client[c] \in ClientTypes /\ client \in [Subscribers -> ClientTypes] /\ registry \in Nat
      /\ Len(stage) \in Nat /\ db \in Stages
  BY DEF Types, NoEntry
<1>2. CASE client[c].pc = "asked"
  BY <1>1, <1>2, ClientTakes, ClientGoesTo DEF GetOrCreateStateful, Go
<1>3. CASE client[c].pc = "locked"
  <2> DEFINE u == [client[c] EXCEPT !.read = db]
             r == [u EXCEPT !.pc = "create"]
  <2>1. u \in ClientTypes /\ u.po = client[c].po /\ u.read = db
    BY <1>1 DEF ClientTypes
  <2>2. client' = [client EXCEPT ![c] = r] /\ UNCHANGED <<registry, observables>>
    BY <1>1, <1>3 DEF GetOrCreateStateful
  <2> HIDE DEF u
  <2>3. r \in ClientTypes /\ r.pc = "create" /\ r.po = client[c].po /\ r.read = db
    BY <2>1 DEF ClientTypes
  <2> HIDE DEF r
  <2> QED
    BY <1>3, <2>2, <2>3, ClientMoves
<1>4. CASE client[c].pc = "create"
  <2>1. /\ newProgressObservable(client[c].read) /\ registry' = Len(stage) + 1
        /\ client' = [client EXCEPT ![c].po = registry', ![c].pc = "add"]
    BY <1>4 DEF GetOrCreateStateful
  <2>2. registry' \in Nat
    BY <1>1, <2>1
  <2> QED
    BY <1>4, <2>1, <2>2, ClientTakes
<1> QED
  BY <1>2, <1>3, <1>4 DEF GetOrCreateStateful

(* The other steps of a client.                                            *)
LEMMA ClientActs ==
    ASSUME Types, NEW c \in Subscribers
    PROVE  /\ Query(c) => OneClient(c) /\ client[c].pc = "away" /\ client'[c].pc = "asked"
                          /\ client'[c].po = client[c].po
           /\ AddObserver(c) => OneClient(c) /\ client[c].pc = "add" /\ client'[c].pc = "listen"
                                /\ client'[c].po = client[c].po
           /\ Show(c) => OneClient(c) /\ client[c].pc = "busy" /\ client'[c].pc = "listen"
                         /\ client'[c].po = client[c].po
           /\ Leave(c) => OneClient(c) /\ client[c].pc \in {"listen", "busy"}
                          /\ client'[c].pc = "leave" /\ client'[c].po = registry
           /\ RemoveObserver(c) => OneClient(c) /\ client[c].pc = "leave"
                                   /\ client'[c].pc = "gone" /\ client'[c].po = NoEntry
<1>1. registry \in Nat /\ NoEntry \in Nat
  BY DEF Types, NoEntry
<1>2. Query(c) => OneClient(c) /\ client[c].pc = "away" /\ client'[c].pc = "asked"
                  /\ client'[c].po = client[c].po
  BY ClientGoesTo DEF Query, Go
<1>3. AddObserver(c) => OneClient(c) /\ client[c].pc = "add" /\ client'[c].pc = "listen"
                        /\ client'[c].po = client[c].po
  BY ClientGoesTo DEF AddObserver, Go
<1>4. Show(c) => OneClient(c) /\ client[c].pc = "busy" /\ client'[c].pc = "listen"
                 /\ client'[c].po = client[c].po
  BY ClientGoesTo DEF Show, Go
<1>5. Leave(c) => OneClient(c) /\ client[c].pc \in {"listen", "busy"}
                  /\ client'[c].pc = "leave" /\ client'[c].po = registry
  BY <1>1, ClientTakes DEF Leave
<1>6. RemoveObserver(c) => OneClient(c) /\ client[c].pc = "leave"
                           /\ client'[c].pc = "gone" /\ client'[c].po = NoEntry
  <2> SUFFICES ASSUME RemoveObserver(c)
               PROVE  OneClient(c) /\ client[c].pc = "leave"
                      /\ client'[c].pc = "gone" /\ client'[c].po = NoEntry
    OBVIOUS
  <2>1. client[c].pc = "leave" /\ client' = [client EXCEPT ![c].pc = "gone", ![c].po = NoEntry]
    BY Zenon DEF RemoveObserver
  <2>2. [client EXCEPT ![c].pc = "gone", ![c].po = NoEntry]
          = [client EXCEPT ![c].po = NoEntry, ![c].pc = "gone"]
    BY DEF Types, ClientTypes
  <2> QED
    BY <1>1, <2>1, <2>2, ClientTakes
<1> QED
  BY <1>2, <1>3, <1>4, <1>5, <1>6

(* A notification is received by a client that waits for it.               *)
LEMMA ClientTold ==
    ASSUME Types, ListInv, NoteInv, NEW n \in DOMAIN notifiers, NotifyNext(n)
    PROVE  \E c \in Subscribers \cup {Nil} :
             /\ c = arrays[notifiers[n].o][notifiers[n].in][notifiers[n].next]
             /\ \/ /\ c \in Subscribers /\ client[c].pc = "listen" /\ missed' = missed
                   /\ OneClient(c) /\ client'[c].pc = "busy" /\ client'[c].po = client[c].po
                \/ /\ c = Nil \/ client[c].pc # "listen"
                   /\ missed' = missed \cup ({c} \ {Nil}) /\ client' = client
<1> DEFINE me == notifiers[n]
           S == Subscribers \cup {Nil}
           a == arrays[me.o]
           c == a[me.in][me.next]
<1>1. me.o \in DOMAIN arrays /\ arrays \in Seq(Seq(Seq(S)))
  BY DEF NoteInv, ListInv
<1>2. a \in Seq(Seq(S))
  <2> HIDE DEF S, me
  <2> QED
    BY <1>1
<1>3. me.in \in DOMAIN a /\ me.next \in DOMAIN a[me.in]
  <2>1. me.in \in DOMAIN a /\ me.len \in 1 .. Len(a[me.in]) /\ me.next \in 1 .. me.len
    BY DEF NotifyNext, NoteInv
  <2>2. a[me.in] \in Seq(S)
    <3> HIDE DEF a, me, S
    <3> QED
      BY <1>2, <2>1
  <2> HIDE DEF a, me
  <2> QED
    BY <2>1, <2>2
<1>4. c \in S
  <2> HIDE DEF a, me, S
  <2>1. a[me.in] \in Seq(S)
    BY <1>2, <1>3
  <2> DEFINE b == a[me.in]
             p == me.next
  <2>2. b \in Seq(S) /\ p \in DOMAIN b
    BY <1>3, <2>1
  <2> HIDE DEF b, p
  <2>3. b[p] \in S
    BY <2>2
  <2> QED
    BY <2>3 DEF b, p
<1>5. IF c # Nil /\ client[c].pc = "listen"
        THEN client' = [client EXCEPT ![c].pc = "busy"] /\ missed' = missed
        ELSE missed' = missed \cup ({c} \ {Nil}) /\ client' = client
  BY DEF NotifyNext
<1> HIDE DEF c
<1>6. CASE c # Nil /\ client[c].pc = "listen"
  <2>1. c \in Subscribers /\ client' = [client EXCEPT ![c].pc = "busy"]
    BY <1>4, <1>5, <1>6
  <2>2. OneClient(c) /\ client'[c].pc = "busy" /\ client'[c].po = client[c].po
    BY <2>1, ClientGoesTo
  <2> QED
    BY <1>4, <1>5, <1>6, <2>1, <2>2 DEF c
<1>7. CASE ~(c # Nil /\ client[c].pc = "listen")
  BY <1>4, <1>5, <1>7 DEF c
<1> QED
  BY <1>6, <1>7

-----------------------------------------------------------------------------
(* The variables keep what they hold.                                      *)

(* A client's step keeps the types when its entry is one of the registry.  *)
LEMMA ClientTyped ==
    ASSUME Types, NEW c \in Subscribers, OneClient(c),
           Len(stage') \in Nat, Len(stage) <= Len(stage'), client'[c].po <= Len(stage')
    PROVE  client' \in [Subscribers -> ClientTypes] /\ \A d \in Subscribers : client'[d].po <= Len(stage')
<1>1. stage \in Seq(Stages) /\ client \in [Subscribers -> ClientTypes]
  BY DEF Types
<1>2. Len(stage) \in Nat
  BY <1>1
<1>3. ASSUME NEW d \in Subscribers PROVE client'[d].po <= Len(stage')
  <2>1. CASE d = c
    BY <2>1
  <2>2. CASE d # c
    <3>1. client'[d] = client[d] /\ client[d] \in ClientTypes /\ client[d].po <= Len(stage)
      BY <1>1, <2>2 DEF OneClient, Types
    <3>2. client[d].po \in Nat
      BY <3>1 DEF ClientTypes
    <3> QED
      BY <1>2, <3>1, <3>2
  <2> QED
    BY <2>1, <2>2
<1> QED
  BY <1>3 DEF OneClient

(* A job that takes a tracker keeps its type.                              *)
LEMMA JobTyped ==
    ASSUME Types, NEW j \in DOMAIN jobs, OneJob(j),
           Len(stage') \in Nat, Len(stage) <= Len(stage'), jobs'[j].tracker <= Len(stage')
    PROVE  jobs' \in Seq(JobTypes) /\ Len(jobs') = Len(jobs)
           /\ \A i \in DOMAIN jobs' : jobs'[i].tracker <= Len(stage')
<1>1. stage \in Seq(Stages) /\ jobs \in Seq(JobTypes)
  BY DEF Types
<1>2. Len(stage) \in Nat
  BY <1>1
<1>3. ASSUME NEW i \in DOMAIN jobs PROVE jobs'[i].tracker <= Len(stage')
  <2>1. CASE i = j
    BY <2>1
  <2>2. CASE i # j
    <3>1. jobs'[i] = jobs[i] /\ jobs[i] \in JobTypes /\ jobs[i].tracker <= Len(stage)
      BY <1>1, <2>2 DEF OneJob, Types
    <3>2. jobs[i].tracker \in Nat
      BY <3>1 DEF JobTypes
    <3> QED
      BY <1>2, <3>1, <3>2
  <2> QED
    BY <2>1, <2>2
<1> QED
  BY <1>3 DEF OneJob

(* A new job has its type.                                                 *)
LEMMA StartTyped ==
    ASSUME IInv, NEW k \in JobKinds, Start(k)
    PROVE  Types'
<1>1. Types /\ jobs \in Seq(JobTypes) /\ Len(jobs) \in Nat /\ Len(stage) \in Nat
  BY DEF IInv, Types
<1>2. UNCHANGED <<db, registry, removing, observables, notifiers, client, shown, ticks,
                   lastSaver, missed, late>> /\ jobs' = Append(jobs, NewJob(k))
      /\ current' = Len(jobs) + 1
  BY DEF Start
<1>3. /\ jobs' \in Seq(JobTypes) /\ Len(jobs') = Len(jobs) + 1 /\ jobs'[Len(jobs) + 1] = NewJob(k)
      /\ DOMAIN jobs' = DOMAIN jobs \cup {Len(jobs) + 1}
      /\ \A i \in DOMAIN jobs : jobs'[i] = jobs[i]
  <2> DEFINE x == NewJob(k)
  <2>1. x \in JobTypes /\ jobs' = Append(jobs, x)
    BY <1>2, NewJobs
  <2> HIDE DEF x
  <2>2. /\ jobs' \in Seq(JobTypes) /\ Len(jobs') = Len(jobs) + 1 /\ jobs'[Len(jobs) + 1] = x
        /\ DOMAIN jobs' = DOMAIN jobs \cup {Len(jobs) + 1}
        /\ \A i \in DOMAIN jobs : jobs'[i] = jobs[i]
    BY <1>1, <2>1, Appended
  <2> QED
    BY <2>2 DEF x
<1>4. \A i \in DOMAIN jobs' : jobs'[i].tracker <= Len(stage)
  <2>1. jobs'[Len(jobs) + 1].tracker = 0
    BY <1>3, NewJobs DEF NoEntry
  <2>2. \A i \in DOMAIN jobs : jobs'[i].tracker <= Len(stage)
    BY <1>1, <1>3 DEF Types
  <2> QED
    BY <1>1, <1>3, <2>1, <2>2
<1> QED
  BY <1>1, <1>2, <1>3, <1>4 DEF Types, observables

(* The steps of a job keep the types.                                      *)
LEMMA ProcessTyped ==
    ASSUME IInv, NEW j \in DOMAIN jobs,
           GetOrCreate(j) \/ SaveStatus(j) \/ SetNewStage(j) \/ runNext(j) \/ Follow(j)
    PROVE  Types'
<1>1. Types /\ ListInv /\ jobs \in Seq(JobTypes) /\ Len(jobs) \in Nat /\ Len(stage) \in Nat
      /\ jobs[j] \in JobTypes /\ jobs[j].tracker <= Len(stage) /\ jobs[j].tracker \in Nat
      /\ j \in 1 .. Len(jobs) /\ jobs[j].saves \in Stages
  <2>1. Types /\ ListInv /\ jobs \in Seq(JobTypes) /\ Len(jobs) \in Nat /\ Len(stage) \in Nat
        /\ jobs[j] \in JobTypes /\ jobs[j].tracker <= Len(stage) /\ j \in 1 .. Len(jobs)
    BY DEF IInv, Types
  <2>2. jobs[j].tracker \in Nat /\ jobs[j].saves \in Stages
    BY <2>1 DEF JobTypes
  <2> QED
    BY <2>1, <2>2
<1>2. CASE GetOrCreate(j)
  <2>1. /\ OneJob(j)
        /\ \/ /\ jobs'[j].tracker = jobs[j].tracker /\ registry' = registry /\ UNCHANGED observables
           \/ /\ jobs'[j].tracker = registry'
              /\ \/ registry' = registry /\ UNCHANGED observables
                 \/ newProgressObservable("Queued") /\ registry' = Len(stage) + 1
    BY <1>1, <1>2, JobCreates
  <2>2. \/ stage' = stage /\ registry' = registry
        \/ stage' \in Seq(Stages) /\ Len(stage') = Len(stage) + 1 /\ registry' = Len(stage')
    <3>1. "Queued" \in Stages
      BY DEF Stages
    <3> QED
      BY <1>1, <2>1, <3>1, NewEntry DEF observables
  <2>3. stage' \in Seq(Stages) /\ Len(stage') \in Nat /\ Len(stage) <= Len(stage')
        /\ registry' \in {NoEntry, Len(stage')} /\ jobs'[j].tracker <= Len(stage')
    BY <1>1, <2>1, <2>2 DEF Types, NoEntry
  <2>4. jobs' \in Seq(JobTypes) /\ Len(jobs') = Len(jobs)
        /\ \A i \in DOMAIN jobs' : jobs'[i].tracker <= Len(stage')
    BY <1>1, <2>1, <2>3, JobTyped
  <2>5. UNCHANGED <<db, removing, notifiers, current, client, shown, ticks, lastSaver,
                   detached, missed, late>>
    BY <1>2 DEF GetOrCreate
  <2>6. \A c \in Subscribers : client[c].po <= Len(stage')
    BY <1>1, <2>3 DEF Types, ClientTypes
  <2> QED
    BY <1>1, <2>3, <2>4, <2>5, <2>6 DEF Types
<1>3. CASE SaveStatus(j)
  <2>1. OneJob(j) /\ jobs'[j].tracker = jobs[j].tracker
        /\ db' \in Stages /\ lastSaver' \in {NotSaved} \cup 0 .. Len(jobs)
    BY <1>1, <1>3, JobSaves DEF Types
  <2>2. UNCHANGED <<registry, removing, observables, current, client, shown, missed>>
    BY <1>3 DEF SaveStatus
  <2>3. jobs' \in Seq(JobTypes) /\ Len(jobs') = Len(jobs)
        /\ \A i \in DOMAIN jobs' : jobs'[i].tracker <= Len(stage)
    BY <1>1, <2>1, <2>2, JobTyped DEF observables
  <2> QED
    BY <1>1, <2>1, <2>2, <2>3 DEF Types, observables
<1>4. CASE SetNewStage(j)
  <2>1. OneJob(j) /\ jobs'[j].tracker = jobs[j].tracker
    BY <1>1, <1>4, JobSets
  <2>2. UNCHANGED <<db, registry, removing, current, client, shown, lastSaver, missed>>
        /\ stage' \in {stage, [stage EXCEPT ![jobs[j].tracker] = jobs[j].saves]}
    BY <1>4 DEF SetNewStage
  <2>3. stage' \in Seq(Stages) /\ Len(stage') = Len(stage)
    BY <1>1, <2>2 DEF Types
  <2>4. jobs' \in Seq(JobTypes) /\ Len(jobs') = Len(jobs)
        /\ \A i \in DOMAIN jobs' : jobs'[i].tracker <= Len(stage')
    BY <1>1, <2>1, <2>3, JobTyped
  <2> QED
    BY <1>1, <2>2, <2>3, <2>4 DEF Types
<1>5. CASE runNext(j)
  <2>1. OneJob(j) /\ jobs'[j].tracker = jobs[j].tracker /\ removing' \in {"no", "check"}
        /\ current' = 0
    BY <1>1, <1>5, JobEnds
  <2>2. UNCHANGED <<db, registry, observables, client, shown, lastSaver, missed>>
    BY <1>5 DEF runNext
  <2>3. jobs' \in Seq(JobTypes) /\ Len(jobs') = Len(jobs)
        /\ \A i \in DOMAIN jobs' : jobs'[i].tracker <= Len(stage)
    BY <1>1, <2>1, <2>2, JobTyped DEF observables
  <2> QED
    BY <1>1, <2>1, <2>2, <2>3 DEF Types, observables
<1>6. CASE Follow(j)
  <2>1. /\ jobs' \in Seq(JobTypes) /\ DOMAIN jobs' = DOMAIN jobs \cup {Len(jobs) + 1}
        /\ Len(jobs') = Len(jobs) + 1
        /\ \A i \in DOMAIN jobs : i # Len(jobs) + 1 /\ (i # j => jobs'[i] = jobs[i])
        /\ jobs'[j].tracker = jobs[j].tracker
        /\ \E k \in JobKinds : jobs'[Len(jobs) + 1] = NewJob(k)
    BY <1>1, <1>6, JobFollows
  <2>2. UNCHANGED <<db, registry, removing, observables, client, shown, lastSaver, missed>>
        /\ current' = Len(jobs) + 1
    BY <1>6 DEF Follow
  <2>3. \A i \in DOMAIN jobs' : jobs'[i].tracker <= Len(stage)
    <3>1. PICK k \in JobKinds : jobs'[Len(jobs) + 1] = NewJob(k)
      BY <2>1
    <3>2. jobs'[Len(jobs) + 1].tracker = 0
      BY <3>1, NewJobs DEF NoEntry
    <3>3. \A i \in DOMAIN jobs : jobs'[i].tracker <= Len(stage)
      BY <1>1, <2>1 DEF Types
    <3> QED
      BY <1>1, <2>1, <3>2, <3>3
  <2> QED
    BY <1>1, <2>1, <2>2, <2>3 DEF Types, observables
<1> QED
  BY <1>2, <1>3, <1>4, <1>5, <1>6

(* The steps of a client keep the types.                                   *)
LEMMA ClientStepTyped ==
    ASSUME IInv, NEW c \in Subscribers,
           Query(c) \/ GetOrCreateStateful(c) \/ AddObserver(c) \/ Show(c)
             \/ Leave(c) \/ RemoveObserver(c)
    PROVE  Types'
<1>1. Types /\ ListInv /\ Len(stage) \in Nat /\ registry \in Nat /\ registry <= Len(stage)
      /\ client[c].po <= Len(stage) /\ client[c].read \in Stages /\ client[c] \in ClientTypes
  BY DEF IInv, Types, ClientTypes, NoEntry
<1>2. CASE GetOrCreateStateful(c)
  <2>1. UNCHANGED <<db, removing, notifiers, jobs, current, shown, ticks, lastSaver,
                    detached, missed, late>>
    BY <1>2 DEF GetOrCreateStateful
  <2>2. OneClient(c) /\
        \/ client'[c].po = registry /\ registry' = registry /\ UNCHANGED observables
        \/ client'[c].po = client[c].po /\ registry' = registry /\ UNCHANGED observables
        \/ newProgressObservable(client[c].read) /\ registry' = Len(stage) + 1
           /\ client'[c].po = registry'
    BY <1>1, <1>2, ClientGets
  <2>3. \/ stage' = stage /\ registry' = registry
        \/ stage' \in Seq(Stages) /\ Len(stage') = Len(stage) + 1 /\ registry' = Len(stage')
    BY <1>1, <2>2, NewEntry DEF observables
  <2>4. stage' \in Seq(Stages) /\ Len(stage') \in Nat /\ Len(stage) <= Len(stage')
        /\ registry' \in {NoEntry, Len(stage')} /\ client'[c].po <= Len(stage')
    BY <1>1, <2>2, <2>3 DEF Types, NoEntry
  <2>5. client' \in [Subscribers -> ClientTypes] /\ \A d \in Subscribers : client'[d].po <= Len(stage')
    BY <1>1, <2>2, <2>4, ClientTyped
  <2>6. \A j \in DOMAIN jobs : jobs[j].tracker <= Len(stage')
    <3> SUFFICES ASSUME NEW j \in DOMAIN jobs PROVE jobs[j].tracker <= Len(stage')
      OBVIOUS
    <3>1. jobs[j] \in JobTypes /\ jobs[j].tracker <= Len(stage)
      BY <1>1 DEF Types
    <3> QED
      BY <1>1, <2>4, <3>1 DEF JobTypes
  <2> QED
    BY <1>1, <2>1, <2>4, <2>5, <2>6 DEF Types
<1>3. CASE Query(c) \/ AddObserver(c) \/ Show(c) \/ Leave(c) \/ RemoveObserver(c)
  <2>1. OneClient(c) /\ client'[c].po \in {client[c].po, registry, NoEntry}
    BY <1>1, <1>3, ClientActs
  <2>2. stage' = stage
    BY <1>3 DEF Query, AddObserver, Show, Leave, RemoveObserver, observables
  <2>3. UNCHANGED <<db, registry, removing, jobs, current, lastSaver>>
    BY <1>3 DEF Query, AddObserver, Show, Leave, RemoveObserver
  <2>4. shown' \in [Subscribers -> Stages]
    <3>1. shown' = shown \/ \E x \in Stages : shown' = [shown EXCEPT ![c] = x]
      <4>1. CASE Show(c)
        <5>1. client[c].po \in DOMAIN stage
          <6>1. client[c].po # NoEntry
            BY <4>1 DEF Show, IInv, MemberInv
          <6> QED
            BY <1>1, <6>1 DEF ClientTypes, NoEntry, Types
        <5>2. stage[client[c].po] \in Stages
          BY <1>1, <5>1 DEF Types
        <5> QED
          BY <4>1, <5>2 DEF Show
      <4>2. CASE Query(c)
        BY <1>1, <4>2 DEF Query, Types
      <4>3. CASE AddObserver(c) \/ Leave(c)
        BY <4>3 DEF AddObserver, Leave
      <4>4. CASE RemoveObserver(c)
        <5>1. shown' = [shown EXCEPT ![c] = "Queued"]
          BY <4>4, Zenon DEF RemoveObserver
        <5> QED
          BY <5>1 DEF Stages
      <4> QED
        BY <1>3, <4>1, <4>2, <4>3, <4>4
    <3> QED
      BY <1>1, <3>1 DEF Types
  <2>5. missed' \subseteq Subscribers
    <3>1. CASE Query(c) \/ AddObserver(c) \/ Show(c) \/ Leave(c)
      BY <1>1, <3>1 DEF Query, AddObserver, Show, Leave, Types
    <3>2. CASE RemoveObserver(c)
      <4>1. CASE client[c].po = NoEntry \/ c \notin Observers(client[c].po)
        BY <1>1, <3>2, <4>1, NotRemoved DEF Types
      <4>2. CASE client[c].po # NoEntry /\ c \in Observers(client[c].po)
        <5> DEFINE o == client[c].po
        <5>1. o \in DOMAIN slice /\ \E i \in 1 .. slice[o] : missed' = (missed \cup Skipped(o, i)) \ {c}
          BY <1>1, <3>2, <4>2, Removed
        <5>2. \A i \in 1 .. slice[o] : Skipped(o, i) \subseteq Subscribers
          <6> SUFFICES ASSUME NEW i \in 1 .. slice[o] PROVE Skipped(o, i) \subseteq Subscribers
            OBVIOUS
          <6>1. slice[o] \in Nat /\ \A x \in 1 .. slice[o] : array(o)[x] \in Subscribers
            BY <1>1, <5>1 DEF ListInv
          <6> HIDE DEF o
          <6>2. slice[o] \in 1 .. slice[o]
            BY <6>1
          <6>3. array(o)[slice[o]] \in Subscribers
            BY <6>1, <6>2
          <6> QED
            BY <6>3 DEF Skipped
        <5> QED
          BY <1>1, <5>1, <5>2 DEF Types
      <4> QED
        BY <4>1, <4>2
    <3> QED
      BY <1>3, <3>1, <3>2
  <2>6. client'[c].po <= Len(stage)
    BY <1>1, <2>1 DEF NoEntry
  <2>7. client' \in [Subscribers -> ClientTypes] /\ \A d \in Subscribers : client'[d].po <= Len(stage')
    BY <1>1, <2>1, <2>2, <2>6, ClientTyped
  <2> QED
    BY <1>1, <2>2, <2>3, <2>4, <2>5, <2>7 DEF Types
<1> QED
  BY <1>2, <1>3

(* Every step keeps the types.                                             *)
LEMMA TypesStep ==
    ASSUME IInv, [ProgressNext]_progress
    PROVE  Types'
<1>1. Types /\ ListInv /\ NoteInv /\ stage \in Seq(Stages) /\ Len(stage) \in Nat
  BY DEF IInv, Types
<1>2. ASSUME NEW k \in JobKinds, Start(k) PROVE Types'
  BY <1>2, StartTyped
<1>3. CASE ProcessStep
  BY <1>3, ProcessTyped DEF ProcessStep
<1>4. CASE StopRepository
  BY <1>1, <1>4 DEF StopRepository, Types, observables
<1>5. CASE RemoveEmpty
  BY <1>1, <1>5 DEF RemoveEmpty, Types, observables
<1>6. ASSUME NEW j \in DOMAIN jobs, IncreaseProgress(j) PROVE Types'
  BY <1>1, <1>6 DEF IncreaseProgress, Types, observables
<1>7. ASSUME NEW n \in DOMAIN notifiers, BeginNotify(n) PROVE Types'
  <2>1. UNCHANGED <<db, registry, removing, observables, jobs, current, client, shown,
                       ticks, lastSaver, detached, late>>
        /\ missed' = missed \cup NotListed(notifiers[n].o)
    BY <1>7 DEF BeginNotify
  <2>2. missed' \subseteq Subscribers
    BY <1>1, <2>1 DEF Types, NotListed
  <2> QED
    BY <1>1, <2>1, <2>2 DEF Types, observables
<1>8. ASSUME NEW n \in DOMAIN notifiers, NotifyNext(n) PROVE Types'
  <2>1. UNCHANGED <<db, registry, removing, observables, jobs, current, shown,
                       ticks, lastSaver, detached, late>>
    BY <1>8 DEF NotifyNext
  <2>2. PICK c \in Subscribers \cup {Nil} :
             \/ /\ c \in Subscribers /\ missed' = missed
                /\ OneClient(c) /\ client'[c].po = client[c].po
             \/ missed' = missed \cup ({c} \ {Nil}) /\ client' = client
    BY <1>1, <1>8, ClientTold
  <2>3. missed' \subseteq Subscribers
    BY <1>1, <2>2 DEF Types
  <2>4. client' \in [Subscribers -> ClientTypes] /\ \A d \in Subscribers : client'[d].po <= Len(stage)
    <3>1. CASE c \in Subscribers /\ OneClient(c) /\ client'[c].po = client[c].po
      <4>1. client'[c].po <= Len(stage') /\ Len(stage') = Len(stage)
        BY <1>1, <2>1, <3>1 DEF Types, observables
      <4> QED
        BY <1>1, <3>1, <4>1, ClientTyped
    <3>2. CASE client' = client
      BY <1>1, <3>2 DEF Types
    <3> QED
      BY <2>2, <3>1, <3>2
  <2> QED
    BY <1>1, <2>1, <2>3, <2>4 DEF Types, observables
<1>9. ASSUME NEW c \in Subscribers,
             Query(c) \/ GetOrCreateStateful(c) \/ AddObserver(c) \/ Show(c)
               \/ Leave(c) \/ RemoveObserver(c)
      PROVE  Types'
  BY <1>9, ClientStepTyped
<1>10. CASE UNCHANGED progress
  BY <1>1, <1>10 DEF Types, progress, observables
<1> QED
  BY <1>2, <1>3, <1>4, <1>5, <1>6, <1>7, <1>8, <1>9, <1>10 DEF ProgressNext, NotifyStep

-----------------------------------------------------------------------------
(* Who is in which list.                                                   *)

(* The step leaves the lists as they are.                                  *)
Still ==
    /\ slice' = slice /\ arrays' = arrays /\ Len(stage') = Len(stage)
    /\ registry' = registry /\ late' = late

(* The step of a client that neither joins nor leaves.                     *)
Stays(c) ==
    /\ Still /\ removing' = removing
    /\ OneClient(c) /\ client'[c].po = client[c].po
    /\ \/ client[c].pc = "away" /\ client'[c].pc = "asked"
       \/ client[c].pc = "busy" /\ client'[c].pc = "listen"
       \/ client[c].pc = "listen" /\ client'[c].pc = "busy"

(* The steps by what they do to clients and lists.                         *)
LEMMA StepKinds ==
    ASSUME IInv, [ProgressNext]_progress
    PROVE  \/ Still /\ client' = client /\ removing' \in {removing, "no", "check"}
           \/ RemoveEmpty
           \/ /\ newProgressObservable("Queued") /\ registry = NoEntry /\ registry' = Len(stage) + 1
              /\ client' = client /\ late' = late /\ removing' = removing /\ ~RegistryLocked
           \/ \E c \in Subscribers :
                 Stays(c) \/ Leave(c) \/ AddObserver(c) \/ RemoveObserver(c) \/ GetOrCreateStateful(c)
<1>1. Types /\ ListInv /\ NoteInv /\ stage \in Seq(Stages) /\ Len(stage) \in Nat
  BY DEF IInv, Types
<1>2. ASSUME NEW k \in JobKinds, Start(k) PROVE Still /\ client' = client /\ removing' = removing
  BY <1>2 DEF Start, Still, observables
<1>3. ASSUME NEW j \in DOMAIN jobs, GetOrCreate(j)
      PROVE  \/ Still /\ client' = client /\ removing' = removing
             \/ /\ newProgressObservable("Queued") /\ registry = NoEntry /\ registry' = Len(stage) + 1
                /\ client' = client /\ late' = late /\ removing' = removing /\ ~RegistryLocked
  <2>1. client' = client /\ late' = late /\ removing' = removing
    BY <1>3 DEF GetOrCreate
  <2>2. \/ registry' = registry /\ UNCHANGED observables
        \/ /\ registry = NoEntry /\ newProgressObservable("Queued")
           /\ registry' = Len(stage) + 1 /\ ~RegistryLocked
    BY <1>1, <1>3, JobCreates
  <2> QED
    BY <2>1, <2>2 DEF Still, observables
<1>4. ASSUME NEW j \in DOMAIN jobs, SaveStatus(j) \/ runNext(j) \/ Follow(j) \/ IncreaseProgress(j)
      PROVE  Still /\ client' = client /\ removing' \in {removing, "no", "check"}
  BY <1>4 DEF SaveStatus, runNext, Follow, IncreaseProgress, deleteProcess, Still, observables
<1>5. ASSUME NEW j \in DOMAIN jobs, SetNewStage(j)
      PROVE  Still /\ client' = client /\ removing' = removing
  <2>1. stage' \in {stage, [stage EXCEPT ![jobs[j].tracker] = jobs[j].saves]}
        /\ UNCHANGED <<registry, removing, slice, arrays, client, late>>
    BY <1>5 DEF SetNewStage
  <2> QED
    BY <1>1, <2>1 DEF Still
<1>6. CASE StopRepository
  BY <1>6 DEF StopRepository, Still, observables
<1>7. ASSUME NEW n \in DOMAIN notifiers, BeginNotify(n)
      PROVE  Still /\ client' = client /\ removing' = removing
  BY <1>7 DEF BeginNotify, Still, observables
<1>8. ASSUME NEW n \in DOMAIN notifiers, NotifyNext(n)
      PROVE  (Still /\ client' = client /\ removing' = removing) \/ \E c \in Subscribers : Stays(c)
  <2>1. Still /\ removing' = removing
    BY <1>8 DEF NotifyNext, Still, observables
  <2>2. PICK c \in Subscribers \cup {Nil} :
           \/ /\ c \in Subscribers /\ client[c].pc = "listen"
              /\ OneClient(c) /\ client'[c].pc = "busy" /\ client'[c].po = client[c].po
           \/ client' = client
    BY <1>1, <1>8, ClientTold
  <2> QED
    BY <2>1, <2>2 DEF Stays
<1>9. ASSUME NEW c \in Subscribers, Query(c) \/ Show(c) PROVE Stays(c)
  <2>1. Still /\ removing' = removing
    BY <1>9 DEF Query, Show, Still, observables
  <2> QED
    BY <1>1, <1>9, <2>1, ClientActs DEF Stays
<1>10. CASE UNCHANGED progress
  BY <1>10 DEF progress, observables, Still
<1>11. CASE ProgressNext
  <2>1. CASE \E k \in JobKinds : Start(k)
    BY <1>2, <2>1
  <2>2. CASE ProcessStep
    BY <1>3, <1>4, <1>5, <2>2 DEF ProcessStep
  <2>3. CASE \E j \in DOMAIN jobs : IncreaseProgress(j)
    BY <1>4, <2>3
  <2>4. CASE NotifyStep
    BY <1>7, <1>8, <2>4 DEF NotifyStep
  <2>5. CASE \E c \in Subscribers :
                \/ Query(c) \/ GetOrCreateStateful(c) \/ AddObserver(c) \/ Show(c)
                \/ Leave(c) \/ RemoveObserver(c)
    BY <1>9, <2>5
  <2> QED
    BY <1>6, <1>11, <2>1, <2>2, <2>3, <2>4, <2>5 DEF ProgressNext
<1> QED
  BY <1>10, <1>11

(* Where the lists stay, so does what is said of them.                     *)
LEMMA SameListInv ==
    ASSUME ListInv, slice' = slice, arrays' = arrays, Len(stage') = Len(stage)
    PROVE  ListInv'
BY DEF ListInv, array

(* Only a client that adds itself is added to a list.                      *)
LEMMA ListStep ==
    ASSUME IInv, [ProgressNext]_progress
    PROVE  ListInv'
<1>1. Types /\ ListInv /\ MemberInv /\ "Queued" \in Stages
  BY DEF IInv, Stages
<1>2. CASE Still
  BY <1>1, <1>2, SameListInv DEF Still
<1>3. CASE RemoveEmpty
  <2>1. slice' = slice /\ arrays' = arrays /\ stage' = stage
    BY <1>3 DEF RemoveEmpty, observables
  <2> QED
    BY <1>1, <2>1, SameListInv
<1>4. CASE newProgressObservable("Queued")
  BY <1>1, <1>4, NewEntry
<1>5. ASSUME NEW c \in Subscribers, AddObserver(c) PROVE ListInv'
  BY <1>1, <1>5, Added
<1>6. ASSUME NEW c \in Subscribers, RemoveObserver(c) PROVE ListInv'
  <2>1. CASE client[c].po = NoEntry \/ c \notin Observers(client[c].po)
    <3>1. slice' = slice /\ arrays' = arrays
      BY <1>6, <2>1, NotRemoved
    <3>2. stage' = stage
      BY <1>6, Zenon DEF RemoveObserver
    <3> QED
      BY <1>1, <3>1, <3>2, SameListInv
  <2>2. CASE client[c].po # NoEntry /\ c \in Observers(client[c].po)
    BY <1>1, <1>6, <2>2, Removed
  <2> QED
    BY <2>1, <2>2
<1>7. ASSUME NEW c \in Subscribers, Leave(c) PROVE Still
  BY <1>7 DEF Leave, Still, observables
<1>8. ASSUME NEW c \in Subscribers, GetOrCreateStateful(c) PROVE ListInv'
  <2>1. Still \/ newProgressObservable(client[c].read)
    <3>1. late' = late
      BY <1>8 DEF GetOrCreateStateful
    <3> QED
      BY <1>1, <1>8, <3>1, ClientGets DEF Still, observables
  <2>2. client[c].read \in Stages
    BY <1>1 DEF Types, ClientTypes
  <2> QED
    BY <1>1, <1>2, <2>1, <2>2, NewEntry
<1> QED
  BY <1>2, <1>3, <1>4, <1>5, <1>6, <1>7, <1>8, StepKinds DEF Stays

(* The entries of a client and of the registry are among the observables.  *)
LEMMA Entries ==
    ASSUME IInv
    PROVE  /\ Len(stage) \in Nat /\ DOMAIN slice = 1 .. Len(stage) /\ registry \in 0 .. Len(stage)
           /\ DOMAIN arrays = 1 .. Len(stage) /\ DOMAIN stage = 1 .. Len(stage)
           /\ \A c \in Subscribers : client[c].po \in 0 .. Len(stage)
           /\ Len(stage) + 1 \notin DOMAIN slice
<1>1. stage \in Seq(Stages) /\ slice \in Seq(Nat) /\ Len(slice) = Len(stage)
      /\ arrays \in Seq(Seq(Seq(Subscribers \cup {Nil}))) /\ Len(arrays) = Len(stage)
      /\ registry \in {NoEntry, Len(stage)} /\ client \in [Subscribers -> ClientTypes]
      /\ \A c \in Subscribers : client[c].po <= Len(stage)
  BY DEF IInv, Types, ListInv
<1>2. \A c \in Subscribers : client[c].po \in Nat
  BY <1>1 DEF ClientTypes
<1> QED
  BY <1>1, <1>2 DEF NoEntry

(* What MemberInv says of a client.                                        *)
Member(c) ==
    /\ client[c].pc \in {"add", "listen", "busy"} => client[c].po # NoEntry
    /\ client[c].pc \in {"listen", "busy"} => c \in Observers(client[c].po)
    /\ \A o \in DOMAIN slice : c \in Observers(o) =>
          \/ client[c].pc \in {"listen", "busy"} /\ client[c].po = o
          \/ client[c].pc = "leave" /\ (client[c].po = o \/ registry # o)
          \/ client[c].pc = "gone" /\ registry # o

(* Who is in a list listens, or has been left in an old one.               *)
LEMMA MemberStep ==
    ASSUME IInv, [ProgressNext]_progress
    PROVE  MemberInv'
<1>1. Types /\ ListInv /\ \A d \in Subscribers : Member(d)
  BY DEF IInv, MemberInv, Member
<1>2. SUFFICES \A d \in Subscribers : Member(d)'
  BY DEF MemberInv, Member
<1>3. ASSUME Still PROVE /\ \A o : Observers(o)' = Observers(o)
                         /\ DOMAIN slice' = DOMAIN slice /\ registry' = registry
  BY <1>3, SameLists DEF Still
<1>4. CASE Still /\ client' = client
  BY <1>1, <1>3, <1>4 DEF Member
<1>5. CASE RemoveEmpty
  <2>1. slice' = slice /\ arrays' = arrays /\ client' = client /\ registry' \in {registry, NoEntry}
    BY <1>5 DEF RemoveEmpty, observables
  <2>2. \A o : Observers(o)' = Observers(o)
    BY <2>1, SameLists
  <2>3. \A o \in DOMAIN slice : registry # o => registry' # o
    BY <2>1, Entries DEF NoEntry
  <2> QED
    BY <1>1, <2>1, <2>2, <2>3 DEF Member
<1>6. ASSUME NEW s \in Stages, newProgressObservable(s), registry' = Len(stage) + 1,
             NEW d \in Subscribers, client'[d].pc = "add" => client'[d].po # NoEntry,
             \/ client'[d].pc = client[d].pc /\ client'[d].po = client[d].po
             \/ client[d].pc = "create" /\ client'[d].pc = "add"
      PROVE  Member(d)'
  <2>1. /\ \A o \in 1 .. Len(stage) : Observers(o)' = Observers(o)
        /\ \A o : o = Len(stage) + 1 => Observers(o)' = {}
        /\ DOMAIN slice' = 1 .. Len(stage) + 1
    <3>1. Len(slice') = Len(stage) + 1
      BY <1>1, <1>6 DEF newProgressObservable, ListInv, Types
    <3>2. slice' \in Seq(Nat)
      BY <1>1, <1>6, NewEntry DEF ListInv
    <3> QED
      BY <1>1, <1>6, <3>1, <3>2, NewEntry
  <2>2. \A o \in 1 .. Len(stage) : registry' # o
    BY <1>6, Entries
  <2>3. ASSUME NEW o \in DOMAIN slice', d \in Observers(o)'
        PROVE  /\ o \in DOMAIN slice /\ registry' # o
               /\ client[d].pc \in {"listen", "busy", "leave", "gone"}
               /\ client[d].pc \in {"listen", "busy"} => client[d].po = o
    <3>1. o \in 1 .. Len(stage)
      BY <2>1, <2>3, Entries
    <3>2. d \in Observers(o) /\ o \in DOMAIN slice
      BY <2>1, <2>3, <3>1, Entries
    <3> QED
      BY <1>1, <2>2, <3>1, <3>2 DEF Member
  <2>4. client[d].pc \in {"listen", "busy"} => client[d].po \in 1 .. Len(stage) /\ d \in Observers(client[d].po)
    BY <1>1, Entries DEF Member, NoEntry
  <2>5. client'[d].pc \in {"listen", "busy"} =>
           client'[d].po \in 1 .. Len(stage) /\ d \in Observers(client'[d].po)
    BY <1>6, <2>4
  <2>6. client'[d].pc \in {"listen", "busy"} => d \in Observers(client[d].po)'
    BY <2>1, <2>5
  <2>7. client'[d].pc \in {"add", "listen", "busy"} => client'[d].po # NoEntry
    BY <1>1, <1>6 DEF Member
  <2>8. ASSUME NEW o \in DOMAIN slice', d \in Observers(o)'
        PROVE  \/ client'[d].pc \in {"listen", "busy"} /\ client'[d].po = o
               \/ client'[d].pc = "leave" /\ (client'[d].po = o \/ registry' # o)
               \/ client'[d].pc = "gone" /\ registry' # o
    BY <1>6, <2>3, <2>8
  <2> QED
    BY <2>6, <2>7, <2>8 DEF Member
<1>7. CASE newProgressObservable("Queued") /\ registry' = Len(stage) + 1 /\ client' = client
  <2>1. "Queued" \in Stages
    BY DEF Stages
  <2>2. \A d \in Subscribers : client'[d].pc = "add" => client'[d].po # NoEntry
    BY <1>1, <1>7 DEF Member
  <2> QED
    BY <1>6, <1>7, <2>1, <2>2
<1>8. ASSUME NEW c \in Subscribers, Stays(c) PROVE \A d \in Subscribers : Member(d)'
  <2> SUFFICES ASSUME NEW d \in Subscribers PROVE Member(d)'
    OBVIOUS
  <2>1. client'[d].po = client[d].po
        /\ \/ client'[d].pc = client[d].pc
           \/ client[d].pc = "away" /\ client'[d].pc = "asked"
           \/ client[d].pc \in {"listen", "busy"} /\ client'[d].pc \in {"listen", "busy"}
    BY <1>8 DEF Stays, OneClient
  <2>2. /\ \A o : Observers(o)' = Observers(o)
        /\ DOMAIN slice' = DOMAIN slice /\ registry' = registry
    BY <1>3, <1>8 DEF Stays
  <2> QED
    BY <1>1, <2>1, <2>2 DEF Member
<1>9. ASSUME NEW c \in Subscribers, Leave(c) PROVE \A d \in Subscribers : Member(d)'
  <2> SUFFICES ASSUME NEW d \in Subscribers PROVE Member(d)'
    OBVIOUS
  <2>1. slice' = slice /\ arrays' = arrays /\ registry' = registry
    BY <1>9 DEF Leave, observables
  <2>2. \A o : Observers(o)' = Observers(o)
    BY <2>1, SameLists
  <2>3. \/ d # c /\ client'[d] = client[d]
        \/ d = c /\ client[d].pc \in {"listen", "busy"} /\ client'[d].pc = "leave" /\ client'[d].po = registry
    BY <1>1, <1>9, ClientActs DEF OneClient
  <2> QED
    BY <1>1, <2>1, <2>2, <2>3 DEF Member
<1>10. ASSUME NEW c \in Subscribers, AddObserver(c) PROVE \A d \in Subscribers : Member(d)'
  <2> SUFFICES ASSUME NEW d \in Subscribers PROVE Member(d)'
    OBVIOUS
  <2> DEFINE o == client[c].po
  <2>1. registry' = registry
    BY <1>10 DEF AddObserver
  <2>2. /\ o \in DOMAIN slice /\ DOMAIN slice' = DOMAIN slice
        /\ \A x \in DOMAIN slice : x # o => slice'[x] = slice[x] /\ arrays'[x] = arrays[x]
    BY <1>1, <1>10, Added DEF IInv
  <2>3. \A x \in DOMAIN slice : x # o => Observers(x)' = Observers(x)
    BY <2>2 DEF Observers, array
  <2>4. ASSUME NEW x, x = o PROVE Observers(x)' = Observers(x) \cup {c}
    BY <1>1, <1>10, <2>4, Added DEF IInv
  <2>5. OneClient(c) /\ client[c].pc = "add" /\ client'[c].pc = "listen" /\ client'[c].po = o
    BY <1>1, <1>10, ClientActs
  <2>6. o # NoEntry
    BY <1>1, <2>5 DEF Member
  <2>7. \A x \in DOMAIN slice : Observers(x)' = Observers(x) \/ (x = o /\ Observers(x)' = Observers(x) \cup {c})
    BY <2>3, <2>4
  <2> HIDE DEF o
  <2>8. CASE d = c
    <3>1. \A x \in DOMAIN slice : c \notin Observers(x)
      BY <1>1, <2>5 DEF Member
    <3>2. \A x \in DOMAIN slice : c \in Observers(x)' => x = o
      BY <2>7, <3>1
    <3>3. c \in Observers(client[c].po)'
      BY <2>4, <2>5
    <3> QED
      BY <2>2, <2>5, <2>6, <2>8, <3>2, <3>3 DEF Member
  <2>9. CASE d # c
    <3>1. client'[d] = client[d]
      BY <2>5, <2>9 DEF OneClient
    <3>2. \A x \in DOMAIN slice : d \in Observers(x)' <=> d \in Observers(x)
      BY <2>7, <2>9
    <3>3. client[d].pc \in {"listen", "busy"} => client[d].po \in DOMAIN slice
      BY <1>1, Entries DEF Member, NoEntry
    <3>4. client[d].pc \in {"listen", "busy"} => d \in Observers(client[d].po)'
      BY <1>1, <3>1, <3>2, <3>3 DEF Member
    <3> QED
      BY <1>1, <2>1, <2>2, <3>1, <3>2, <3>4 DEF Member
  <2> QED
    BY <2>8, <2>9
<1>11. ASSUME NEW c \in Subscribers, RemoveObserver(c) PROVE \A d \in Subscribers : Member(d)'
  <2> SUFFICES ASSUME NEW d \in Subscribers PROVE Member(d)'
    OBVIOUS
  <2> DEFINE o == client[c].po
  <2>1. registry' = registry
    BY <1>11, Zenon DEF RemoveObserver
  <2>2. OneClient(c) /\ client[c].pc = "leave" /\ client'[c].pc = "gone" /\ client'[c].po = NoEntry
    BY <1>1, <1>11, ClientActs
  <2>3. /\ DOMAIN slice' = DOMAIN slice
        /\ \A x \in DOMAIN slice : \/ x # o /\ Observers(x)' = Observers(x)
                                   \/ x = o /\ Observers(x)' = Observers(x) \ {c}
    <3>1. CASE o = NoEntry \/ c \notin Observers(o)
      <4>1. slice' = slice /\ arrays' = arrays
        BY <1>11, <3>1, NotRemoved
      <4>2. \A x : Observers(x)' = Observers(x)
        BY <4>1, SameLists
      <4>3. \A x \in DOMAIN slice : x = o => c \notin Observers(x)
        BY <3>1, Entries DEF NoEntry
      <4> QED
        BY <4>1, <4>2, <4>3
    <3>2. CASE o # NoEntry /\ c \in Observers(o)
      <4>1. /\ DOMAIN slice' = DOMAIN slice
            /\ \A x \in DOMAIN slice : x # o => slice'[x] = slice[x] /\ arrays'[x] = arrays[x]
        BY <1>1, <1>11, <3>2, Removed
      <4>2. \A x \in DOMAIN slice : x # o => Observers(x)' = Observers(x)
        BY <4>1 DEF Observers, array
      <4>3. ASSUME NEW x, x = o PROVE Observers(x)' = Observers(x) \ {c}
        BY <1>1, <1>11, <3>2, <4>3, Removed
      <4> QED
        BY <4>1, <4>2, <4>3
    <3> QED
      BY <3>1, <3>2
  <2> HIDE DEF o
  <2>4. CASE d = c
    <3>1. \A x \in DOMAIN slice : c \in Observers(x)' => registry # x
      BY <1>1, <2>2, <2>3 DEF Member, o
    <3> QED
      BY <2>1, <2>2, <2>3, <2>4, <3>1 DEF Member
  <2>5. CASE d # c
    <3>1. client'[d] = client[d]
      BY <2>2, <2>5 DEF OneClient
    <3>2. \A x \in DOMAIN slice : d \in Observers(x)' <=> d \in Observers(x)
      BY <2>3, <2>5
    <3>3. client[d].pc \in {"listen", "busy"} => client[d].po \in DOMAIN slice
      BY <1>1, Entries DEF Member, NoEntry
    <3>4. client[d].pc \in {"listen", "busy"} => d \in Observers(client[d].po)'
      BY <1>1, <3>1, <3>2, <3>3 DEF Member
    <3> QED
      BY <1>1, <2>1, <2>3, <3>1, <3>2, <3>4 DEF Member
  <2> QED
    BY <2>4, <2>5
<1>12. ASSUME NEW c \in Subscribers, GetOrCreateStateful(c) PROVE \A d \in Subscribers : Member(d)'
  <2> SUFFICES ASSUME NEW d \in Subscribers PROVE Member(d)'
    OBVIOUS
  <2>1. OneClient(c) /\ late' = late /\ client[c].pc \in {"asked", "locked", "create"}
        /\ client'[c].pc \in {"add", "locked", "create"}
    BY <1>1, <1>12, ClientGets DEF GetOrCreateStateful
  <2>2. CASE Still
    <3>1. /\ \A o : Observers(o)' = Observers(o)
          /\ DOMAIN slice' = DOMAIN slice /\ registry' = registry
      BY <1>3, <2>2
    <3>2. client'[c].pc = "add" => client'[c].po # NoEntry
      BY <1>1, <1>12, <2>1, ClientGets, Entries DEF NoEntry
    <3>3. d # c => client'[d] = client[d]
      BY <2>1 DEF OneClient
    <3>4. CASE d = c
      BY <1>1, <2>1, <3>1, <3>2, <3>4 DEF Member
    <3>5. CASE d # c
      BY <1>1, <3>1, <3>3, <3>5 DEF Member
    <3> QED
      BY <3>4, <3>5
  <2>3. CASE ~Still
    <3>1. /\ client[c].pc = "create" /\ client'[c].pc = "add"
          /\ newProgressObservable(client[c].read)
          /\ registry' = Len(stage) + 1 /\ client'[c].po = registry'
      BY <1>1, <1>12, <2>1, <2>3, ClientGets DEF Still, observables
    <3>2. client[c].read \in Stages
      BY <1>1 DEF Types, ClientTypes
    <3>3. client'[d].pc = "add" => client'[d].po # NoEntry
      BY <1>1, <2>1, <3>1, Entries DEF NoEntry, Member, OneClient
    <3>4. \/ client'[d].pc = client[d].pc /\ client'[d].po = client[d].po
          \/ client[d].pc = "create" /\ client'[d].pc = "add"
      BY <2>1, <3>1 DEF OneClient
    <3> QED
      BY <1>6, <3>1, <3>2, <3>3, <3>4
  <2> QED
    BY <2>2, <2>3
<1> QED
  BY <1>4, <1>5, <1>7, <1>8, <1>9, <1>10, <1>11, <1>12, StepKinds

(* One client at a time makes an entry.                                    *)
LEMMA LockStep ==
    ASSUME IInv, [ProgressNext]_progress
    PROVE  LockInv'
<1> DEFINE Making(c) == client[c].pc \in {"locked", "create"}
<1>1. /\ Types /\ ListInv
      /\ \A c \in Subscribers : Making(c) =>
            /\ registry = NoEntry /\ removing # "delete"
            /\ \A d \in Subscribers : Making(d) => d = c
  BY DEF IInv, LockInv
<1>2. CASE \A c \in Subscribers : client'[c].pc \in {"locked", "create"} =>
             Making(c) /\ registry' = registry /\ removing' \in {removing, "no", "check"}
  <2> SUFFICES ASSUME NEW c \in Subscribers, client'[c].pc \in {"locked", "create"}
               PROVE  /\ registry' = NoEntry /\ removing' # "delete"
                      /\ \A d \in Subscribers : client'[d].pc \in {"locked", "create"} => d = c
    BY DEF LockInv
  <2> QED
    BY <1>1, <1>2
<1>3. CASE Still /\ client' = client /\ removing' \in {removing, "no", "check"}
  BY <1>2, <1>3 DEF Still
<1>4. CASE RemoveEmpty
  <2>1. client' = client
    BY <1>4 DEF RemoveEmpty
  <2>2. \A c \in Subscribers : Making(c) => registry' = registry /\ removing' \in {removing, "no", "check"}
    BY <1>1, <1>4 DEF RemoveEmpty, RegistryLocked
  <2> QED
    BY <1>2, <2>1, <2>2
<1>5. CASE client' = client /\ ~RegistryLocked
  BY <1>5 DEF LockInv, RegistryLocked
<1>6. ASSUME NEW c \in Subscribers, Stays(c) PROVE LockInv'
  <2>1. registry' = registry /\ removing' = removing
        /\ \A d \in Subscribers : client'[d].pc \in {"locked", "create"} => Making(d)
    BY <1>6 DEF Stays, Still, OneClient
  <2> QED
    BY <1>2, <2>1
<1>7. ASSUME NEW c \in Subscribers, Leave(c) \/ AddObserver(c) \/ RemoveObserver(c) PROVE LockInv'
  <2>1. registry' = registry /\ removing' = removing
    <3>1. RemoveObserver(c) => registry' = registry /\ removing' = removing
      BY Zenon DEF RemoveObserver
    <3> QED
      BY <1>7, <3>1 DEF Leave, AddObserver
  <2>2. \A d \in Subscribers : client'[d].pc \in {"locked", "create"} => Making(d)
    BY <1>1, <1>7, ClientActs DEF OneClient
  <2> QED
    BY <1>2, <2>1, <2>2
<1>8. ASSUME NEW c \in Subscribers, GetOrCreateStateful(c) PROVE LockInv'
  <2>1. removing' = removing /\ OneClient(c) /\ \A d \in Subscribers : d # c => client'[d] = client[d]
    BY <1>1, <1>8, ClientGets DEF GetOrCreateStateful, OneClient
  <2>2. CASE client[c].pc = "asked"
    <3>1. ~RegistryLocked /\ registry' = registry
          /\ (client'[c].pc = "add" \/ (client'[c].pc = "locked" /\ registry = NoEntry))
      BY <1>1, <1>8, <2>2, ClientGets
    <3>2. removing # "delete" /\ \A d \in Subscribers : ~Making(d)
      BY <3>1 DEF RegistryLocked
    <3> QED
      BY <2>1, <3>1, <3>2 DEF LockInv
  <2>3. CASE client[c].pc = "locked"
    <3>1. registry' = registry /\ client'[c].pc = "create"
      BY <1>1, <1>8, <2>3, ClientGets
    <3>2. \A d \in Subscribers : client'[d].pc \in {"locked", "create"} => Making(d)
      BY <2>1, <2>3, <3>1
    <3> QED
      BY <1>2, <2>1, <3>1, <3>2
  <2>4. CASE client[c].pc = "create"
    <3>1. client'[c].pc = "add"
      BY <1>1, <1>8, <2>4, ClientGets
    <3>2. \A d \in Subscribers : client'[d].pc \notin {"locked", "create"}
      BY <1>1, <2>1, <2>4, <3>1
    <3> QED
      BY <3>2 DEF LockInv
  <2> QED
    BY <1>8, <2>2, <2>3, <2>4 DEF GetOrCreateStateful
<1> QED
  BY <1>3, <1>4, <1>5, <1>6, <1>7, <1>8, StepKinds

(* A client that is not late has joined the entry of the registry.         *)
LEMMA JoinStep ==
    ASSUME IInv, [ProgressNext]_progress
    PROVE  JoinInv'
<1> DEFINE Listens(c) == client[c].pc \in {"listen", "busy"}
<1>1. /\ Types /\ ListInv /\ MemberInv
      /\ \A c \in Subscribers : Listens(c) /\ c \notin late => client[c].po = registry /\ removing # "delete"
  BY DEF IInv, JoinInv
<1>2. CASE \A c \in Subscribers : client'[c].pc \in {"listen", "busy"} /\ c \notin late' =>
             /\ Listens(c) /\ c \notin late /\ client'[c].po = client[c].po
             /\ registry' = registry /\ removing' \in {removing, "no", "check"}
  <2> SUFFICES ASSUME NEW c \in Subscribers, client'[c].pc \in {"listen", "busy"}, c \notin late'
               PROVE  client'[c].po = registry' /\ removing' # "delete"
    BY DEF JoinInv
  <2> QED
    BY <1>1, <1>2
<1>3. CASE Still /\ client' = client /\ removing' \in {removing, "no", "check"}
  BY <1>2, <1>3 DEF Still
<1>4. CASE RemoveEmpty
  <2>1. client' = client /\ late' = late
    BY <1>4 DEF RemoveEmpty
  <2>2. CASE removing = "check"
    <3>1. ASSUME NEW c \in Subscribers, Listens(c), c \notin late
          PROVE  registry' = registry /\ removing' \in {removing, "no", "check"}
      <4>1. client[c].po = registry /\ c \in Observers(registry) /\ registry # NoEntry
        BY <1>1, <3>1 DEF MemberInv
      <4>2. slice[registry] \in Nat /\ registry \in DOMAIN slice
        BY <1>1, <4>1, Entries DEF NoEntry, ListInv
      <4>3. slice[registry] > 0
        <5> DEFINE k == slice[registry]
        <5>1. k \in Nat /\ 1 .. k # {}
          BY <4>1, <4>2 DEF Observers
        <5> HIDE DEF k
        <5>2. k > 0
          BY <5>1
        <5> QED
          BY <5>2 DEF k
      <4> QED
        BY <1>4, <2>2, <4>1, <4>3 DEF RemoveEmpty
    <3> QED
      BY <1>2, <2>1, <3>1
  <2>3. CASE removing = "delete"
    BY <1>1, <2>1, <2>3 DEF JoinInv
  <2> QED
    BY <1>4, <2>2, <2>3 DEF RemoveEmpty
<1>5. CASE registry = NoEntry /\ client' = client /\ late' = late
  BY <1>1, <1>5 DEF MemberInv, JoinInv
<1>6. ASSUME NEW c \in Subscribers, Stays(c) PROVE JoinInv'
  <2>1. late' = late /\ registry' = registry /\ removing' = removing
    BY <1>6 DEF Stays, Still
  <2>2. \A d \in Subscribers : client'[d].po = client[d].po /\ (client'[d].pc \in {"listen", "busy"} => Listens(d))
    BY <1>6 DEF Stays, OneClient
  <2> QED
    BY <1>2, <2>1, <2>2
<1>7. ASSUME NEW c \in Subscribers, Leave(c) \/ RemoveObserver(c) PROVE JoinInv'
  <2>1. registry' = registry /\ removing' = removing /\ late' = late
    <3>1. RemoveObserver(c) => registry' = registry /\ removing' = removing /\ late' = late
      BY Zenon DEF RemoveObserver
    <3> QED
      BY <1>7, <3>1 DEF Leave
  <2>2. \A d \in Subscribers : client'[d].pc \in {"listen", "busy"} => Listens(d) /\ client'[d] = client[d]
    BY <1>1, <1>7, ClientActs DEF OneClient
  <2> QED
    BY <1>2, <2>1, <2>2
<1>8. ASSUME NEW c \in Subscribers, AddObserver(c) PROVE JoinInv'
  <2>1. registry' = registry /\ removing' = removing
        /\ late' = IF client[c].po = registry /\ removing # "delete" THEN late ELSE late \cup {c}
    BY <1>8 DEF AddObserver
  <2>2. OneClient(c) /\ client'[c].po = client[c].po
    BY <1>1, <1>8, ClientActs
  <2> SUFFICES ASSUME NEW d \in Subscribers, client'[d].pc \in {"listen", "busy"}, d \notin late'
               PROVE  client'[d].po = registry' /\ removing' # "delete"
    BY DEF JoinInv
  <2>3. CASE d = c
    BY <2>1, <2>2, <2>3
  <2>4. CASE d # c
    BY <1>1, <2>1, <2>2, <2>4 DEF OneClient
  <2> QED
    BY <2>3, <2>4
<1>9. ASSUME NEW c \in Subscribers, GetOrCreateStateful(c) PROVE JoinInv'
  <2>1. removing' = removing /\ late' = late
    BY <1>9 DEF GetOrCreateStateful
  <2>2. OneClient(c) /\ client'[c].pc \notin {"listen", "busy"}
        /\ (registry' = registry \/ client[c].pc = "create")
    BY <1>1, <1>9, ClientGets
  <2>3. \A d \in Subscribers : client'[d].pc \in {"listen", "busy"} => client'[d] = client[d]
    BY <2>2 DEF OneClient
  <2>4. CASE registry' = registry
    BY <1>2, <2>1, <2>3, <2>4
  <2>5. CASE client[c].pc = "create"
    <3>1. registry = NoEntry
      BY <2>5 DEF IInv, LockInv
    <3> QED
      BY <1>1, <2>1, <2>3, <3>1 DEF MemberInv, JoinInv
  <2> QED
    BY <2>2, <2>4, <2>5
<1> QED
  BY <1>3, <1>4, <1>5, <1>6, <1>7, <1>8, <1>9, StepKinds

-----------------------------------------------------------------------------
(* The jobs, and who saved the status.                                     *)

(* The step leaves the jobs and the database as they are.                  *)
JobsStay ==
    jobs' = jobs /\ current' = current /\ detached' = detached /\ lastSaver' = lastSaver
      /\ db' = db

(* The steps by what they do to the jobs.                                  *)
LEMMA JobStepKinds ==
    ASSUME [ProgressNext]_progress
    PROVE  \/ JobsStay /\ removing' = removing /\ registry' = registry
           \/ JobsStay /\ removing' = removing /\ \E c \in Subscribers : GetOrCreateStateful(c)
           \/ JobsStay /\ RemoveEmpty
           \/ StopRepository
           \/ \E k \in JobKinds : Start(k)
           \/ \E j \in DOMAIN jobs :
                 GetOrCreate(j) \/ SaveStatus(j) \/ SetNewStage(j) \/ runNext(j) \/ Follow(j)
<1>1. ASSUME NEW c \in Subscribers, RemoveObserver(c) PROVE JobsStay /\ removing' = removing /\ registry' = registry
  BY <1>1, Zenon DEF RemoveObserver, JobsStay
<1>2. ASSUME NEW c \in Subscribers, Query(c) \/ AddObserver(c) \/ Show(c) \/ Leave(c)
      PROVE  JobsStay /\ removing' = removing /\ registry' = registry
  BY <1>2 DEF Query, AddObserver, Show, Leave, JobsStay
<1>3. ASSUME NEW c \in Subscribers, GetOrCreateStateful(c) PROVE JobsStay /\ removing' = removing
  BY <1>3 DEF GetOrCreateStateful, JobsStay
<1>4. ASSUME NEW n \in DOMAIN notifiers, BeginNotify(n) \/ NotifyNext(n)
      PROVE  JobsStay /\ removing' = removing /\ registry' = registry
  BY <1>4 DEF BeginNotify, NotifyNext, JobsStay
<1>5. ASSUME NEW j \in DOMAIN jobs, IncreaseProgress(j)
      PROVE  JobsStay /\ removing' = removing /\ registry' = registry
  BY <1>5 DEF IncreaseProgress, JobsStay
<1>6. CASE RemoveEmpty
  BY <1>6 DEF RemoveEmpty, JobsStay
<1>7. CASE UNCHANGED progress
  BY <1>7 DEF progress, JobsStay
<1> QED
  BY <1>1, <1>2, <1>3, <1>4, <1>5, <1>6, <1>7 DEF ProgressNext, ProcessStep, NotifyStep

(* What Start does, in the words of the lemmas of the jobs.                *)
LEMMA JobStarts ==
    ASSUME Types, NEW k \in JobKinds, Start(k)
    PROVE  /\ jobs' \in Seq(JobTypes) /\ Len(jobs') = Len(jobs) + 1
           /\ jobs'[Len(jobs) + 1] = NewJob(k)
           /\ DOMAIN jobs' = DOMAIN jobs \cup {Len(jobs) + 1}
           /\ \A i \in DOMAIN jobs : jobs'[i] = jobs[i] /\ i # Len(jobs) + 1
<1> DEFINE x == NewJob(k)
<1>1. x \in JobTypes /\ jobs' = Append(jobs, x) /\ jobs \in Seq(JobTypes)
  BY NewJobs DEF Start, Types
<1> HIDE DEF x
<1>2. /\ jobs' \in Seq(JobTypes) /\ Len(jobs') = Len(jobs) + 1 /\ jobs'[Len(jobs) + 1] = x
      /\ DOMAIN jobs' = DOMAIN jobs \cup {Len(jobs) + 1}
      /\ \A i \in DOMAIN jobs : jobs'[i] = jobs[i] /\ i # Len(jobs) + 1
  BY <1>1, Appended
<1> QED
  BY <1>2 DEF x

(* A job keeps its kind, and is over or detached for good.                 *)
LEMMA JobsGrow ==
    ASSUME Types, [ProgressNext]_progress
    PROVE  /\ DOMAIN jobs \subseteq DOMAIN jobs' /\ detached \subseteq detached'
           /\ \A j \in DOMAIN jobs : jobs'[j].kind = jobs[j].kind
           /\ \A j \in DOMAIN jobs : Over(j) => jobs'[j].pc = "over"
<1>1. CASE jobs' = jobs /\ detached \subseteq detached'
  BY <1>1 DEF Over
<1>2. CASE StopRepository
  BY <1>1, <1>2 DEF StopRepository
<1>3. ASSUME NEW k \in JobKinds, Start(k)
      PROVE  /\ DOMAIN jobs \subseteq DOMAIN jobs' /\ detached \subseteq detached'
             /\ \A j \in DOMAIN jobs : jobs'[j] = jobs[j]
  BY <1>3, JobStarts DEF Start
<1>4. ASSUME NEW j \in DOMAIN jobs, OneJob(j), detached' = detached
      PROVE  /\ DOMAIN jobs \subseteq DOMAIN jobs' /\ detached \subseteq detached'
             /\ \A i \in DOMAIN jobs : jobs'[i].kind = jobs[i].kind
             /\ \A i \in DOMAIN jobs : Over(i) => jobs'[i].pc = "over"
  BY <1>4 DEF OneJob, Over
<1>5. ASSUME NEW j \in DOMAIN jobs,
             GetOrCreate(j) \/ SaveStatus(j) \/ SetNewStage(j) \/ runNext(j)
      PROVE  OneJob(j) /\ detached' = detached
  <2>1. detached' = detached
    BY <1>5 DEF GetOrCreate, SaveStatus, SetNewStage, runNext
  <2> QED
    BY <1>5, <2>1, JobCreates, JobSaves, JobSets, JobEnds
<1>6. ASSUME NEW j \in DOMAIN jobs, Follow(j)
      PROVE  /\ DOMAIN jobs \subseteq DOMAIN jobs' /\ detached \subseteq detached'
             /\ \A i \in DOMAIN jobs : jobs'[i].kind = jobs[i].kind
             /\ \A i \in DOMAIN jobs : Over(i) => jobs'[i].pc = "over"
  <2>1. detached \subseteq detached'
    BY <1>6 DEF Follow
  <2>2. /\ DOMAIN jobs' = DOMAIN jobs \cup {Len(jobs) + 1}
        /\ \A i \in DOMAIN jobs : i # j => jobs'[i] = jobs[i]
        /\ jobs'[j].pc = "over" /\ jobs'[j].kind = jobs[j].kind
    BY <1>6, JobFollows
  <2> QED
    BY <2>1, <2>2 DEF Over
<1> QED
  <2>1. CASE \E k \in JobKinds : Start(k)
    BY <1>3, <2>1 DEF Over
  <2>2. CASE \E j \in DOMAIN jobs :
                 GetOrCreate(j) \/ SaveStatus(j) \/ SetNewStage(j) \/ runNext(j) \/ Follow(j)
    BY <1>4, <1>5, <1>6, <2>2
  <2> QED
    BY <1>1, <1>2, <2>1, <2>2, JobStepKinds DEF JobsStay

(* While no other status is saved, the entry stays out of step.            *)
LEMMA OutStays ==
    ASSUME Types, [ProgressNext]_progress, lastSaver' = lastSaver, OutOfStep
    PROVE  OutOfStep'
<1>1. CASE lastSaver = NotSaved
  BY <1>1 DEF OutOfStep
<1>2. CASE lastSaver # NotSaved
  <2>1. lastSaver \in DOMAIN jobs /\ lastSaver > 0
    <3>1. lastSaver \in 0 .. Len(jobs) /\ lastSaver > 0 /\ jobs \in Seq(JobTypes)
      BY <1>2 DEF Types, OutOfStep
    <3> QED
      BY <3>1
  <2>2. jobs'[lastSaver].kind = jobs[lastSaver].kind /\ detached \subseteq detached'
    BY <2>1, JobsGrow
  <2>3. jobs'[lastSaver'].kind = jobs[lastSaver].kind
    BY <2>2
  <2> QED
    BY <1>2, <2>1, <2>2, <2>3 DEF OutOfStep
<1> QED
  BY <1>1, <1>2

(* One job at a time is in the map and not detached.                       *)
LEMMA AloneStep ==
    ASSUME IInv, [ProgressNext]_progress
    PROVE  AloneInv'
<1>1. /\ Types /\ jobs \in Seq(JobTypes) /\ Len(jobs) \in Nat /\ DOMAIN jobs = 1 .. Len(jobs)
      /\ \A j \in DOMAIN jobs : Active(j) =>
            current = j /\ removing = "no" /\ \A i \in DOMAIN jobs : i # j => Over(i)
  BY DEF IInv, Types, AloneInv
<1>2. CASE JobsStay /\ removing' = removing
  BY <1>1, <1>2 DEF JobsStay, AloneInv, Active, Over
<1>3. CASE JobsStay /\ RemoveEmpty
  <2>1. \A j \in DOMAIN jobs : ~Active(j)
    BY <1>1, <1>3 DEF RemoveEmpty
  <2> QED
    BY <1>3, <2>1 DEF JobsStay, AloneInv, Active, Over
<1>4. CASE StopRepository
  <2>1. jobs' = jobs /\ detached' = detached \cup {current}
    BY <1>4 DEF StopRepository
  <2>2. \A j \in DOMAIN jobs : ~Active(j)'
    BY <1>1, <2>1 DEF Active, Over
  <2> QED
    BY <2>1, <2>2 DEF AloneInv
<1>5. ASSUME NEW k \in JobKinds, Start(k) PROVE AloneInv'
  <2>1. current = 0 /\ removing = "no" /\ removing' = "no" /\ current' = Len(jobs) + 1
        /\ detached' = IF \A j \in DOMAIN jobs : Over(j) THEN detached
                       ELSE detached \cup {Len(jobs) + 1}
    BY <1>5 DEF Start
  <2>2. /\ DOMAIN jobs' = DOMAIN jobs \cup {Len(jobs) + 1}
        /\ \A i \in DOMAIN jobs : jobs'[i] = jobs[i] /\ i # Len(jobs) + 1
    BY <1>1, <1>5, JobStarts
  <2>3. \A j \in DOMAIN jobs : ~Active(j)
    BY <1>1, <2>1
  <2>4. \A j \in DOMAIN jobs : ~Active(j)'
    BY <2>1, <2>2, <2>3 DEF Active, Over
  <2>5. ASSUME NEW o, o = Len(jobs) + 1, Active(o)' PROVE \A j \in DOMAIN jobs : Over(j)'
    <3>1. o \notin detached'
      BY <2>5 DEF Active
    <3>2. \A j \in DOMAIN jobs : Over(j)
      BY <2>1, <2>5, <3>1
    <3> QED
      BY <2>2, <3>2 DEF Over
  <2> SUFFICES ASSUME NEW o \in DOMAIN jobs', Active(o)'
               PROVE  current' = o /\ removing' = "no" /\ \A i \in DOMAIN jobs' : i # o => Over(i)'
    BY DEF AloneInv
  <2>6. o = Len(jobs) + 1
    BY <2>2, <2>4
  <2>7. \A i \in DOMAIN jobs' : i # o => Over(i)'
    BY <2>2, <2>5, <2>6
  <2> QED
    BY <2>1, <2>6, <2>7
<1>6. ASSUME NEW j \in DOMAIN jobs,
             GetOrCreate(j) \/ SaveStatus(j) \/ SetNewStage(j)
      PROVE  AloneInv'
  <2>1. current' = current /\ removing' = removing /\ detached' = detached
    BY <1>6 DEF GetOrCreate, SaveStatus, SetNewStage
  <2>2. OneJob(j)
    BY <1>1, <1>6, JobCreates, JobSaves, JobSets
  <2>3. /\ DOMAIN jobs' = DOMAIN jobs /\ ~Over(j)
        /\ \A i \in DOMAIN jobs : i # j => jobs'[i] = jobs[i]
    BY <2>2 DEF OneJob, Over
  <2> SUFFICES ASSUME NEW o \in DOMAIN jobs, Active(o)'
               PROVE  current' = o /\ removing' = "no" /\ \A i \in DOMAIN jobs : i # o => Over(i)'
    BY <2>3 DEF AloneInv
  <2>4. Active(o)
    BY <2>1, <2>3 DEF Active, Over
  <2>5. o = j
    BY <1>1, <2>3, <2>4
  <2> QED
    BY <1>1, <2>1, <2>3, <2>4, <2>5 DEF Over
<1>7. ASSUME NEW j \in DOMAIN jobs, runNext(j) PROVE AloneInv'
  <2>1. OneJob(j) /\ jobs'[j].pc = "over" /\ detached' = detached /\ jobs[j].pc = "report"
    BY <1>1, <1>7, JobEnds DEF runNext
  <2>2. \A o \in DOMAIN jobs : ~Active(o)'
    BY <1>1, <2>1 DEF OneJob, Active, Over
  <2> QED
    BY <2>1, <2>2 DEF AloneInv, OneJob
<1>8. ASSUME NEW j \in DOMAIN jobs, Follow(j) PROVE AloneInv'
  <2>1. /\ current = j /\ removing = "no" /\ removing' = "no" /\ current' = Len(jobs) + 1
        /\ detached' = IF j \in detached THEN detached \cup {Len(jobs) + 1} ELSE detached
    BY <1>8 DEF Follow
  <2>2. /\ DOMAIN jobs' = DOMAIN jobs \cup {Len(jobs) + 1}
        /\ \A i \in DOMAIN jobs : i # Len(jobs) + 1 /\ (i # j => jobs'[i] = jobs[i])
        /\ jobs[j].pc = "report" /\ jobs'[j].pc = "over"
    BY <1>1, <1>8, JobFollows
  <2>3. \A o \in DOMAIN jobs : ~Active(o)'
    BY <1>1, <2>1, <2>2 DEF Active, Over
  <2> SUFFICES ASSUME NEW o \in DOMAIN jobs', Active(o)'
               PROVE  current' = o /\ removing' = "no" /\ \A i \in DOMAIN jobs' : i # o => Over(i)'
    BY DEF AloneInv
  <2>4. o = Len(jobs) + 1
    BY <2>2, <2>3
  <2>5. j \notin detached
    BY <2>1, <2>4 DEF Active
  <2>6. \A i \in DOMAIN jobs : i # j => Over(i)
    BY <1>1, <2>2, <2>5 DEF Active, Over
  <2>7. \A i \in DOMAIN jobs : Over(i)'
    BY <2>2, <2>6 DEF Over
  <2> QED
    BY <2>1, <2>2, <2>4, <2>7
<1>9. JobsStay /\ removing' = removing => AloneInv'
  BY <1>2
<1> QED
  BY <1>2, <1>3, <1>4, <1>5, <1>6, <1>7, <1>8, JobStepKinds

(* What JobInv says of a job.                                              *)
JobOf(j) ==
    /\ jobs[j].pc \in {"begin", "create"} => jobs[j].saves = "Progressing" /\ jobs[j].kind = "update"
    /\ jobs[j].kind = "update" /\ jobs[j].pc \in {"save", "set", "unsaved"} =>
          jobs[j].tracker # NoEntry
    /\ jobs[j].kind = "update" /\ jobs[j].pc \in {"save", "set", "unsaved"} /\ Active(j) =>
          jobs[j].tracker = registry
    /\ jobs[j].pc = "unsaved" => OutOfStep
    /\ jobs[j].pc = "set" => lastSaver = j \/ OutOfStep
    /\ jobs[j].pc = "set" /\ lastSaver = j => db = jobs[j].saves

(* The entry that the job of the map sets its stage on, and what it sets.  *)
LEMMA JobStep ==
    ASSUME IInv, [ProgressNext]_progress
    PROVE  JobInv'
<1>1. /\ Types /\ jobs \in Seq(JobTypes) /\ Len(jobs) \in Nat /\ DOMAIN jobs = 1 .. Len(jobs)
      /\ \A j \in DOMAIN jobs : Active(j) =>
            current = j /\ removing = "no" /\ \A i \in DOMAIN jobs : i # j => Over(i)
      /\ \A j \in DOMAIN jobs : JobOf(j)
  BY DEF IInv, Types, AloneInv, JobInv, JobOf
<1>2. SUFFICES \A j \in DOMAIN jobs' : JobOf(j)'
  BY DEF JobInv, JobOf
<1>3. /\ \A j \in DOMAIN jobs : Active(j)' => Active(j)
      /\ lastSaver' = lastSaver /\ OutOfStep => OutOfStep'
  <2>1. \A j \in DOMAIN jobs : Active(j)' => Active(j)
    BY <1>1, JobsGrow DEF Active, Over
  <2> QED
    BY <1>1, <2>1, OutStays
<1>4. ASSUME NEW i \in DOMAIN jobs, jobs'[i] = jobs[i], lastSaver' = lastSaver, db' = db,
             Active(i) /\ jobs[i].kind = "update" /\ jobs[i].pc \in {"save", "set", "unsaved"}
               => registry' = registry
      PROVE  JobOf(i)'
  BY <1>1, <1>3, <1>4 DEF JobOf
<1>5. CASE JobsStay /\ registry' = registry
  BY <1>4, <1>5 DEF JobsStay
<1>6. ASSUME JobsStay, NEW c \in Subscribers, GetOrCreateStateful(c) PROVE \A i \in DOMAIN jobs' : JobOf(i)'
  <2>1. registry' = registry \/ client[c].pc = "create"
    BY <1>1, <1>6, ClientGets
  <2>2. client[c].pc = "create" => registry = NoEntry
    BY DEF IInv, LockInv
  <2> QED
    BY <1>1, <1>4, <1>6, <2>1, <2>2 DEF JobsStay, JobOf
<1>7. CASE JobsStay /\ RemoveEmpty
  <2>1. \A j \in DOMAIN jobs : ~Active(j)
    BY <1>1, <1>7 DEF RemoveEmpty
  <2> QED
    BY <1>4, <1>7, <2>1 DEF JobsStay
<1>8. CASE StopRepository
  <2>1. jobs' = jobs /\ lastSaver' = lastSaver /\ db' = db /\ registry' = registry
    BY <1>8 DEF StopRepository
  <2> QED
    BY <1>4, <2>1
<1>9. ASSUME NEW o \in DOMAIN jobs', NEW k \in JobKinds, jobs'[o] = NewJob(k),
             k = "update" \/ k = "check"
      PROVE  JobOf(o)'
  <2>1. jobs'[o].kind = k /\ jobs'[o].saves = "Progressing"
        /\ jobs'[o].pc = IF k = "update" THEN "begin" ELSE "save"
    BY <1>9, NewJobs
  <2> QED
    BY <1>9, <2>1 DEF JobOf
<1>10. \A k \in JobKinds : k = "update" \/ k = "check"
  BY ProgressAssumption
<1>11. ASSUME NEW k \in JobKinds, Start(k) PROVE \A j \in DOMAIN jobs' : JobOf(j)'
  <2>1. lastSaver' = lastSaver /\ db' = db /\ registry' = registry
    BY <1>11 DEF Start
  <2>2. /\ DOMAIN jobs' = DOMAIN jobs \cup {Len(jobs) + 1}
        /\ \A i \in DOMAIN jobs : jobs'[i] = jobs[i] /\ i # Len(jobs) + 1
        /\ jobs'[Len(jobs) + 1] = NewJob(k)
    BY <1>1, <1>11, JobStarts
  <2>3. ASSUME NEW j \in DOMAIN jobs PROVE JobOf(j)'
    BY <1>4, <2>1, <2>2
  <2>4. ASSUME NEW o, o = Len(jobs) + 1 PROVE JobOf(o)'
    BY <1>9, <1>10, <2>2, <2>4
  <2> QED
    BY <2>2, <2>3, <2>4
<1>12. ASSUME NEW j \in DOMAIN jobs, Follow(j) PROVE \A i \in DOMAIN jobs' : JobOf(i)'
  <2>1. lastSaver' = lastSaver /\ db' = db /\ registry' = registry
    BY <1>12 DEF Follow
  <2>2. /\ DOMAIN jobs' = DOMAIN jobs \cup {Len(jobs) + 1}
        /\ \A i \in DOMAIN jobs : i # Len(jobs) + 1 /\ (i # j => jobs'[i] = jobs[i])
        /\ jobs'[j].pc = "over"
        /\ \E k \in JobKinds : jobs'[Len(jobs) + 1] = NewJob(k)
    BY <1>1, <1>12, JobFollows
  <2>3. ASSUME NEW i \in DOMAIN jobs, i # j PROVE JobOf(i)'
    BY <1>4, <2>1, <2>2, <2>3
  <2>4. JobOf(j)'
    BY <2>2 DEF JobOf
  <2>5. ASSUME NEW o, o = Len(jobs) + 1 PROVE JobOf(o)'
    BY <1>9, <1>10, <2>2, <2>5
  <2> QED
    BY <2>2, <2>3, <2>4, <2>5
<1>13. ASSUME NEW j \in DOMAIN jobs, runNext(j) PROVE \A i \in DOMAIN jobs' : JobOf(i)'
  <2>1. OneJob(j) /\ jobs'[j].pc = "over" /\ lastSaver' = lastSaver /\ db' = db /\ registry' = registry
    BY <1>1, <1>13, JobEnds DEF runNext
  <2>2. ASSUME NEW i \in DOMAIN jobs, i # j PROVE JobOf(i)'
    BY <1>4, <2>1, <2>2 DEF OneJob
  <2>3. JobOf(j)'
    BY <2>1 DEF JobOf
  <2> QED
    BY <2>1, <2>2, <2>3 DEF OneJob
<1>14. ASSUME NEW j \in DOMAIN jobs, SetNewStage(j) PROVE \A i \in DOMAIN jobs' : JobOf(i)'
  <2>1. lastSaver' = lastSaver /\ db' = db /\ registry' = registry
    BY <1>14 DEF SetNewStage
  <2>2. OneJob(j) /\ jobs[j].pc \in {"set", "unsaved"} /\ jobs'[j].pc \in {"report", "save"}
        /\ jobs'[j].tracker = jobs[j].tracker
    BY <1>1, <1>14, JobSets
  <2>3. ASSUME NEW i \in DOMAIN jobs, i # j PROVE JobOf(i)'
    BY <1>4, <2>1, <2>2, <2>3 DEF OneJob
  <2>4. JobOf(j)'
    BY <1>1, <1>3, <2>1, <2>2 DEF JobOf, OneJob
  <2> QED
    BY <2>2, <2>3, <2>4 DEF OneJob
<1>15. ASSUME NEW j \in DOMAIN jobs, GetOrCreate(j) PROVE \A i \in DOMAIN jobs' : JobOf(i)'
  <2>1. lastSaver' = lastSaver /\ db' = db
    BY <1>15 DEF GetOrCreate
  <2>2. /\ OneJob(j) /\ jobs[j].pc \in {"begin", "create"} /\ jobs'[j].saves = jobs[j].saves
        /\ \/ jobs'[j].pc = "create" /\ registry' = registry
           \/ /\ jobs'[j].pc = "save" /\ jobs'[j].tracker = registry' /\ registry' # NoEntry
              /\ registry' = registry \/ registry = NoEntry
    BY <1>1, <1>15, JobCreates
  <2>3. ASSUME NEW i \in DOMAIN jobs, i # j PROVE JobOf(i)'
    <3>1. jobs'[i] = jobs[i] /\ (registry' = registry \/ registry = NoEntry)
      BY <2>2, <2>3 DEF OneJob
    <3>2. Active(i) /\ jobs[i].kind = "update" /\ jobs[i].pc \in {"save", "set", "unsaved"}
               => registry' = registry
      BY <1>1, <3>1 DEF JobOf
    <3> QED
      BY <1>4, <2>1, <3>1, <3>2
  <2>4. JobOf(j)'
    BY <1>1, <2>2 DEF JobOf, OneJob
  <2> QED
    BY <2>2, <2>3, <2>4 DEF OneJob
<1>16. ASSUME NEW j \in DOMAIN jobs, SaveStatus(j) PROVE \A i \in DOMAIN jobs' : JobOf(i)'
  <2>1. registry' = registry /\ detached' = detached
    BY <1>16 DEF SaveStatus
  <2>2. /\ OneJob(j) /\ jobs[j].pc = "save"
        /\ jobs'[j].saves = jobs[j].saves /\ jobs'[j].tracker = jobs[j].tracker
        /\ \/ jobs'[j].pc = "set" /\ db' = jobs[j].saves /\ lastSaver' = j
           \/ jobs'[j].pc = "unsaved" /\ db' = db /\ lastSaver' = NotSaved
           \/ jobs'[j].pc = "report" /\ db' = db /\ lastSaver' = lastSaver
    BY <1>1, <1>16, JobSaves
  <2>3. JobOf(j)'
    BY <1>1, <1>3, <2>1, <2>2 DEF JobOf, OneJob, OutOfStep
  <2>4. ASSUME NEW i \in DOMAIN jobs, i # j PROVE JobOf(i)'
    <3>1. CASE db' = db /\ lastSaver' = lastSaver
      BY <1>4, <2>1, <2>2, <2>4, <3>1 DEF OneJob
    <3>2. CASE lastSaver' = j
      <4>1. jobs'[i] = jobs[i] /\ (jobs[i].pc # "over" => ~Active(j))
        BY <1>1, <2>2, <2>4 DEF OneJob, Over
      <4>2. jobs[i].pc \in {"set", "unsaved"} => j \in detached'
        BY <2>1, <2>2, <4>1 DEF Active, Over
      <4>3. jobs[i].pc \in {"set", "unsaved"} => OutOfStep'
        BY <1>1, <3>2, <4>2 DEF OutOfStep
      <4> QED
        BY <1>1, <1>3, <2>1, <2>4, <3>2, <4>1, <4>3 DEF JobOf
    <3>3. CASE db' = db /\ lastSaver' = NotSaved
      <4>1. OutOfStep' /\ jobs'[i] = jobs[i] /\ lastSaver' # i
        BY <1>1, <2>2, <2>4, <3>3 DEF OneJob, OutOfStep, NotSaved
      <4> QED
        BY <1>1, <1>3, <2>1, <2>4, <4>1 DEF JobOf
    <3> QED
      BY <2>2, <3>1, <3>2, <3>3
  <2> QED
    BY <2>2, <2>3, <2>4 DEF OneJob
<1> QED
  BY <1>5, <1>6, <1>7, <1>8, <1>11, <1>12, <1>13, <1>14, <1>15, <1>16, JobStepKinds

-----------------------------------------------------------------------------
(* Where the notifications are.                                            *)

(* An array keeps its length, and no array or list goes away.              *)
LEMMA ArraysGrow ==
    ASSUME IInv, [ProgressNext]_progress
    PROVE  /\ DOMAIN arrays \subseteq DOMAIN arrays'
           /\ \A o \in DOMAIN arrays :
                 /\ DOMAIN arrays[o] \subseteq DOMAIN arrays'[o]
                 /\ \A k \in DOMAIN arrays[o] : Len(arrays'[o][k]) = Len(arrays[o][k])
<1> DEFINE Grow == /\ DOMAIN arrays \subseteq DOMAIN arrays'
                   /\ \A o \in DOMAIN arrays :
                         /\ DOMAIN arrays[o] \subseteq DOMAIN arrays'[o]
                         /\ \A k \in DOMAIN arrays[o] : Len(arrays'[o][k]) = Len(arrays[o][k])
<1>1. /\ Types /\ ListInv /\ MemberInv /\ ListInv'
      /\ arrays \in Seq(Seq(Seq(Subscribers \cup {Nil}))) /\ arrays' \in Seq(Seq(Seq(Subscribers \cup {Nil})))
      /\ DOMAIN arrays = 1 .. Len(stage) /\ DOMAIN slice = 1 .. Len(stage)
  BY ListStep, Entries DEF IInv, ListInv
<1>2. CASE arrays' = arrays
  BY <1>2
<1>3. ASSUME NEW s \in Stages, newProgressObservable(s) PROVE Grow
  <2>1. \A o \in 1 .. Len(stage) : arrays'[o] = arrays[o]
    BY <1>1, <1>3, NewEntry
  <2>2. DOMAIN arrays \subseteq DOMAIN arrays'
    BY <1>1, <1>3 DEF newProgressObservable
  <2> QED
    BY <1>1, <2>1, <2>2
<1>4. ASSUME NEW o \in DOMAIN arrays, DOMAIN slice' = DOMAIN slice,
             \A x \in DOMAIN slice : x # o => arrays'[x] = arrays[x],
             Len(arrays'[o]) \in {Len(arrays[o]), Len(arrays[o]) + 1},
             \A k \in 1 .. Len(arrays[o]) : Len(arrays'[o][k]) = Len(arrays[o][k])
      PROVE  Grow
  <2> DEFINE T == Seq(Seq(Subscribers \cup {Nil}))
  <2>1. DOMAIN arrays' = DOMAIN arrays
    <3>1. Len(slice') = Len(arrays') /\ slice' \in Seq(Nat)
      BY <1>1 DEF ListInv
    <3> QED
      BY <1>1, <1>4, <3>1
  <2>2. arrays[o] \in T /\ arrays'[o] \in T
    <3> HIDE DEF T
    <3>1. arrays \in Seq(T) /\ arrays' \in Seq(T)
      BY <1>1 DEF T
    <3> QED
      BY <2>1, <3>1
  <2>3. DOMAIN arrays[o] = 1 .. Len(arrays[o]) /\ DOMAIN arrays[o] \subseteq DOMAIN arrays'[o]
    BY <1>4, <2>2
  <2>4. ASSUME NEW x \in DOMAIN arrays
        PROVE  /\ DOMAIN arrays[x] \subseteq DOMAIN arrays'[x]
               /\ \A k \in DOMAIN arrays[x] : Len(arrays'[x][k]) = Len(arrays[x][k])
    <3>1. CASE x = o
      BY <1>4, <2>3, <3>1
    <3>2. CASE x # o
      <4>1. arrays'[x] = arrays[x]
        BY <1>1, <1>4, <3>2
      <4> QED
        BY <4>1
    <3> QED
      BY <3>1, <3>2
  <2> QED
    BY <2>1, <2>4
<1>5. ASSUME NEW c \in Subscribers, AddObserver(c) PROVE Grow
  <2> DEFINE o == client[c].po
  <2>1. /\ o \in DOMAIN arrays /\ DOMAIN slice' = DOMAIN slice
        /\ \A x \in DOMAIN slice : x # o => arrays'[x] = arrays[x]
    BY <1>1, <1>5, Added
  <2>2. ASSUME NEW x, x = o
        PROVE  /\ Len(arrays'[x]) \in {Len(arrays[x]), Len(arrays[x]) + 1}
               /\ \A k \in 1 .. Len(arrays[x]) : Len(arrays'[x][k]) = Len(arrays[x][k])
    BY <1>1, <1>5, <2>2, Added
  <2> HIDE DEF o
  <2>3. PICK x : x = o
    OBVIOUS
  <2> QED
    BY <1>4, <2>1, <2>2, <2>3
<1>6. ASSUME NEW c \in Subscribers, RemoveObserver(c) PROVE Grow
  <2> DEFINE o == client[c].po
  <2>1. CASE o = NoEntry \/ c \notin Observers(o)
    BY <1>2, <1>6, <2>1, NotRemoved
  <2>2. CASE o # NoEntry /\ c \in Observers(o)
    <3>1. /\ o \in DOMAIN arrays /\ DOMAIN slice' = DOMAIN slice
          /\ \A x \in DOMAIN slice : x # o => arrays'[x] = arrays[x]
      BY <1>1, <1>6, <2>2, Removed
    <3>2. ASSUME NEW x, x = o
          PROVE  /\ Len(arrays'[x]) = Len(arrays[x])
                 /\ \A k \in 1 .. Len(arrays[x]) : Len(arrays'[x][k]) = Len(arrays[x][k])
      <4>1. x = client[c].po /\ x # NoEntry /\ c \in Observers(x)
        BY <2>2, <3>2
      <4>2. Types /\ ListInv
        BY <1>1
      <4> HIDE DEF Grow, o
      <4> QED
        BY <1>6, <4>1, <4>2, Removed
    <3> HIDE DEF o
    <3>3. PICK x : x = o
      OBVIOUS
    <3> QED
      BY <1>4, <3>1, <3>2, <3>3
  <2> QED
    BY <2>1, <2>2
<1>7. ASSUME NEW c \in Subscribers, Leave(c) PROVE arrays' = arrays
  BY <1>7 DEF Leave, observables
<1>8. ASSUME NEW c \in Subscribers, GetOrCreateStateful(c) PROVE Grow
  <2>1. arrays' = arrays \/ newProgressObservable(client[c].read)
    BY <1>1, <1>8, ClientGets DEF observables
  <2>2. client[c].read \in Stages
    BY <1>1 DEF Types, ClientTypes
  <2> QED
    BY <1>2, <1>3, <2>1, <2>2
<1>9. RemoveEmpty => arrays' = arrays
  BY DEF RemoveEmpty, observables
<1>10. "Queued" \in Stages
  BY DEF Stages
<1> QED
  BY <1>2, <1>3, <1>5, <1>6, <1>7, <1>8, <1>9, <1>10, StepKinds DEF Still, Stays

(* What NoteInv says of a notification.                                    *)
Placed(r) ==
    /\ r.o \in DOMAIN arrays
    /\ r.len = -1 => r.next = 1
    /\ r.len # -1 =>
          /\ r.in \in DOMAIN arrays[r.o]
          /\ r.len \in 1 .. Len(arrays[r.o][r.in])
          /\ r.next \in 1 .. r.len

(* A step adds notifications of an entry of a job, moves one on, or leaves *)
(* them as they are.                                                       *)
LEMMA NoteKinds ==
    ASSUME IInv, [ProgressNext]_progress
    PROVE  \/ notifiers' = notifiers
           \/ \E j \in DOMAIN jobs :
                 /\ jobs[j].kind = "update" /\ jobs[j].pc \in {"save", "set", "unsaved"}
                 /\ notifiers' = notifyNow(jobs[j].tracker)
           \/ \E n \in DOMAIN notifiers : BeginNotify(n) \/ NotifyNext(n)
<1>1. ASSUME NEW c \in Subscribers, RemoveObserver(c) PROVE notifiers' = notifiers
  BY <1>1, Zenon DEF RemoveObserver
<1>2. ASSUME NEW c \in Subscribers, Query(c) \/ AddObserver(c) \/ Show(c) \/ Leave(c) \/ GetOrCreateStateful(c)
      PROVE  notifiers' = notifiers
  BY <1>2 DEF Query, AddObserver, Show, Leave, GetOrCreateStateful
<1>3. ASSUME NEW j \in DOMAIN jobs, GetOrCreate(j) \/ SaveStatus(j) \/ runNext(j) \/ Follow(j)
      PROVE  notifiers' = notifiers
  BY <1>3 DEF GetOrCreate, SaveStatus, runNext, Follow
<1>4. ASSUME NEW j \in DOMAIN jobs, IncreaseProgress(j)
      PROVE  jobs[j].kind = "update" /\ jobs[j].pc \in {"save", "set", "unsaved"}
             /\ notifiers' = notifyNow(jobs[j].tracker)
  BY <1>4 DEF IncreaseProgress
<1>5. ASSUME NEW j \in DOMAIN jobs, SetNewStage(j)
      PROVE  \/ notifiers' = notifiers
             \/ /\ jobs[j].kind = "update" /\ jobs[j].pc \in {"save", "set", "unsaved"}
                /\ notifiers' = notifyNow(jobs[j].tracker)
  <2>1. jobs[j].kind \in {"update", "check"}
    <3>1. jobs \in Seq(JobTypes)
      BY DEF IInv, Types
    <3>2. jobs[j] \in JobTypes
      BY <3>1
    <3> QED
      BY <3>2, ProgressAssumption DEF JobTypes
  <2> QED
    BY <1>5, <2>1 DEF SetNewStage
<1>6. RemoveEmpty \/ StopRepository => notifiers' = notifiers
  BY DEF RemoveEmpty, StopRepository
<1>7. ASSUME NEW k \in JobKinds, Start(k) PROVE notifiers' = notifiers
  BY <1>7 DEF Start
<1>8. UNCHANGED progress => notifiers' = notifiers
  BY DEF progress
<1> QED
  BY <1>1, <1>2, <1>3, <1>4, <1>5, <1>6, <1>7, <1>8 DEF ProgressNext, ProcessStep, NotifyStep

(* A new notification has not begun.                                       *)
LEMMA NoteAdded ==
    ASSUME IInv, NEW o \in Nat \ {0}, notifiers' = notifyNow(o)
    PROVE  LET r == [o |-> o, in |-> 0, len |-> -1, next |-> 1]
           IN  /\ notifiers' \in Seq(NoteTypes) /\ Len(notifiers') = Len(notifiers) + 1
               /\ \A n \in DOMAIN notifiers : n \in DOMAIN notifiers' /\ notifiers'[n] = notifiers[n]
               /\ \A n \in DOMAIN notifiers' : n \in DOMAIN notifiers \/ notifiers'[n] = r
               /\ Len(notifiers) + 1 \in DOMAIN notifiers' /\ notifiers'[Len(notifiers) + 1] = r
<1> DEFINE r == [o |-> o, in |-> 0, len |-> -1, next |-> 1]
<1>1. notifiers \in Seq(NoteTypes) /\ r \in NoteTypes /\ notifiers' = Append(notifiers, r)
  BY DEF IInv, NoteInv, NoteTypes, notifyNow
<1> HIDE DEF r
<1>2. /\ notifiers' \in Seq(NoteTypes) /\ Len(notifiers') = Len(notifiers) + 1
      /\ notifiers'[Len(notifiers) + 1] = r
      /\ DOMAIN notifiers' = DOMAIN notifiers \cup {Len(notifiers) + 1}
      /\ \A i \in DOMAIN notifiers : notifiers'[i] = notifiers[i]
  BY <1>1, Appended
<1> QED
  BY <1>2 DEF r

(* A notification that begins, and one that moves on, written out.         *)
LEMMA NoteWritten ==
    ASSUME NEW me \in NoteTypes, NEW a \in Nat, NEW b \in Nat
    PROVE  /\ [me EXCEPT !.next = a] = [o |-> me.o, in |-> me.in, len |-> me.len, next |-> a]
           /\ [[me EXCEPT !.in = a] EXCEPT !.len = b]
                = [o |-> me.o, in |-> a, len |-> b, next |-> me.next]
           /\ [o |-> me.o, in |-> me.in, len |-> me.len, next |-> a] \in NoteTypes
           /\ [o |-> me.o, in |-> a, len |-> b, next |-> me.next] \in NoteTypes
<1>1. [me EXCEPT !.next = a] = [o |-> me.o, in |-> me.in, len |-> me.len, next |-> a]
  BY DEF NoteTypes
<1>2. [me EXCEPT !.in = a] = [o |-> me.o, in |-> a, len |-> me.len, next |-> me.next]
  BY DEF NoteTypes
<1>3. [[me EXCEPT !.in = a] EXCEPT !.len = b]
        = [o |-> me.o, in |-> a, len |-> b, next |-> me.next]
  <2> DEFINE x == [me EXCEPT !.in = a]
  <2>1. x \in NoteTypes /\ x.o = me.o /\ x.in = a /\ x.next = me.next
    BY DEF NoteTypes
  <2> HIDE DEF x
  <2>2. [x EXCEPT !.len = b] = [o |-> x.o, in |-> x.in, len |-> b, next |-> x.next]
    BY <2>1 DEF NoteTypes
  <2> QED
    BY <2>1, <2>2 DEF x
<1>4. [o |-> me.o, in |-> me.in, len |-> me.len, next |-> a] \in NoteTypes
  BY DEF NoteTypes
<1>5. [o |-> me.o, in |-> a, len |-> b, next |-> me.next] \in NoteTypes
  BY DEF NoteTypes
<1> QED
  BY <1>1, <1>3, <1>4, <1>5

(* One notification begins or moves on, or is done.                        *)
LEMMA NoteMoves ==
    ASSUME IInv, NEW n \in DOMAIN notifiers, BeginNotify(n) \/ NotifyNext(n)
    PROVE  LET me == notifiers[n]
           IN  /\ notifiers' \in Seq(NoteTypes)
               /\ \A k \in DOMAIN notifiers : k # n =>
                     \E i \in DOMAIN notifiers' : notifiers'[i] = notifiers[k]
               /\ \/ /\ \A i \in DOMAIN notifiers' :
                           \E k \in DOMAIN notifiers : k # n /\ notifiers'[i] = notifiers[k]
                     /\ \/ BeginNotify(n) /\ slice[me.o] = 0
                        \/ NotifyNext(n) /\ me.next = me.len
                  \/ /\ DOMAIN notifiers' = DOMAIN notifiers
                     /\ \A i \in DOMAIN notifiers : i # n => notifiers'[i] = notifiers[i]
                     /\ \/ /\ BeginNotify(n) /\ slice[me.o] # 0
                           /\ notifiers'[n] = [o |-> me.o, in |-> Len(arrays[me.o]),
                                               len |-> slice[me.o], next |-> 1]
                        \/ /\ NotifyNext(n) /\ me.next # me.len
                           /\ notifiers'[n] = [o |-> me.o, in |-> me.in, len |-> me.len,
                                               next |-> me.next + 1]
<1> DEFINE me == notifiers[n]
<1>1. notifiers \in Seq(NoteTypes) /\ me \in NoteTypes /\ Placed(me) /\ ListInv
  BY DEF IInv, NoteInv, Placed
<1>2. me.o \in DOMAIN arrays /\ me.o \in DOMAIN slice
  BY <1>1, Entries DEF Placed
<1>3. slice[me.o] \in Nat /\ Len(arrays[me.o]) \in Nat
  <2> DEFINE T == Seq(Seq(Subscribers \cup {Nil}))
  <2>1. slice \in Seq(Nat) /\ arrays \in Seq(T)
    BY <1>1 DEF ListInv
  <2> HIDE DEF me
  <2>2. arrays[me.o] \in T
    <3> HIDE DEF T
    <3> QED
      BY <1>2, <2>1
  <2> QED
    BY <1>2, <2>1, <2>2
<1>4. ASSUME notifiers' = RemoveAt(notifiers, n)
      PROVE  /\ notifiers' \in Seq(NoteTypes)
             /\ \A i \in DOMAIN notifiers' :
                   \E k \in DOMAIN notifiers : k # n /\ notifiers'[i] = notifiers[k]
             /\ \A k \in DOMAIN notifiers : k # n =>
                   \E i \in DOMAIN notifiers' : notifiers'[i] = notifiers[k]
  BY <1>1, <1>4, Dropped
<1>5. ASSUME NEW r \in NoteTypes, notifiers' = [notifiers EXCEPT ![n] = r]
      PROVE  /\ notifiers' \in Seq(NoteTypes) /\ DOMAIN notifiers' = DOMAIN notifiers
             /\ notifiers'[n] = r
             /\ \A i \in DOMAIN notifiers : i # n => notifiers'[i] = notifiers[i]
             /\ \A k \in DOMAIN notifiers : k # n =>
                   \E i \in DOMAIN notifiers' : notifiers'[i] = notifiers[k]
  <2>1. /\ notifiers' \in Seq(NoteTypes) /\ DOMAIN notifiers' = DOMAIN notifiers
        /\ notifiers'[n] = r
        /\ \A i \in DOMAIN notifiers : i # n => notifiers'[i] = notifiers[i]
    BY <1>1, <1>5, Replaced
  <2> QED
    BY <2>1
<1>6. CASE BeginNotify(n) /\ slice[me.o] = 0
  BY <1>4, <1>6 DEF BeginNotify
<1>7. CASE NotifyNext(n) /\ me.next = me.len
  BY <1>4, <1>7 DEF NotifyNext
<1>8. CASE BeginNotify(n) /\ slice[me.o] # 0
  <2> DEFINE u == [me EXCEPT !.in = Len(arrays[me.o])]
             v == [u EXCEPT !.len = slice[me.o]]
             r == [o |-> me.o, in |-> Len(arrays[me.o]), len |-> slice[me.o], next |-> 1]
  <2>1. notifiers' = [notifiers EXCEPT ![n] = v] /\ me.len = -1 /\ me.next = 1
    BY <1>1, <1>8 DEF BeginNotify, Placed
  <2>2. v = r
    <3> DEFINE a == Len(arrays[me.o])
               b == slice[me.o]
    <3>1. me \in NoteTypes /\ a \in Nat /\ b \in Nat /\ me.next = 1
      BY <1>1, <1>3, <2>1
    <3> HIDE DEF me, a, b
    <3>2. [[me EXCEPT !.in = a] EXCEPT !.len = b]
            = [o |-> me.o, in |-> a, len |-> b, next |-> me.next]
      BY <3>1, NoteWritten
    <3> QED
      BY <3>1, <3>2 DEF a, b
  <2>3. r \in NoteTypes
    BY <1>1, <1>3, <2>1, NoteWritten
  <2> HIDE DEF r, u, v
  <2>4. /\ notifiers' \in Seq(NoteTypes) /\ DOMAIN notifiers' = DOMAIN notifiers
        /\ notifiers'[n] = r
        /\ \A i \in DOMAIN notifiers : i # n => notifiers'[i] = notifiers[i]
        /\ \A k \in DOMAIN notifiers : k # n =>
              \E i \in DOMAIN notifiers' : notifiers'[i] = notifiers[k]
    BY <1>5, <2>1, <2>2, <2>3
  <2> QED
    BY <1>8, <2>4 DEF r
<1>9. CASE NotifyNext(n) /\ me.next # me.len
  <2> DEFINE v == [me EXCEPT !.next = me.next + 1]
             r == [o |-> me.o, in |-> me.in, len |-> me.len, next |-> me.next + 1]
  <2>1. notifiers' = [notifiers EXCEPT ![n] = v]
    BY <1>1, <1>9 DEF NotifyNext
  <2>2. v = r /\ r \in NoteTypes
    <3>1. me.next + 1 \in Nat
      BY <1>1 DEF NoteTypes
    <3> QED
      BY <1>1, <3>1, NoteWritten
  <2> HIDE DEF r, v
  <2>4. /\ notifiers' \in Seq(NoteTypes) /\ DOMAIN notifiers' = DOMAIN notifiers
        /\ notifiers'[n] = r
        /\ \A i \in DOMAIN notifiers : i # n => notifiers'[i] = notifiers[i]
        /\ \A k \in DOMAIN notifiers : k # n =>
              \E i \in DOMAIN notifiers' : notifiers'[i] = notifiers[k]
    BY <1>5, <2>1, <2>2
  <2> QED
    BY <1>9, <2>4 DEF r
<1> QED
  BY <1>6, <1>7, <1>8, <1>9

(* A notification stays at a place of the array it read.                   *)
LEMMA NoteStep ==
    ASSUME IInv, [ProgressNext]_progress
    PROVE  NoteInv'
<1>1. /\ notifiers \in Seq(NoteTypes) /\ \A n \in DOMAIN notifiers : Placed(notifiers[n])
      /\ \A n \in DOMAIN notifiers : notifiers[n] \in NoteTypes
      /\ Types /\ ListInv /\ \A j \in DOMAIN jobs : JobOf(j)
  BY DEF IInv, NoteInv, Placed, JobInv, JobOf
<1>2. SUFFICES notifiers' \in Seq(NoteTypes) /\ \A n \in DOMAIN notifiers' : Placed(notifiers[n])'
  BY DEF NoteInv, Placed
<1>3. ASSUME NEW n \in DOMAIN notifiers', NEW k \in DOMAIN notifiers, notifiers'[n] = notifiers[k]
      PROVE  Placed(notifiers[n])'
  <2>1. Placed(notifiers[k])
    BY <1>1
  <2> QED
    BY <1>3, <2>1, ArraysGrow DEF Placed
<1>4. CASE notifiers' = notifiers
  BY <1>1, <1>3, <1>4
<1>5. ASSUME NEW j \in DOMAIN jobs, jobs[j].kind = "update", jobs[j].pc \in {"save", "set", "unsaved"},
             notifiers' = notifyNow(jobs[j].tracker)
      PROVE  notifiers' \in Seq(NoteTypes) /\ \A n \in DOMAIN notifiers' : Placed(notifiers[n])'
  <2> DEFINE o == jobs[j].tracker
             r == [o |-> o, in |-> 0, len |-> -1, next |-> 1]
  <2>1. o \in Nat \ {0} /\ o \in DOMAIN arrays
    <3>1. jobs \in Seq(JobTypes) /\ o <= Len(stage) /\ o # 0
      BY <1>1, <1>5 DEF Types, JobOf, NoEntry
    <3>2. jobs[j] \in JobTypes
      BY <3>1
    <3>3. o \in Nat
      BY <3>2 DEF JobTypes
    <3> HIDE DEF o
    <3> QED
      BY <3>1, <3>3, Entries
  <2> HIDE DEF o
  <2>2. /\ notifiers' \in Seq(NoteTypes)
        /\ \A n \in DOMAIN notifiers : n \in DOMAIN notifiers' /\ notifiers'[n] = notifiers[n]
        /\ \A n \in DOMAIN notifiers' : n \in DOMAIN notifiers \/ notifiers'[n] = r
    BY <1>5, <2>1, NoteAdded DEF o
  <2>3. ASSUME NEW n \in DOMAIN notifiers', notifiers'[n] = r PROVE Placed(notifiers[n])'
    BY <2>1, <2>3, ArraysGrow DEF Placed
  <2> QED
    BY <1>3, <2>2, <2>3
<1>6. ASSUME NEW n \in DOMAIN notifiers, BeginNotify(n) \/ NotifyNext(n)
      PROVE  notifiers' \in Seq(NoteTypes) /\ \A k \in DOMAIN notifiers' : Placed(notifiers[k])'
  <2> DEFINE me == notifiers[n]
  <2>1. notifiers' \in Seq(NoteTypes)
    BY <1>6, NoteMoves
  <2>2. CASE \A i \in DOMAIN notifiers' :
               \E k \in DOMAIN notifiers : k # n /\ notifiers'[i] = notifiers[k]
    BY <1>3, <2>1, <2>2
  <2>3. CASE /\ DOMAIN notifiers' = DOMAIN notifiers
             /\ \A i \in DOMAIN notifiers : i # n => notifiers'[i] = notifiers[i]
    <3>1. ASSUME NEW i \in DOMAIN notifiers', i # n PROVE Placed(notifiers[i])'
      BY <1>3, <2>3, <3>1
    <3>2. Placed(me) /\ me \in NoteTypes
      BY <1>1
    <3>3. ASSUME BeginNotify(n), slice[me.o] # 0,
                 notifiers'[n] = [o |-> me.o, in |-> Len(arrays[me.o]),
                                  len |-> slice[me.o], next |-> 1]
          PROVE  Placed(notifiers[n])'
      <4>1. arrays' = arrays
        BY <3>3 DEF BeginNotify, observables
      <4>2. me.o \in DOMAIN arrays /\ arrays[me.o] # <<>> /\ slice[me.o] \in 0 .. Len(array(me.o))
        BY <1>1, <3>2, Entries DEF Placed, ListInv
      <4>3. Len(arrays[me.o]) \in DOMAIN arrays[me.o] /\ Len(array(me.o)) \in Nat
        <5> DEFINE T == Seq(Seq(Subscribers \cup {Nil}))
                   x == me.o
        <5>1. arrays \in Seq(T) /\ x \in DOMAIN arrays /\ arrays[x] # <<>>
          BY <1>1, <4>2 DEF ListInv
        <5> HIDE DEF me, x
        <5>2. arrays[x] \in T
          <6> HIDE DEF T
          <6> QED
            BY <5>1
        <5>3. Len(arrays[x]) \in DOMAIN arrays[x]
          BY <5>1, <5>2
        <5>4. arrays[x][Len(arrays[x])] \in Seq(Subscribers \cup {Nil})
          BY <5>2, <5>3
        <5> QED
          BY <5>3, <5>4 DEF x, array
      <4>4. slice[me.o] \in 1 .. Len(array(me.o)) /\ 1 \in 1 .. slice[me.o]
        BY <3>3, <4>2, <4>3
      <4>5. slice[me.o] # -1
        BY <4>4
      <4> HIDE DEF me
      <4>6. /\ notifiers'[n].o = me.o /\ notifiers'[n].in = Len(arrays[me.o])
            /\ notifiers'[n].len = slice[me.o] /\ notifiers'[n].next = 1
        BY <3>3
      <4> QED
        BY <4>1, <4>2, <4>3, <4>4, <4>5, <4>6 DEF Placed, array
    <3>4. ASSUME NotifyNext(n), me.next # me.len,
                 notifiers'[n] = [o |-> me.o, in |-> me.in, len |-> me.len,
                                  next |-> me.next + 1]
          PROVE  Placed(notifiers[n])'
      <4>1. arrays' = arrays /\ me.len # -1
        BY <3>4 DEF NotifyNext, observables
      <4>2. /\ me.o \in DOMAIN arrays /\ me.in \in DOMAIN arrays[me.o]
            /\ me.len \in 1 .. Len(arrays[me.o][me.in]) /\ me.next \in 1 .. me.len
        BY <3>2, <4>1 DEF Placed
      <4>3. me.next + 1 \in 1 .. me.len
        <5>1. me.next \in Nat /\ me.len \in Int
          BY <3>2 DEF NoteTypes
        <5> HIDE DEF me
        <5> QED
          BY <3>4, <4>2, <5>1
      <4> HIDE DEF me
      <4> QED
        BY <3>4, <4>1, <4>2, <4>3 DEF Placed
    <3>5. Placed(notifiers[n])'
      <4>1. \/ \A i \in DOMAIN notifiers' :
                 \E k \in DOMAIN notifiers : k # n /\ notifiers'[i] = notifiers[k]
            \/ /\ BeginNotify(n) /\ slice[me.o] # 0
               /\ notifiers'[n] = [o |-> me.o, in |-> Len(arrays[me.o]),
                                   len |-> slice[me.o], next |-> 1]
            \/ /\ NotifyNext(n) /\ me.next # me.len
               /\ notifiers'[n] = [o |-> me.o, in |-> me.in, len |-> me.len,
                                   next |-> me.next + 1]
        BY <1>6, NoteMoves
      <4> QED
        BY <1>3, <2>3, <3>3, <3>4, <4>1
    <3> QED
      BY <2>1, <2>3, <3>1, <3>5
  <2>4. \/ \A i \in DOMAIN notifiers' :
             \E k \in DOMAIN notifiers : k # n /\ notifiers'[i] = notifiers[k]
        \/ /\ DOMAIN notifiers' = DOMAIN notifiers
           /\ \A i \in DOMAIN notifiers : i # n => notifiers'[i] = notifiers[i]
    BY <1>6, NoteMoves
  <2> QED
    BY <2>2, <2>3, <2>4
<1> QED
  BY <1>4, <1>5, <1>6, NoteKinds

-----------------------------------------------------------------------------
(* The entry and the pages tell the status.                                *)

(* A status that is saved and not set, or to be saved, stays so until a    *)
(* stage is set.                                                           *)
LEMMA UnsettledStays ==
    ASSUME IInv, [ProgressNext]_progress, Unsettled, \A j \in DOMAIN jobs : ~SetNewStage(j)
    PROVE  Unsettled'
<1>1. /\ Types /\ jobs \in Seq(JobTypes) /\ \A j \in DOMAIN jobs : JobOf(j)
      /\ DOMAIN jobs = 1 .. Len(jobs) /\ Len(jobs) \in Nat
  BY DEF IInv, Types, JobInv, JobOf
<1>2. CASE lastSaver' # lastSaver
  <2>1. PICK j \in DOMAIN jobs : SaveStatus(j)
    <3>1. ASSUME NEW j \in DOMAIN jobs, GetOrCreate(j) \/ SetNewStage(j) \/ runNext(j) \/ Follow(j)
          PROVE  lastSaver' = lastSaver
      BY <3>1 DEF GetOrCreate, SetNewStage, runNext, Follow
    <3>2. StopRepository => lastSaver' = lastSaver
      BY DEF StopRepository
    <3>3. ASSUME NEW k \in JobKinds, Start(k) PROVE lastSaver' = lastSaver
      BY <3>3 DEF Start
    <3> QED
      BY <1>2, <3>1, <3>2, <3>3, JobStepKinds DEF JobsStay
  <2>2. OneJob(j) /\ (jobs'[j].pc = "set" \/ lastSaver' = NotSaved)
    BY <1>1, <1>2, <2>1, JobSaves
  <2> QED
    BY <2>2 DEF Unsettled, OneJob, OutOfStep
<1>3. CASE lastSaver' = lastSaver /\ OutOfStep
  BY <1>1, <1>3, OutStays DEF Unsettled
<1>4. ASSUME NEW j \in DOMAIN jobs, jobs[j].pc = "set" \/ Fresh(j)
      PROVE  Unsettled'
  <2>1. CASE jobs'[j] = jobs[j]
    <3>1. j \in DOMAIN jobs'
      BY <1>1, JobsGrow
    <3> QED
      BY <1>4, <2>1, <3>1 DEF Unsettled, Fresh
  <2>2. CASE jobs'[j] # jobs[j]
    <3>1. jobs' # jobs
      BY <2>2
    <3>2. \A k \in JobKinds : ~Start(k)
      BY <1>1, <2>2, JobStarts
    <3>3. ~StopRepository /\ ~JobsStay
      BY <3>1 DEF StopRepository, JobsStay
    <3>4. PICK i \in DOMAIN jobs : GetOrCreate(i) \/ SaveStatus(i) \/ runNext(i) \/ Follow(i)
      BY <3>2, <3>3, JobStepKinds
    <3>5. CASE GetOrCreate(i) \/ SaveStatus(i) \/ runNext(i)
      <4>1. OneJob(i)
        BY <1>1, <3>5, JobCreates, JobSaves, JobEnds
      <4>2. i = j
        BY <2>2, <4>1 DEF OneJob
      <4>3. CASE GetOrCreate(i)
        <5>1. jobs'[j].pc \in {"create", "save"} /\ jobs'[j].saves = jobs[j].saves
              /\ jobs[j].pc \in {"begin", "create"}
          BY <1>1, <4>2, <4>3, JobCreates
        <5> QED
          BY <1>4, <4>1, <4>2, <5>1 DEF Unsettled, Fresh, OneJob
      <4>4. CASE SaveStatus(i)
        <5>1. /\ jobs[j].pc = "save"
              /\ jobs'[j].pc = "set" \/ jobs[j].kind = "check" \/ lastSaver' = NotSaved
          BY <1>1, <4>2, <4>4, JobSaves
        <5>2. jobs[j].kind # "check"
          BY <1>4, <5>1 DEF Fresh
        <5> QED
          BY <4>1, <4>2, <5>1, <5>2 DEF Unsettled, OneJob, OutOfStep
      <4>5. CASE runNext(i)
        <5>1. jobs[j].pc = "report"
          BY <1>1, <4>2, <4>5, JobEnds
        <5> QED
          BY <1>4, <5>1 DEF Fresh
      <4> QED
        BY <3>5, <4>3, <4>4, <4>5
    <3>6. CASE Follow(i)
      <4>1. jobs[i].pc = "report" /\ (j # i => jobs'[j] = jobs[j])
        BY <1>1, <3>6, JobFollows
      <4> QED
        BY <1>4, <2>2, <4>1 DEF Fresh
    <3> QED
      BY <3>4, <3>5, <3>6
  <2> QED
    BY <2>1, <2>2
<1> QED
  BY <1>2, <1>3, <1>4 DEF Unsettled

(* A stage that is set is announced, on the entry that the clients get, or *)
(* is out of step with the status in the database.                         *)
LEMMA SetSettled ==
    ASSUME IInv, NEW j \in DOMAIN jobs, SetNewStage(j)
    PROVE  SettledInv'
<1>1. /\ Types /\ ListInv /\ jobs \in Seq(JobTypes) /\ JobOf(j) /\ AloneInv /\ LockInv
      /\ DOMAIN jobs = 1 .. Len(jobs) /\ Len(jobs) \in Nat /\ stage \in Seq(Stages)
  BY DEF IInv, Types, JobInv, JobOf
<1>2. /\ UNCHANGED <<db, registry, removing, slice, arrays, current, client, shown, ticks,
                     lastSaver, detached, missed, late>>
      /\ jobs[j].pc \in {"set", "unsaved"}
      /\ jobs[j].kind # "check" =>
            /\ stage' = [stage EXCEPT ![jobs[j].tracker] = jobs[j].saves]
            /\ notifiers' = notifyNow(jobs[j].tracker)
  BY DEF SetNewStage
<1>3. CASE OutOfStep
  <2>1. ProgressNext
    BY DEF ProgressNext, ProcessStep
  <2>2. OutOfStep'
    BY <1>1, <1>2, <1>3, <2>1, OutStays
  <2> QED
    BY <2>2 DEF SettledInv, Unsettled
<1>4. CASE ~OutOfStep
  <2>1. lastSaver = j /\ j \notin detached /\ jobs[j].kind # "check" /\ db = jobs[j].saves
    <3>1. jobs[j].pc = "set" /\ lastSaver = j /\ j > 0
      BY <1>1, <1>2, <1>4 DEF JobOf
    <3> QED
      BY <1>1, <1>4, <3>1 DEF JobOf, OutOfStep
  <2>2. jobs[j].kind = "update"
    <3>1. jobs[j] \in JobTypes
      BY <1>1
    <3> QED
      BY <2>1, <3>1, ProgressAssumption DEF JobTypes
  <2>3. jobs[j].tracker = registry /\ registry # NoEntry
    BY <1>1, <1>2, <2>1, <2>2 DEF JobOf, Active, Over
  <2>4. registry \in Nat \ {0} /\ registry \in DOMAIN stage
    BY <2>3, Entries DEF NoEntry
  <2>5. stage'[registry] = db
    BY <1>1, <1>2, <2>1, <2>2, <2>3, <2>4
  <2>6. \A c \in Subscribers : client[c].pc # "create"
    BY <1>1, <2>3 DEF LockInv
  <2>7. EntrySettled'
    BY <1>2, <2>5, <2>6 DEF EntrySettled
  <2>8. Announced'
    <3> DEFINE n == Len(notifiers) + 1
    <3>1. n \in DOMAIN notifiers' /\ notifiers'[n] = [o |-> registry, in |-> 0, len |-> -1, next |-> 1]
      BY <1>2, <2>2, <2>3, <2>4, NoteAdded
    <3> HIDE DEF n
    <3>2. notifiers'[n].len = -1 /\ notifiers'[n].o = registry
      BY <3>1
    <3> QED
      BY <1>2, <2>5, <3>1, <3>2 DEF Announced
  <2>9. \A c \in Subscribers : ClientSettled(c)'
    BY <2>8 DEF ClientSettled
  <2> QED
    BY <2>7, <2>9 DEF SettledInv
<1> QED
  BY <1>3, <1>4

(* A notification that has not begun still will.                           *)
LEMMA AnnouncedStays ==
    ASSUME IInv, db' = db, Announced,
           \A n \in DOMAIN notifiers : notifiers[n].len = -1 =>
               \E i \in DOMAIN notifiers' : notifiers'[i] = notifiers[n],
           \A o \in DOMAIN stage : stage'[o] = stage[o]
    PROVE  Announced'
<1>1. PICK n \in DOMAIN notifiers : notifiers[n].len = -1 /\ stage[notifiers[n].o] = db
  BY DEF Announced
<1>2. PICK i \in DOMAIN notifiers' : notifiers'[i] = notifiers[n]
  BY <1>1
<1>3. notifiers[n].o \in DOMAIN stage
  BY Entries DEF IInv, NoteInv
<1> QED
  BY <1>1, <1>2, <1>3 DEF Announced

(* A notification that is to come to the place of a client still is.       *)
LEMMA ComingStays ==
    ASSUME IInv, NEW c \in Subscribers, Coming(c), client'[c].po = client[c].po,
           \A n \in DOMAIN notifiers : notifiers[n].len # -1 =>
               \E i \in DOMAIN notifiers' : notifiers'[i] = notifiers[n],
           \A o \in DOMAIN slice : slice'[o] = slice[o] /\ arrays'[o] = arrays[o]
    PROVE  Coming(c)'
<1> DEFINE o == client[c].po
<1>1. PICK n \in DOMAIN notifiers :
        /\ notifiers[n].len # -1 /\ notifiers[n].o = o
        /\ \E p \in notifiers[n].next .. notifiers[n].len :
              /\ arrays[o][notifiers[n].in][p] = c
              /\ notifiers[n].in = Len(arrays[o]) => p <= slice[o]
  BY DEF Coming
<1>2. PICK i \in DOMAIN notifiers' : notifiers'[i] = notifiers[n]
  BY <1>1
<1>3. o \in DOMAIN slice
  BY <1>1, Entries DEF IInv, NoteInv
<1>4. slice'[o] = slice[o] /\ arrays'[o] = arrays[o]
  BY <1>3
<1> DEFINE q == client'[c].po
<1>5. q = o
  OBVIOUS
<1> HIDE DEF o, q
<1>6. /\ notifiers'[i].len # -1 /\ notifiers'[i].o = q
      /\ \E p \in notifiers'[i].next .. notifiers'[i].len :
            /\ arrays'[q][notifiers'[i].in][p] = c
            /\ notifiers'[i].in = Len(arrays'[q]) => p <= slice'[q]
  BY <1>1, <1>2, <1>4, <1>5
<1> QED
  BY <1>6 DEF Coming, q

(* A client to which nothing happens, with its entry and notifications.    *)
LEMMA ClientKept ==
    ASSUME IInv, db' = db, NEW c \in Subscribers, ClientSettled(c),
           client'[c] = client[c], shown'[c] = shown[c],
           c \notin missed' => c \notin missed,
           \A o \in DOMAIN stage : stage'[o] = stage[o],
           c \notin missed' /\ Announced => Announced',
           c \notin missed' /\ client[c].pc = "listen" /\ Coming(c) => Coming(c)'
    PROVE  ClientSettled(c)'
<1>1. SUFFICES ASSUME client'[c].pc \in Waiting, c \notin missed'
               PROVE  \/ Announced'
                      \/ /\ client'[c].pc \in {"add", "listen", "busy"} => stage'[client'[c].po] = db'
                         /\ shown'[c] = db' \/ client'[c].pc = "busy" \/ (client'[c].pc = "listen" /\ Coming(c)')
  BY DEF ClientSettled, Waiting
<1>2. CASE Announced
  BY <1>1, <1>2
<1>3. CASE ~Announced
  <2>1. /\ client[c].pc \in {"add", "listen", "busy"} => stage[client[c].po] = db
        /\ shown[c] = db \/ client[c].pc = "busy" \/ (client[c].pc = "listen" /\ Coming(c))
    BY <1>1, <1>3 DEF ClientSettled
  <2>2. client[c].pc \in {"add", "listen", "busy"} => client[c].po \in DOMAIN stage
    <3>1. client[c].pc \in {"add", "listen", "busy"} => client[c].po # NoEntry
      BY DEF IInv, MemberInv
    <3> QED
      BY <3>1, Entries DEF NoEntry
  <2>3. client[c].pc \in {"add", "listen", "busy"} => stage'[client[c].po] = db
    BY <2>1, <2>2
  <2> QED
    BY <1>1, <2>1, <2>3
<1> QED
  BY <1>2, <1>3

(* The status is in the entry, and every page is told.                     *)
Settled == EntrySettled /\ \A c \in Subscribers : ClientSettled(c)

(* Subscribers and lists stay, and no notification goes.                       *)
LEMMA FrameSettled ==
    ASSUME IInv, Settled, db' = db, client' = client, shown' = shown, missed' = missed,
           stage' = stage, slice' = slice, arrays' = arrays, registry' \in {registry, NoEntry},
           \A n \in DOMAIN notifiers : \E i \in DOMAIN notifiers' : notifiers'[i] = notifiers[n]
    PROVE  Settled'
<1>1. EntrySettled'
  BY DEF Settled, EntrySettled
<1>2. ASSUME NEW c \in Subscribers PROVE ClientSettled(c)'
  <2>1. Announced => Announced'
    BY AnnouncedStays
  <2>2. Coming(c) => Coming(c)'
    BY ComingStays
  <2> QED
    BY <2>1, <2>2, ClientKept DEF Settled
<1> QED
  BY <1>1, <1>2 DEF Settled

(* A page that is queried shows the status.                                *)
LEMMA QuerySettled ==
    ASSUME IInv, Settled, NEW c \in Subscribers, Query(c)
    PROVE  Settled'
<1>1. /\ UNCHANGED <<db, registry, observables, notifiers, missed>>
      /\ shown' = [shown EXCEPT ![c] = db] /\ shown \in [Subscribers -> Stages]
  BY DEF Query, IInv, Types
<1>2. OneClient(c) /\ client'[c].pc = "asked"
  BY ClientActs DEF IInv
<1>3. EntrySettled'
  BY <1>1, <1>2 DEF Settled, EntrySettled, OneClient, observables
<1>4. ClientSettled(c)'
  BY <1>1, <1>2 DEF ClientSettled
<1>5. ASSUME NEW d \in Subscribers, d # c PROVE ClientSettled(d)'
  <2>1. client'[d] = client[d] /\ shown'[d] = shown[d]
    BY <1>1, <1>2, <1>5 DEF OneClient
  <2>2. Announced => Announced'
    BY <1>1, AnnouncedStays DEF observables
  <2>3. Coming(d) => Coming(d)'
    BY <1>1, <2>1, ComingStays DEF observables
  <2> QED
    BY <1>1, <2>1, <2>2, <2>3, ClientKept DEF Settled, observables
<1> QED
  BY <1>3, <1>4, <1>5 DEF Settled

(* A page that leaves is no longer told.                                   *)
LEMMA LeaveSettled ==
    ASSUME IInv, Settled, NEW c \in Subscribers, Leave(c)
    PROVE  Settled'
<1>1. UNCHANGED <<db, registry, observables, notifiers, missed, shown>>
  BY DEF Leave
<1>2. OneClient(c) /\ client'[c].pc = "leave"
  BY ClientActs DEF IInv
<1>3. EntrySettled'
  BY <1>1, <1>2 DEF Settled, EntrySettled, OneClient, observables
<1>4. ClientSettled(c)'
  BY <1>2 DEF ClientSettled, Waiting
<1>5. ASSUME NEW d \in Subscribers, d # c PROVE ClientSettled(d)'
  <2>1. client'[d] = client[d] /\ shown'[d] = shown[d]
    BY <1>1, <1>2, <1>5 DEF OneClient
  <2>2. Announced => Announced'
    BY <1>1, AnnouncedStays DEF observables
  <2>3. Coming(d) => Coming(d)'
    BY <1>1, <2>1, ComingStays DEF observables
  <2> QED
    BY <1>1, <2>1, <2>2, <2>3, ClientKept DEF Settled, observables
<1> QED
  BY <1>3, <1>4, <1>5 DEF Settled

(* What a page shows when it is told is the stage of its entry.            *)
LEMMA ShowSettled ==
    ASSUME IInv, Settled, NEW c \in Subscribers, Show(c)
    PROVE  Settled'
<1>1. /\ UNCHANGED <<db, registry, observables, notifiers>>
      /\ shown' = [shown EXCEPT ![c] = stage[client[c].po]] /\ shown \in [Subscribers -> Stages]
      /\ missed' = IF client[c].po = registry THEN missed \ {c} ELSE missed
  BY DEF Show, IInv, Types
<1>2. OneClient(c) /\ client[c].pc = "busy" /\ client'[c].pc = "listen" /\ client'[c].po = client[c].po
  BY ClientActs DEF IInv
<1>3. EntrySettled'
  BY <1>1, <1>2 DEF Settled, EntrySettled, OneClient, observables
<1>4. Announced => Announced'
  BY <1>1, AnnouncedStays DEF observables
<1>5. ClientSettled(c)'
  <2>1. CASE c \in missed /\ client[c].po = registry
    <3>1. registry # NoEntry
      BY <1>2, <2>1 DEF IInv, MemberInv
    <3>2. stage[client[c].po] = db
      BY <2>1, <3>1 DEF Settled, EntrySettled
    <3>3. stage'[client'[c].po] = db' /\ shown'[c] = db'
      BY <1>1, <1>2, <3>2 DEF observables
    <3> QED
      BY <3>3 DEF ClientSettled
  <2>2. CASE c \in missed /\ client[c].po # registry
    BY <1>1, <2>2 DEF ClientSettled
  <2>3. CASE c \notin missed
    <3>1. Announced \/ stage[client[c].po] = db
      BY <1>2, <2>3 DEF Settled, ClientSettled, Waiting
    <3>2. stage[client[c].po] = db => stage'[client'[c].po] = db' /\ shown'[c] = db'
      BY <1>1, <1>2 DEF observables
    <3> QED
      BY <1>4, <3>1, <3>2 DEF ClientSettled
  <2> QED
    BY <2>1, <2>2, <2>3
<1>6. ASSUME NEW d \in Subscribers, d # c PROVE ClientSettled(d)'
  <2>1. client'[d] = client[d] /\ shown'[d] = shown[d] /\ (d \notin missed' => d \notin missed)
    BY <1>1, <1>2, <1>6 DEF OneClient
  <2>2. Coming(d) => Coming(d)'
    BY <1>1, <2>1, ComingStays DEF observables
  <2> QED
    BY <1>1, <1>4, <2>1, <2>2, ClientKept DEF Settled, observables
<1> QED
  BY <1>3, <1>5, <1>6 DEF Settled

(* A client that joins gets the entry of the registry, or makes one that   *)
(* tells the status it has read under the lock.                            *)
LEMMA GetSettled ==
    ASSUME IInv, Settled, NEW c \in Subscribers, GetOrCreateStateful(c)
    PROVE  Settled'
<1>1. UNCHANGED <<db, notifiers, shown, missed>>
  BY DEF GetOrCreateStateful
<1>2. Types /\ ListInv /\ OneClient(c)
  BY ClientGets DEF IInv
<1>3. CASE registry' = registry /\ UNCHANGED observables
  <2>1. EntrySettled'
    <3>1. client[c].pc \in {"asked", "locked", "create"}
          /\ (client'[c].pc = "create" => client'[c].read = db)
      <4>1. client'[c].pc = "create" => client[c].pc = "locked"
        BY <1>2, ClientGets
      <4> QED
        BY <1>2, <4>1, ClientGets
    <3> QED
      BY <1>1, <1>2, <1>3, <3>1 DEF Settled, EntrySettled, OneClient, observables
  <2>2. Announced => Announced'
    BY <1>1, <1>3, AnnouncedStays DEF observables
  <2>3. ClientSettled(c)'
    <3> SUFFICES ASSUME client'[c].pc \in Waiting, c \notin missed', ~Announced
                 PROVE  /\ client'[c].pc \in {"add", "listen", "busy"} => stage'[client'[c].po] = db'
                        /\ shown'[c] = db'
      BY <2>2 DEF ClientSettled
    <3>1. client[c].pc \in {"asked", "locked", "create"}
      BY <1>2, ClientGets
    <3>2. shown[c] = db
      BY <1>1, <3>1 DEF Settled, ClientSettled, Waiting
    <3>3. client'[c].pc \in {"add", "listen", "busy"} => client'[c].po = registry' /\ registry' # NoEntry
      BY <1>2, <1>3, ClientGets, Entries DEF NoEntry
    <3>4. client'[c].pc \in {"add", "listen", "busy"} => stage'[client'[c].po] = db'
      BY <1>1, <1>3, <3>3 DEF Settled, EntrySettled, observables
    <3> QED
      BY <1>1, <3>2, <3>4
  <2>4. ASSUME NEW d \in Subscribers, d # c PROVE ClientSettled(d)'
    <3>1. client'[d] = client[d] /\ shown'[d] = shown[d]
      BY <1>1, <1>2, <2>4 DEF OneClient
    <3>2. Coming(d) => Coming(d)'
      BY <1>1, <1>3, <3>1, ComingStays DEF observables
    <3> QED
      BY <1>1, <1>3, <2>2, <3>1, <3>2, ClientKept DEF Settled, observables
  <2> QED
    BY <2>1, <2>3, <2>4 DEF Settled
<1>4. CASE ~(registry' = registry /\ UNCHANGED observables)
  <2>1. /\ client[c].pc = "create" /\ client'[c].pc = "add"
        /\ newProgressObservable(client[c].read)
        /\ registry' = Len(stage) + 1 /\ client'[c].po = registry'
    BY <1>2, <1>4, ClientGets
  <2>2. client[c].read \in Stages /\ client[c].read = db
    BY <1>2, <2>1 DEF Types, ClientTypes, Settled, EntrySettled
  <2>3. /\ stage'[Len(stage) + 1] = db
        /\ \A o \in 1 .. Len(stage) :
              stage'[o] = stage[o] /\ slice'[o] = slice[o] /\ arrays'[o] = arrays[o]
    BY <1>2, <2>1, <2>2, NewEntry
  <2>4. stage'[registry'] = db' /\ stage'[client'[c].po] = db'
    BY <1>1, <2>1, <2>3
  <2>5. /\ \A o \in DOMAIN stage : stage'[o] = stage[o]
        /\ \A o \in DOMAIN slice : slice'[o] = slice[o] /\ arrays'[o] = arrays[o]
    BY <2>3, Entries
  <2>6. EntrySettled'
    BY <1>1, <1>2, <2>1, <2>4 DEF Settled, EntrySettled, OneClient
  <2>7. Announced => Announced'
    BY <1>1, <2>5, AnnouncedStays
  <2>8. ClientSettled(c)'
    <3>1. c \notin missed => Announced \/ shown[c] = db
      BY <2>1 DEF Settled, ClientSettled, Waiting
    <3> QED
      BY <1>1, <2>4, <2>7, <3>1 DEF ClientSettled
  <2>9. ASSUME NEW d \in Subscribers, d # c PROVE ClientSettled(d)'
    <3>1. client'[d] = client[d] /\ shown'[d] = shown[d]
      BY <1>1, <1>2, <2>9 DEF OneClient
    <3>2. Coming(d) => Coming(d)'
      BY <1>1, <2>5, <3>1, ComingStays
    <3> QED
      BY <1>1, <2>5, <2>7, <3>1, <3>2, ClientKept DEF Settled
  <2> QED
    BY <2>6, <2>8, <2>9 DEF Settled
<1> QED
  BY <1>3, <1>4

(* Who joins is behind the others, in a new array perhaps, and shows the   *)
(* status already.                                                         *)
LEMMA AddSettled ==
    ASSUME IInv, Settled, NEW c \in Subscribers, AddObserver(c)
    PROVE  Settled'
<1>1. UNCHANGED <<db, registry, stage, notifiers, shown, missed>>
  BY DEF AddObserver
<1>2. OneClient(c) /\ client[c].pc = "add" /\ client'[c].pc = "listen" /\ client'[c].po = client[c].po
  BY ClientActs DEF IInv
<1>3. EntrySettled'
  BY <1>1, <1>2 DEF Settled, EntrySettled, OneClient
<1>4. Announced => Announced'
  BY <1>1, AnnouncedStays
<1>5. ClientSettled(c)'
  <2>1. c \notin missed => Announced \/ (stage[client[c].po] = db /\ shown[c] = db)
    BY <1>2 DEF Settled, ClientSettled, Waiting
  <2> QED
    BY <1>1, <1>2, <1>4, <2>1 DEF ClientSettled
<1>6. ASSUME NEW d \in Subscribers, d # c PROVE ClientSettled(d)'
  <2>1. client'[d] = client[d] /\ shown'[d] = shown[d]
    BY <1>1, <1>2, <1>6 DEF OneClient
  <2>2. ASSUME Coming(d) PROVE Coming(d)'
    <3>1. PICK o : o = client[d].po
      OBVIOUS
    <3>2. PICK n \in DOMAIN notifiers :
            /\ notifiers[n].len # -1 /\ notifiers[n].o = o
            /\ \E p \in notifiers[n].next .. notifiers[n].len :
                  /\ arrays[o][notifiers[n].in][p] = d
                  /\ notifiers[n].in = Len(arrays[o]) => p <= slice[o]
      BY <2>2, <3>1 DEF Coming
    <3>3. /\ o \in DOMAIN slice /\ notifiers[n].in \in DOMAIN arrays[o]
          /\ notifiers[n].len \in 1 .. Len(arrays[o][notifiers[n].in])
          /\ notifiers[n].next \in 1 .. notifiers[n].len
      BY <3>2, Entries DEF IInv, NoteInv
    <3> DEFINE k == notifiers[n].in
               m == Len(arrays[o])
    <3>4. m \in Nat /\ k \in 1 .. m /\ slice[o] \in Nat
      <4>1. arrays \in Seq(Seq(Seq(Subscribers \cup {Nil}))) /\ slice \in Seq(Nat) /\ o \in DOMAIN arrays
        BY <3>3, Entries DEF IInv, ListInv
      <4>2. arrays[o] \in Seq(Seq(Subscribers \cup {Nil}))
        <5> DEFINE T == Seq(Seq(Subscribers \cup {Nil}))
        <5>1. arrays \in Seq(T)
          BY <4>1
        <5> HIDE DEF T
        <5>2. arrays[o] \in T
          BY <4>1, <5>1
        <5> QED
          BY <5>2 DEF T
      <4>3. slice[o] \in Nat
        BY <3>3, <4>1
      <4>4. m \in Nat /\ DOMAIN arrays[o] = 1 .. m
        BY <4>2
      <4> QED
        BY <3>3, <4>3, <4>4
    <3>5. PICK p \in notifiers[n].next .. notifiers[n].len :
             arrays[o][k][p] = d /\ (k = m => p <= slice[o])
      BY <3>2
    <3>6. p \in 1 .. Len(arrays[o][k])
      <4>1. notifiers[n].len \in Int /\ notifiers[n].next \in Int
        BY <3>3
      <4> QED
        BY <3>3, <3>5, <4>1
    <3>7. /\ Len(arrays'[o]) \in {m, m + 1} /\ slice'[o] \in {slice[o], slice[o] + 1}
          /\ k < Len(arrays'[o]) \/ p <= slice[o] => arrays'[o][k][p] = d
      <4>1. CASE o = client[c].po
        <5>1. /\ slice'[o] = slice[o] + 1
              /\ Len(arrays'[o]) \in {Len(arrays[o]), Len(arrays[o]) + 1}
              /\ \A x \in 1 .. Len(arrays[o]) :
                    /\ Len(arrays'[o][x]) = Len(arrays[o][x])
                    /\ \A y \in 1 .. Len(arrays[o][x]) :
                          x < Len(arrays'[o]) \/ y <= slice[o] =>
                              arrays'[o][x][y] = arrays[o][x][y]
          BY <4>1, Added DEF IInv
        <5> QED
          BY <3>4, <3>5, <3>6, <5>1
      <4>2. CASE o # client[c].po
        <5>1. slice'[o] = slice[o] /\ arrays'[o] = arrays[o]
          BY <3>3, <4>2, Added DEF IInv
        <5> QED
          BY <3>5, <5>1
      <4> QED
        BY <4>1, <4>2
    <3> HIDE DEF k, m
    <3>8. /\ arrays'[o][k][p] = d
          /\ k = Len(arrays'[o]) => p <= slice'[o]
      <4>1. p \in Int
        BY <3>6
      <4> QED
        BY <3>4, <3>5, <3>7, <4>1
    <3>9. /\ notifiers'[n].len # -1 /\ notifiers'[n].o = o
          /\ \E x \in notifiers'[n].next .. notifiers'[n].len :
                /\ arrays'[o][notifiers'[n].in][x] = d
                /\ notifiers'[n].in = Len(arrays'[o]) => x <= slice'[o]
      BY <1>1, <3>2, <3>5, <3>8 DEF k
    <3>10. client'[d].po = o /\ DOMAIN notifiers' = DOMAIN notifiers
      BY <1>1, <2>1, <3>1
    <3> QED
      BY <3>9, <3>10 DEF Coming
  <2> QED
    BY <1>1, <1>4, <2>1, <2>2, ClientKept DEF Settled
<1> QED
  BY <1>3, <1>5, <1>6 DEF Settled

(* Who leaves a list is replaced by the last, whom a notification passes   *)
(* over when it is beyond that place.                                      *)
LEMMA RemoveSettled ==
    ASSUME IInv, Settled, NEW c \in Subscribers, RemoveObserver(c)
    PROVE  Settled'
<1>1. UNCHANGED <<db, registry, stage, notifiers>> /\ shown' = [shown EXCEPT ![c] = "Queued"]
  BY Zenon DEF RemoveObserver
<1>2. OneClient(c) /\ client'[c].pc = "gone"
  BY ClientActs DEF IInv
<1>3. EntrySettled'
  BY <1>1, <1>2 DEF Settled, EntrySettled, OneClient
<1>4. Announced => Announced'
  BY <1>1, AnnouncedStays
<1>5. ClientSettled(c)'
  BY <1>2 DEF ClientSettled, Waiting
<1>6. ASSUME NEW d \in Subscribers, d # c PROVE ClientSettled(d)'
  <2>1. client'[d] = client[d] /\ shown'[d] = shown[d]
    BY <1>1, <1>2, <1>6 DEF OneClient, IInv, Types
  <2>2. CASE client[c].po = NoEntry \/ c \notin Observers(client[c].po)
    <3>1. slice' = slice /\ arrays' = arrays /\ missed' = missed \ {c}
      BY <2>2, NotRemoved
    <3>2. Coming(d) => Coming(d)'
      BY <1>1, <2>1, <3>1, ComingStays
    <3>3. d \notin missed' => d \notin missed
      BY <1>6, <3>1
    <3> QED
      BY <1>1, <1>4, <2>1, <3>2, <3>3, ClientKept DEF Settled
  <2>3. CASE client[c].po # NoEntry /\ c \in Observers(client[c].po)
    <3>1. PICK w : w = client[c].po
      OBVIOUS
    <3>2. /\ w \in DOMAIN slice
          /\ \A x \in DOMAIN slice : x # w => slice'[x] = slice[x] /\ arrays'[x] = arrays[x]
          /\ slice'[w] = slice[w] - 1 /\ Len(arrays'[w]) = Len(arrays[w])
          /\ \A k \in 1 .. Len(arrays[w]) : k # Len(arrays[w]) => arrays'[w][k] = arrays[w][k]
      BY <2>3, <3>1, Removed DEF IInv
    <3>3. PICK i \in 1 .. slice[w] :
            /\ array(w)[i] = c
            /\ missed' = (missed \cup Skipped(w, i)) \ {c}
            /\ \A p \in 1 .. slice[w] : p # i /\ p # slice[w] => array(w)'[p] = array(w)[p]
            /\ i # slice[w] => array(w)'[i] = array(w)[slice[w]]
      BY <2>3, <3>1, Removed DEF IInv
    <3>4. d \notin missed' => d \notin missed /\ d \notin Skipped(w, i)
      BY <1>6, <3>3
    <3>5. ASSUME Coming(d), d \notin missed' PROVE Coming(d)'
      <4>1. PICK o : o = client[d].po
        OBVIOUS
      <4>2. PICK n \in DOMAIN notifiers :
              /\ notifiers[n].len # -1 /\ notifiers[n].o = o
              /\ \E p \in notifiers[n].next .. notifiers[n].len :
                    /\ arrays[o][notifiers[n].in][p] = d
                    /\ notifiers[n].in = Len(arrays[o]) => p <= slice[o]
        BY <3>5, <4>1 DEF Coming
      <4>3. /\ o \in DOMAIN slice /\ notifiers[n].in \in DOMAIN arrays[o]
            /\ notifiers[n].len \in 1 .. Len(arrays[o][notifiers[n].in])
            /\ notifiers[n].next \in 1 .. notifiers[n].len
        BY <4>2, Entries DEF IInv, NoteInv
      <4> DEFINE k == notifiers[n].in
                 m == Len(arrays[o])
                 from == notifiers[n].next
                 to == notifiers[n].len
      <4>4. m \in Nat /\ k \in 1 .. m /\ slice[o] \in Nat /\ from \in Nat \ {0} /\ to \in Nat
        <5>1. arrays \in Seq(Seq(Seq(Subscribers \cup {Nil}))) /\ slice \in Seq(Nat) /\ o \in DOMAIN arrays
          BY <4>3, Entries DEF IInv, ListInv
        <5>2. arrays[o] \in Seq(Seq(Subscribers \cup {Nil}))
          <6> DEFINE T == Seq(Seq(Subscribers \cup {Nil}))
          <6>1. arrays \in Seq(T)
            BY <5>1
          <6> HIDE DEF T
          <6>2. arrays[o] \in T
            BY <5>1, <6>1
          <6> QED
            BY <6>2 DEF T
        <5>3. from \in 1 .. to /\ to \in Int
          BY <4>3
        <5>4. from \in Nat \ {0} /\ to \in Nat
          <6> HIDE DEF from, to
          <6> QED
            BY <5>3
        <5>5. slice[o] \in Nat
          BY <4>3, <5>1
        <5>6. m \in Nat /\ DOMAIN arrays[o] = 1 .. m
          BY <5>2
        <5> QED
          BY <4>3, <5>4, <5>5, <5>6
      <4>5. PICK p \in from .. to : arrays[o][k][p] = d /\ (k = m => p <= slice[o])
        BY <4>2
      <4>6. \E x \in from .. to : arrays'[o][k][x] = d /\ (k = Len(arrays'[o]) => x <= slice'[o])
        <5>1. CASE o # w
          <6>1. slice'[o] = slice[o] /\ arrays'[o] = arrays[o]
            BY <3>2, <4>3, <5>1
          <6> QED
            BY <4>5, <6>1
        <5>2. CASE o = w /\ k # m
          <6>1. arrays'[o][k] = arrays[o][k] /\ Len(arrays'[o]) = m
            BY <3>2, <4>4, <5>2
          <6> QED
            BY <4>5, <5>2, <6>1
        <5>3. CASE o = w /\ k = m
          <6> DEFINE last == slice[o]
                     a == array(o)
                     b == array(o)'
          <6>1. Len(arrays'[o]) = m /\ slice'[o] = last - 1 /\ i \in 1 .. last
            BY <3>2, <5>3
          <6>2. arrays'[o][k] = b /\ arrays[o][k] = a
            BY <5>3, <6>1 DEF array
          <6>3. /\ a[i] = c /\ a[p] = d /\ p <= last
                /\ \A x \in 1 .. last : x # i /\ x # last => b[x] = a[x]
                /\ i # last => b[i] = a[last]
            BY <3>3, <4>5, <5>3, <6>2
          <6>4. p # i
            BY <1>6, <6>3
          <6>5. d \notin Skipped(o, i)
            BY <3>4, <3>5, <5>3
          <6> HIDE DEF a, b
          <6>6. CASE p # last
            <7>1. p \in 1 .. last /\ p <= last - 1 /\ last \in Nat
              BY <4>4, <4>5, <6>3, <6>6
            <7>2. b[p] = d
              BY <6>3, <6>4, <6>6, <7>1
            <7> QED
              BY <4>5, <6>1, <6>2, <7>1, <7>2
          <6>7. CASE p = last
            <7>1. i # last /\ b[i] = d
              BY <6>3, <6>4, <6>7
            <7>2. ~(i < from)
              <8>1. SUFFICES ASSUME i < from PROVE d \in Skipped(o, i)
                BY <6>5
              <8>2. /\ notifiers[n].o = o /\ notifiers[n].in = Len(arrays[o])
                    /\ i < notifiers[n].next /\ notifiers[n].next <= slice[o]
                    /\ slice[o] <= notifiers[n].len
                <9>1. from <= last /\ last <= to
                  BY <4>4, <4>5, <6>7
                <9> QED
                  BY <4>2, <5>3, <8>1, <9>1
              <8>3. d = array(o)[slice[o]]
                BY <6>3, <6>7 DEF a
              <8> QED
                BY <8>2, <8>3 DEF Skipped
            <7>3. i \in from .. to /\ i <= last - 1
              <8>1. i \in Nat /\ last \in Nat /\ i <= last
                BY <4>4, <6>1
              <8>2. last <= to
                BY <4>4, <4>5, <6>7
              <8> QED
                BY <4>4, <7>1, <7>2, <8>1, <8>2
            <7> QED
              BY <6>1, <6>2, <7>1, <7>3
          <6> QED
            BY <6>6, <6>7
        <5> QED
          BY <5>1, <5>2, <5>3
      <4>7. /\ notifiers'[n].len # -1 /\ notifiers'[n].o = o
            /\ \E x \in notifiers'[n].next .. notifiers'[n].len :
                  /\ arrays'[o][notifiers'[n].in][x] = d
                  /\ notifiers'[n].in = Len(arrays'[o]) => x <= slice'[o]
        BY <1>1, <4>2, <4>6
      <4>8. client'[d].po = o /\ DOMAIN notifiers' = DOMAIN notifiers
        BY <1>1, <2>1, <4>1
      <4> QED
        BY <4>7, <4>8 DEF Coming
    <3> QED
      BY <1>1, <1>4, <2>1, <3>4, <3>5, ClientKept DEF Settled
  <2> QED
    BY <2>2, <2>3
<1> QED
  BY <1>3, <1>5, <1>6 DEF Settled

(* A notification that begins will come to all that are in the list; who   *)
(* waits and is not in it is missed.                                       *)
LEMMA BeginSettled ==
    ASSUME IInv, Settled, NEW n \in DOMAIN notifiers, BeginNotify(n)
    PROVE  Settled'
<1> DEFINE w == notifiers[n].o
<1>1. UNCHANGED <<db, registry, observables, client, shown>> /\ notifiers[n].len = -1
      /\ missed' = missed \cup NotListed(w)
  BY DEF BeginNotify
<1>2. EntrySettled'
  BY <1>1 DEF Settled, EntrySettled, observables
<1>3. w \in DOMAIN slice /\ w \in DOMAIN arrays
  BY Entries DEF IInv, NoteInv
<1>4. \A k \in DOMAIN notifiers : k # n =>
         \E i \in DOMAIN notifiers' : notifiers'[i] = notifiers[k]
  BY NoteMoves
<1>5. ASSUME NEW c \in Subscribers, Coming(c) PROVE Coming(c)'
  <2>1. \A k \in DOMAIN notifiers : notifiers[k].len # -1 =>
           \E i \in DOMAIN notifiers' : notifiers'[i] = notifiers[k]
    BY <1>1, <1>4
  <2> QED
    BY <1>1, <1>5, <2>1, ComingStays DEF observables
<1>6. ASSUME NEW c \in Subscribers PROVE ClientSettled(c)'
  <2>1. CASE c \in missed'
    BY <2>1 DEF ClientSettled
  <2>2. CASE client[c].pc \notin Waiting
    BY <1>1, <2>2 DEF ClientSettled, Waiting
  <2>3. CASE client[c].pc \in Waiting /\ c \notin missed' /\ Announced /\ ~Announced'
    <3>1. c \in Observers(w)
      BY <1>1, <2>3 DEF NotListed
    <3>2. client[c].pc \in {"listen", "busy"} /\ client[c].po = w
      BY <1>3, <2>3, <3>1 DEF IInv, MemberInv, Waiting
    <3>3. stage[w] = db
      <4>1. PICK k \in DOMAIN notifiers : notifiers[k].len = -1 /\ stage[notifiers[k].o] = db
        BY <2>3 DEF Announced
      <4>2. CASE k = n
        BY <4>1, <4>2
      <4>3. CASE k # n
        <5>1. PICK i \in DOMAIN notifiers' : notifiers'[i] = notifiers[k]
          BY <1>4, <4>3
        <5>2. notifiers'[i].len = -1 /\ stage'[notifiers'[i].o] = db'
          BY <1>1, <4>1, <5>1 DEF observables
        <5> QED
          BY <2>3, <5>2 DEF Announced
      <4> QED
        BY <4>2, <4>3
    <3>4. PICK p \in 1 .. slice[w] : array(w)[p] = c
      BY <3>1 DEF Observers
    <3>5. slice[w] \in Nat /\ slice[w] # 0
      <4>1. slice[w] \in Nat
        BY <1>3 DEF IInv, ListInv
      <4> HIDE DEF w
      <4> QED
        BY <3>4, <4>1
    <3>6. /\ DOMAIN notifiers' = DOMAIN notifiers
          /\ notifiers'[n] = [o |-> w, in |-> Len(arrays[w]), len |-> slice[w], next |-> 1]
      <4>1. ~NotifyNext(n)
        BY <1>1 DEF NotifyNext
      <4>2. ~(slice[w] = 0)
        BY <3>5
      <4> QED
        BY <4>1, <4>2, NoteMoves
    <3>7. notifiers'[n].o = w /\ notifiers'[n].in = Len(arrays[w])
          /\ notifiers'[n].len = slice[w] /\ notifiers'[n].next = 1
      BY <3>6
    <3>8. slice[w] # -1
      <4> HIDE DEF w
      <4> QED
        BY <3>5
    <3>9. client'[c].po = w /\ slice' = slice /\ arrays' = arrays
      BY <1>1, <3>2 DEF observables
    <3>10. /\ notifiers'[n].len # -1 /\ notifiers'[n].o = w
           /\ \E x \in notifiers'[n].next .. notifiers'[n].len :
                 /\ arrays'[w][notifiers'[n].in][x] = c
                 /\ notifiers'[n].in = Len(arrays'[w]) => x <= slice'[w]
      <4>1. arrays[w][Len(arrays[w])][p] = c
        BY <3>4 DEF array
      <4>2. p <= slice[w]
        <5> HIDE DEF w
        <5> QED
          BY <3>4, <3>5
      <4> HIDE DEF w
      <4> QED
        BY <3>4, <3>7, <3>8, <3>9, <4>1, <4>2
    <3>11. Coming(c)'
      BY <3>6, <3>9, <3>10 DEF Coming
    <3> QED
      BY <1>1, <3>2, <3>3, <3>11 DEF ClientSettled, observables
  <2>4. CASE c \notin missed' /\ (Announced => Announced')
    <3>1. c \notin missed
      BY <1>1, <2>4
    <3> QED
      BY <1>1, <1>5, <2>4, <3>1, ClientKept DEF Settled, observables
  <2> QED
    BY <2>1, <2>2, <2>3, <2>4
<1> QED
  BY <1>2, <1>6 DEF Settled

(* A notification that moves on has told the client at its place, or       *)
(* missed it.                                                              *)
LEMMA NextSettled ==
    ASSUME IInv, Settled, NEW n \in DOMAIN notifiers, NotifyNext(n)
    PROVE  Settled'
<1> DEFINE me == notifiers[n]
<1>1. UNCHANGED <<db, registry, observables, shown>> /\ me.len # -1
  BY DEF NotifyNext
<1>2. PICK c \in Subscribers \cup {Nil} :
         /\ c = arrays[me.o][me.in][me.next]
         /\ \/ /\ c \in Subscribers /\ client[c].pc = "listen" /\ missed' = missed
               /\ OneClient(c) /\ client'[c].pc = "busy" /\ client'[c].po = client[c].po
            \/ /\ c = Nil \/ client[c].pc # "listen"
               /\ missed' = missed \cup ({c} \ {Nil}) /\ client' = client
  BY ClientTold DEF IInv
<1>3. EntrySettled'
  BY <1>1, <1>2 DEF Settled, EntrySettled, observables, OneClient
<1>4. \A k \in DOMAIN notifiers : k # n =>
         \E i \in DOMAIN notifiers' : notifiers'[i] = notifiers[k]
  BY NoteMoves
<1>5. Announced => Announced'
  <2>1. \A k \in DOMAIN notifiers : notifiers[k].len = -1 =>
           \E i \in DOMAIN notifiers' : notifiers'[i] = notifiers[k]
    BY <1>1, <1>4
  <2> QED
    BY <1>1, <2>1, AnnouncedStays DEF observables
<1>6. ASSUME NEW d \in Subscribers, d # c, Coming(d), client'[d] = client[d] PROVE Coming(d)'
  <2>1. PICK o : o = client[d].po
    OBVIOUS
  <2>2. PICK k \in DOMAIN notifiers :
          /\ notifiers[k].len # -1 /\ notifiers[k].o = o
          /\ \E p \in notifiers[k].next .. notifiers[k].len :
                /\ arrays[o][notifiers[k].in][p] = d
                /\ notifiers[k].in = Len(arrays[o]) => p <= slice[o]
    BY <1>6, <2>1 DEF Coming
  <2>3. client'[d].po = o /\ slice' = slice /\ arrays' = arrays
    BY <1>1, <1>6, <2>1 DEF observables
  <2>4. CASE k # n
    <3>1. PICK i \in DOMAIN notifiers' : notifiers'[i] = notifiers[k]
      BY <1>4, <2>4
    <3>2. /\ notifiers'[i].len # -1 /\ notifiers'[i].o = o
          /\ \E p \in notifiers'[i].next .. notifiers'[i].len :
                /\ arrays'[o][notifiers'[i].in][p] = d
                /\ notifiers'[i].in = Len(arrays'[o]) => p <= slice'[o]
      BY <2>2, <2>3, <3>1
    <3> QED
      BY <2>3, <3>1, <3>2 DEF Coming
  <2>5. CASE k = n
    <3>1. PICK p \in me.next .. me.len :
            /\ arrays[o][me.in][p] = d
            /\ me.in = Len(arrays[o]) => p <= slice[o]
      BY <2>2, <2>5
    <3>2. p # me.next /\ me.o = o
      BY <1>2, <1>6, <2>2, <2>5, <3>1
    <3>3. me.next \in Int /\ me.len \in Int
      <4>1. me.len \in 1 .. Len(arrays[me.o][me.in]) /\ me.next \in 1 .. me.len
        BY <1>1 DEF IInv, NoteInv
      <4> HIDE DEF me
      <4> QED
        BY <4>1
    <3>4. p \in me.next + 1 .. me.len /\ me.next # me.len
      <4> HIDE DEF me
      <4> QED
        BY <3>1, <3>2, <3>3
    <3>5. ~BeginNotify(n)
      BY <1>1 DEF BeginNotify
    <3>6. /\ DOMAIN notifiers' = DOMAIN notifiers
          /\ notifiers'[n] = [o |-> me.o, in |-> me.in, len |-> me.len, next |-> me.next + 1]
      BY <3>4, <3>5, NoteMoves
    <3> HIDE DEF me
    <3>7. /\ notifiers'[n].o = me.o /\ notifiers'[n].in = me.in
          /\ notifiers'[n].len = me.len /\ notifiers'[n].next = me.next + 1
      BY <3>6
    <3>8. /\ notifiers'[n].len # -1 /\ notifiers'[n].o = o
          /\ \E x \in notifiers'[n].next .. notifiers'[n].len :
                /\ arrays'[o][notifiers'[n].in][x] = d
                /\ notifiers'[n].in = Len(arrays'[o]) => x <= slice'[o]
      BY <1>1, <2>3, <3>1, <3>2, <3>4, <3>7
    <3> QED
      BY <2>3, <3>6, <3>8 DEF Coming
  <2> QED
    BY <2>4, <2>5
<1>7. ASSUME NEW d \in Subscribers PROVE ClientSettled(d)'
  <2>1. CASE d # c
    <3>1. client'[d] = client[d] /\ shown'[d] = shown[d] /\ (d \notin missed' => d \notin missed)
      BY <1>1, <1>2, <2>1 DEF OneClient
    <3> QED
      BY <1>1, <1>5, <1>6, <2>1, <3>1, ClientKept DEF Settled, observables
  <2>2. CASE d = c /\ client[c].pc = "listen" /\ c # Nil
    <3>1. /\ missed' = missed /\ client'[c].pc = "busy" /\ client'[c].po = client[c].po
      BY <1>2, <2>2
    <3>2. c \notin missed => Announced \/ stage[client[c].po] = db
      BY <2>2 DEF Settled, ClientSettled, Waiting
    <3>3. stage[client[c].po] = db => stage'[client'[c].po] = db'
      BY <1>1, <3>1 DEF observables
    <3>4. \/ c \in missed' \/ Announced'
          \/ (stage'[client'[c].po] = db' /\ client'[c].pc = "busy")
      BY <1>5, <3>1, <3>2, <3>3
    <3>5. ClientSettled(c)'
      BY <3>4 DEF ClientSettled
    <3> QED
      BY <2>2, <3>5
  <2>3. CASE d = c /\ client[c].pc # "listen" /\ c # Nil
    BY <1>2, <2>3 DEF ClientSettled
  <2>4. c # Nil \/ d # c
    BY ProgressAssumption
  <2> QED
    BY <2>1, <2>2, <2>3, <2>4
<1> QED
  BY <1>3, <1>7 DEF Settled

-----------------------------------------------------------------------------
(* All of it.                                                              *)

(* Every step keeps what is settled.                                       *)
LEMMA SettledStep ==
    ASSUME IInv, [ProgressNext]_progress
    PROVE  SettledInv'
<1>1. /\ Types /\ jobs \in Seq(JobTypes) /\ \A j \in DOMAIN jobs : JobOf(j)
      /\ Unsettled \/ Settled
  BY DEF IInv, Types, JobInv, JobOf, SettledInv, Settled
<1>2. SUFFICES ASSUME \A j \in DOMAIN jobs : ~SetNewStage(j), ~Unsettled, ~Unsettled' PROVE Settled'
  BY SetSettled, UnsettledStays DEF SettledInv, Settled
<1>3. Settled
  BY <1>1, <1>2
<1>4. \A n \in DOMAIN notifiers : \E i \in DOMAIN notifiers : notifiers[i] = notifiers[n]
  OBVIOUS
<1>5. ASSUME NEW k \in JobKinds, Start(k) PROVE Settled'
  <2>1. UNCHANGED <<db, registry, observables, notifiers, client, shown, missed>>
    BY <1>5 DEF Start
  <2> QED
    BY <1>3, <1>4, <2>1, FrameSettled DEF observables
<1>6. ASSUME NEW j \in DOMAIN jobs, Follow(j) PROVE Settled'
  <2>1. UNCHANGED <<db, registry, observables, notifiers, client, shown, missed>>
    BY <1>6 DEF Follow
  <2> QED
    BY <1>3, <1>4, <2>1, FrameSettled DEF observables
<1>7. ASSUME NEW j \in DOMAIN jobs, GetOrCreate(j) PROVE FALSE
  <2>1. jobs[j].pc \in {"begin", "create"}
    BY <1>7 DEF GetOrCreate
  <2> QED
    BY <1>1, <1>2, <2>1 DEF JobOf, Unsettled, Fresh
<1>8. ASSUME NEW j \in DOMAIN jobs, SaveStatus(j) PROVE Settled'
  <2>1. OneJob(j) /\ (jobs'[j].pc = "set" \/ db' = db)
    BY <1>1, <1>8, JobSaves
  <2>2. jobs'[j].pc # "set"
    BY <1>2, <2>1 DEF Unsettled, OneJob
  <2>3. UNCHANGED <<registry, observables, notifiers, client, shown, missed>>
    BY <1>8 DEF SaveStatus
  <2> QED
    BY <1>3, <1>4, <2>1, <2>2, <2>3, FrameSettled DEF observables
<1>9. ASSUME NEW j \in DOMAIN jobs, runNext(j) PROVE Settled'
  <2>1. UNCHANGED <<db, registry, observables, notifiers, client, shown, missed>>
    BY <1>9 DEF runNext
  <2> QED
    BY <1>3, <1>4, <2>1, FrameSettled DEF observables
<1>10. ASSUME StopRepository \/ RemoveEmpty \/ UNCHANGED progress PROVE Settled'
  <2>1. UNCHANGED <<db, observables, notifiers, client, shown, missed>>
        /\ registry' \in {registry, NoEntry}
    BY <1>10 DEF StopRepository, RemoveEmpty, progress, observables
  <2> QED
    BY <1>3, <1>4, <2>1, FrameSettled DEF observables
<1>11. ASSUME NEW j \in DOMAIN jobs, IncreaseProgress(j) PROVE Settled'
  <2>1. UNCHANGED <<db, registry, observables, client, shown, missed>>
        /\ notifiers' = notifyNow(jobs[j].tracker)
        /\ jobs[j].pc = "save" /\ jobs[j].kind = "update"
    BY <1>11 DEF IncreaseProgress
  <2>2. jobs[j].tracker \in Nat \ {0}
    <3>1. jobs[j] \in JobTypes
      BY <1>1
    <3> QED
      BY <1>1, <2>1, <3>1 DEF JobTypes, JobOf, NoEntry
  <2>3. \A n \in DOMAIN notifiers : \E i \in DOMAIN notifiers' : notifiers'[i] = notifiers[n]
    BY <2>1, <2>2, NoteAdded
  <2> QED
    BY <1>3, <2>1, <2>3, FrameSettled DEF observables
<1>12. CASE ProgressNext
  <2>1. CASE \E k \in JobKinds : Start(k)
    BY <1>5, <2>1
  <2>2. CASE ProcessStep
    BY <1>2, <1>6, <1>7, <1>8, <1>9, <2>2 DEF ProcessStep
  <2>3. CASE \E j \in DOMAIN jobs : IncreaseProgress(j)
    BY <1>11, <2>3
  <2>4. CASE NotifyStep
    BY <1>3, <2>4, BeginSettled, NextSettled DEF NotifyStep
  <2>5. CASE \E c \in Subscribers :
                \/ Query(c) \/ GetOrCreateStateful(c) \/ AddObserver(c) \/ Show(c)
                \/ Leave(c) \/ RemoveObserver(c)
    BY <1>3, <2>5, QuerySettled, GetSettled, AddSettled, ShowSettled, LeaveSettled, RemoveSettled
  <2> QED
    BY <1>10, <1>12, <2>1, <2>2, <2>3, <2>4, <2>5 DEF ProgressNext
<1> QED
  BY <1>10, <1>12

(* The invariant is inductive.                                             *)
LEMMA IInvStep == IInv /\ [ProgressNext]_progress => IInv'
<1> SUFFICES ASSUME IInv, [ProgressNext]_progress PROVE IInv'
  OBVIOUS
<1>1. Types' /\ ListInv' /\ NoteInv' /\ MemberInv' /\ LockInv'
  BY TypesStep, ListStep, NoteStep, MemberStep, LockStep
<1>2. JoinInv' /\ AloneInv' /\ JobInv' /\ SettledInv'
  BY JoinStep, AloneStep, JobStep, SettledStep
<1> QED
  BY <1>1, <1>2 DEF IInv

(* The properties of progress.                                             *)
LEMMA ShownByIInv ==
    ASSUME IInv
    PROVE  ProgressShown
<1>1. /\ Types /\ ListInv /\ NoteInv /\ MemberInv /\ JoinInv /\ SettledInv
      /\ \A j \in DOMAIN jobs : JobOf(j)
      /\ jobs \in Seq(JobTypes) /\ stage \in Seq(Stages)
  BY DEF IInv, Types, JobInv, JobOf
<1>2. ProgressTypeOK
  <2>1. \A j \in DOMAIN jobs : /\ jobs[j].pc \in {"begin", "create", "save", "set", "unsaved",
                                                  "report", "over"}
                               /\ jobs[j].tracker \in 0 .. Len(stage)
    <3> SUFFICES ASSUME NEW j \in DOMAIN jobs
                 PROVE  /\ jobs[j].pc \in {"begin", "create", "save", "set", "unsaved",
                                                  "report", "over"}
                        /\ jobs[j].tracker \in 0 .. Len(stage)
      OBVIOUS
    <3>1. jobs[j] \in JobTypes /\ jobs[j].tracker <= Len(stage) /\ Len(stage) \in Nat
      BY <1>1 DEF Types
    <3>2. jobs[j].pc \in {"begin", "create", "save", "set", "unsaved",
                                                  "report", "over"} /\ jobs[j].tracker \in Nat
      BY <3>1 DEF JobTypes
    <3> QED
      BY <3>1, <3>2
  <2>2. \A c \in Subscribers : client[c].pc \in {"away", "asked", "locked", "create", "add",
                                             "listen", "busy", "leave", "gone"}
    BY <1>1 DEF Types, ClientTypes
  <2>3. \A o \in DOMAIN arrays : Nil \notin Observers(o)
    <3>1. Nil \notin Subscribers
      BY ProgressAssumption
    <3> QED
      BY <1>1, <3>1, Entries DEF ListInv, Observers
  <2>4. \A o \in DOMAIN slice : slice[o] \in 0 .. Len(array(o))
    BY <1>1 DEF ListInv
  <2>5. Len(slice) = Len(stage) /\ Len(arrays) = Len(stage)
    BY <1>1 DEF ListInv
  <2>6. registry \in 0 .. Len(stage) /\ \A c \in Subscribers : client[c].po \in 0 .. Len(stage)
    BY Entries
  <2>7. \A n \in DOMAIN notifiers :
           notifiers[n].len # -1 =>
               notifiers[n].len \in 1 .. Len(arrays[notifiers[n].o][notifiers[n].in])
    BY <1>1 DEF NoteInv
  <2> QED
    BY <1>1, <2>1, <2>2, <2>3, <2>4, <2>5, <2>6, <2>7 DEF ProgressTypeOK, Types
<1>3. Quiet => OutOfStep \/ Settled
  <2>1. Quiet => ~(\E j \in DOMAIN jobs : jobs[j].pc = "set" \/ Fresh(j))
    BY DEF Quiet, Over, Fresh
  <2> QED
    BY <1>1, <2>1 DEF SettledInv, Settled, Unsettled
<1>4. EntryTellsStatus
  BY <1>3 DEF EntryTellsStatus, Settled, EntrySettled
<1>5. TrackerInRegistry
  BY <1>1 DEF TrackerInRegistry, JobOf, Active, Over
<1>6. PageShowsStatus
  <2> SUFFICES ASSUME Quiet, notifiers = <<>>, ~OutOfStep,
                      NEW c \in Subscribers, client[c].pc = "listen", c \notin missed
               PROVE  shown[c] = db
    BY DEF PageShowsStatus
  <2>1. ClientSettled(c)
    BY <1>3 DEF Settled
  <2>2. ~Announced /\ ~Coming(c)
    BY DEF Announced, Coming
  <2> QED
    BY <2>1, <2>2 DEF ClientSettled, Waiting
<1>7. ListenersAreListed
  BY <1>1 DEF ListenersAreListed, JoinInv, MemberInv
<1>8. GoneIsForgotten
  BY <1>1, Entries DEF GoneIsForgotten, MemberInv, NoEntry
<1> QED
  BY <1>2, <1>4, <1>5, <1>6, <1>7, <1>8 DEF ProgressShown

(* When nothing is left to do, pages and the entry of the registry show the*)
(* status in the database, unless a check, a detached process or a failed  *)
(* write left them out of step; who listens is in the list, who has gone is*)
(* in none (progress.go, changeProgress, saveStatus, StopRepository).      *)
THEOREM ProgressIsShown == ProgressSpec => []ProgressShown
<1>1. ProgressInit => IInv
  BY InitIInv
<1>2. IInv /\ [ProgressNext]_progress => IInv'
  BY IInvStep
<1>3. IInv => ProgressShown
  BY ShownByIInv
<1> QED
  BY <1>1, <1>2, <1>3, PTL DEF ProgressSpec
=============================================================================
