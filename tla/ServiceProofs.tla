--------------------------- MODULE ServiceProofs ----------------------------
(***************************************************************************)
(* Proofs about the two programs that go on running behind a user          *)
(* interface: the daemon, for any numbers of targets, CLI connections,     *)
(* tasks and ports, and the Android service, for any number of calls of    *)
(* startServer and startClient.                                            *)
(***************************************************************************)
EXTENDS Daemon, AndroidService, SequenceTheorems, TLAPS

(***************************************************************************)
(* Daemon.  The tasks of an import belong to its command until the command *)
(* pushes the entry, and to that entry from then on.  A command that has   *)
(* found no entry for its target pushes the only one of its CLI            *)
(* connection, however late.                                               *)
(***************************************************************************)
\* The places of the list of connections.
Positions == 1..Len(conns)

\* A command between its check of the list and its push.
CommandInv ==
    \A h \in Handler :
        /\ hpc[h] = "idle" => htask[h] = None
        /\ hpc[h] = "checked" => htarget[h] \in Target /\ htask[h] = None
        /\ hpc[h] = "imported" => htarget[h] \in Target /\ htask[h] \in Task
        /\ htask[h] # None =>
              /\ lpc[htask[h]] = "none" /\ ~cancelled[htask[h]]
              /\ \A p \in Positions : conns[p].task # htask[h]
              /\ \A g \in Handler : htask[g] = htask[h] => g = h

\* No entry of its CLI connection has the target of a command.
TargetInv ==
    \A h \in Handler : hpc[h] # "idle" =>
        \A p \in Positions : ~(conns[p].target = htarget[h] /\ conns[p].by = h)

\* Entries have tasks of their own, with live tokens, and a loop that runs with
\* a live token has an entry.
EntryInv ==
    /\ \A p, q \in Positions : conns[p].task = conns[q].task => p = q
    /\ \A p \in Positions : ~cancelled[conns[p].task]
    /\ \A i \in Task : Alive(i) /\ ~cancelled[i] => \E p \in Positions : conns[p].task = i

DInv == TypeOK /\ CommandInv /\ TargetInv /\ EntryInv /\ DuplicatesAreConcurrent

USE DEF Positions, LoopPC

\* There are no commands, tasks or entries at start-up.
LEMMA InitDInv == Init => DInv
<1> SUFFICES ASSUME Init PROVE DInv
  OBVIOUS
<1>1. conns \in Seq(Entry) /\ Len(conns) = 0
  BY EmptySeq DEF Init
<1>2. cancelled \in [Task -> BOOLEAN] /\ shutdown \in BOOLEAN /\ configured \in BOOLEAN
  BY Zenon DEF Init
<1>3. TypeOK
  BY <1>1, <1>2, DaemonAssumption, SMT DEF Init, TypeOK
<1>4. QED
  BY <1>1, <1>3 DEF Init, DInv, CommandInv, TargetInv, EntryInv,
     DuplicatesAreConcurrent, Alive

\* The entries keep all but their states.
SameEntries ==
    /\ conns' \in Seq(Entry) /\ Len(conns') = Len(conns)
    /\ \A p \in Positions : /\ conns'[p].task = conns[p].task
                            /\ conns'[p].target = conns[p].target
                            /\ conns'[p].by = conns[p].by

\* Writing a state changes nothing else.
LEMMA SetStateKeeps ==
  ASSUME TypeOK, NEW i \in Task, NEW s \in ConnState, SetState(i, s)
  PROVE  SameEntries
<1>1. conns \in [1..Len(conns) -> Entry] /\ Len(conns) \in Nat
  BY LenProperties DEF TypeOK
<1>2. \A p \in Positions :
        conns'[p] = conns[p] \/ conns'[p] = [conns[p] EXCEPT !.state = s]
  BY <1>1 DEF SetState
<1>3. \A p \in Positions :
        /\ conns'[p] \in Entry
        /\ conns'[p].task = conns[p].task
        /\ conns'[p].target = conns[p].target
        /\ conns'[p].by = conns[p].by
  <2> SUFFICES ASSUME NEW p \in Positions
               PROVE  /\ conns'[p] \in Entry
                      /\ conns'[p].task = conns[p].task
                      /\ conns'[p].target = conns[p].target
                      /\ conns'[p].by = conns[p].by
    OBVIOUS
  <2>1. conns[p] \in Entry
    BY <1>1
  <2>2. CASE conns'[p] = conns[p]
    BY <2>1, <2>2
  <2>3. CASE conns'[p] = [conns[p] EXCEPT !.state = s]
    BY <2>1, <2>3 DEF Entry
  <2>4. QED
    BY <1>2, <2>2, <2>3
<1>4. conns' \in [1..Len(conns) -> Entry]
  BY <1>1, <1>3, Zenon DEF SetState
<1>5. conns' \in Seq(Entry)
  BY <1>1, <1>4, SeqDef
<1>6. Len(conns') = Len(conns)
  <2>1. 1..Len(conns') = 1..Len(conns) /\ Len(conns') \in Nat
    BY <1>4, <1>5, LenProperties
  <2>2. QED
    BY <1>1, <2>1
<1>7. QED
  BY <1>3, <1>5, <1>6 DEF SameEntries

\* A step of a loop, whatever it does to states, ports and the other task.
LEMMA LoopKeepsDInv ==
  ASSUME DInv, SameEntries, NEW i \in Task, Alive(i),
         NEW label \in LoopPC \ {"none"}, lpc' = [lpc EXCEPT ![i] = label],
         UNCHANGED <<process, handlers, ttarget, cancelled, bpc>>,
         ports' \in 0..NumPorts
  PROVE  DInv'
<1> USE DEF DInv, process, handlers
<1>1. TypeOK'
  BY Zenon DEF TypeOK, SameEntries
<1>2. CommandInv'
  BY DEF CommandInv, SameEntries, Alive, TypeOK
<1>3. TargetInv'
  BY DEF TargetInv, SameEntries
<1>4. EntryInv'
  <2>1. \A j \in Task : Alive(j)' => Alive(j)
    BY DEF Alive, TypeOK
  <2>2. QED
    BY <2>1, SMTT(30) DEF EntryInv, SameEntries
<1>5. DuplicatesAreConcurrent'
  BY DEF DuplicatesAreConcurrent, SameEntries
<1>6. QED
  BY <1>1, <1>2, <1>3, <1>4, <1>5, Zenon

\* What is left when an entry is removed.
LEMMA RemoveKeeps ==
  ASSUME TypeOK, NEW p \in Positions, conns' = RemoveAt(conns, p)
  PROVE  /\ conns' \in Seq(Entry) /\ Len(conns') = Len(conns) - 1
         /\ \A q \in 1..Len(conns') :
               conns'[q] = IF q < p THEN conns[q] ELSE conns[q + 1]
<1> DEFINE front == SubSeq(conns, 1, p - 1)
           back == SubSeq(conns, p + 1, Len(conns))
<1>1. Len(conns) \in Nat /\ \A q \in Positions : conns[q] \in Entry
  BY LenProperties, ElementOfSeq DEF TypeOK
<1>2. /\ front \in Seq(Entry) /\ Len(front) = p - 1
      /\ \A q \in 1..p-1 : front[q] = conns[q]
  BY <1>1, SubSeqProperties
<1>3. /\ back \in Seq(Entry) /\ Len(back) = Len(conns) - p
      /\ \A q \in 1..Len(conns)-p : back[q] = conns[p + q]
  BY <1>1, SubSeqProperties
<1>4. /\ conns' \in Seq(Entry) /\ Len(conns') = Len(front) + Len(back)
      /\ \A q \in 1..Len(front) + Len(back) :
            conns'[q] = IF q <= Len(front) THEN front[q] ELSE back[q - Len(front)]
  BY <1>2, <1>3, ConcatProperties, ZenonT(30) DEF RemoveAt
<1> HIDE DEF front, back
<1>5. Len(conns') = Len(conns) - 1
  BY <1>1, <1>2, <1>3, <1>4
<1>6. ASSUME NEW q \in 1..Len(conns')
      PROVE  conns'[q] = IF q < p THEN conns[q] ELSE conns[q + 1]
  <2>1. CASE q < p
    BY <1>1, <1>2, <1>3, <1>4, <2>1
  <2>2. CASE q >= p
    <3>1. conns'[q] = back[q - (p - 1)]
      BY <1>1, <1>2, <1>3, <1>4, <2>2
    <3>2. q - (p - 1) \in 1..Len(conns)-p /\ p + (q - (p - 1)) = q + 1
      BY <1>1, <1>5, <2>2
    <3>3. QED
      BY <1>3, <2>2, <3>1, <3>2
  <2>3. QED
    BY <1>1, <1>5, <2>1, <2>2
<1>7. QED
  BY <1>4, <1>5, <1>6

\* Disconnect removes an entry and cancels the token it holds.
LEMMA DisconnectStep ==
  ASSUME DInv, NEW h \in Handler, NEW b, Disconnect(h, b)
  PROVE  DInv'
<1> USE DEF DInv, process, handlers
<1>1. PICK p \in Positions :
         /\ conns' = RemoveAt(conns, p)
         /\ cancelled' = [cancelled EXCEPT ![conns[p].task] = TRUE]
  BY Zenon DEF Disconnect
<1>2. UNCHANGED <<process, handlers, lpc, bpc, ttarget, ports>>
  BY DEF Disconnect
<1>3. /\ conns' \in Seq(Entry) /\ Len(conns') = Len(conns) - 1
      /\ \A q \in 1..Len(conns') :
            conns'[q] = IF q < p THEN conns[q] ELSE conns[q + 1]
  BY <1>1, RemoveKeeps, Zenon
<1>4. Len(conns) \in Nat /\ \A q \in Positions : conns[q] \in Entry
  BY LenProperties, ElementOfSeq DEF TypeOK
<1>5. \A q \in Positions : conns[q].task \in Task
  BY <1>4 DEF Entry
\* Where an entry that is left was before.
<1> DEFINE old(q) == IF q < p THEN q ELSE q + 1
<1>6. \A q \in 1..Len(conns') :
         old(q) \in Positions /\ old(q) # p /\ conns'[q] = conns[old(q)]
  BY <1>3, <1>4
<1>7. \A q, r \in 1..Len(conns') : old(q) = old(r) => q = r
  BY <1>3, <1>4
<1>8. \A q \in Positions : q # p => \E r \in 1..Len(conns') : old(r) = q
  <2> SUFFICES ASSUME NEW q \in Positions, q # p
               PROVE  \E r \in 1..Len(conns') : old(r) = q
    OBVIOUS
  <2>1. CASE q < p
    <3>1. q \in 1..Len(conns') /\ old(q) = q
      BY <1>3, <1>4, <2>1
    <3>2. QED
      BY <3>1
  <2>2. CASE q > p
    <3>1. q - 1 \in 1..Len(conns') /\ old(q - 1) = q
      BY <1>3, <1>4, <2>2
    <3>2. QED
      BY <3>1
  <2>3. QED
    BY <1>4, <2>1, <2>2
<1> HIDE DEF old
<1>9. TypeOK'
  BY <1>1, <1>2, <1>3, <1>5 DEF TypeOK
<1>10. \A i \in Task : cancelled'[i] = (cancelled[i] \/ i = conns[p].task)
  BY <1>1, <1>5, Zenon DEF TypeOK
<1>11. CommandInv'
  <2> SUFFICES ASSUME NEW g \in Handler, htask[g] # None
               PROVE  /\ ~cancelled'[htask[g]]
                      /\ \A q \in 1..Len(conns') : conns'[q].task # htask[g]
    BY <1>2 DEF CommandInv
  <2>1. htask[g] \in Task /\ ~cancelled[htask[g]] /\ \A q \in Positions : conns[q].task # htask[g]
    BY DEF CommandInv, TypeOK
  <2>2. QED
    BY <1>6, <1>10, <2>1, ZenonT(30)
<1>12. TargetInv'
  BY <1>2, <1>6, ZenonT(30) DEF TargetInv
<1>13. EntryInv'
  <2>1. \A q, r \in Positions' : conns'[q].task = conns'[r].task => q = r
    <3> SUFFICES ASSUME NEW q \in 1..Len(conns'), NEW r \in 1..Len(conns'),
                        conns'[q].task = conns'[r].task
                 PROVE  q = r
      OBVIOUS
    <3>1. conns[old(q)].task = conns[old(r)].task /\ old(q) \in Positions /\ old(r) \in Positions
      BY <1>6, Zenon
    <3>2. old(q) = old(r)
      BY <3>1, Zenon DEF EntryInv
    <3>3. QED
      BY <1>7, <3>2
  <2>2. \A q \in Positions' : ~cancelled'[conns'[q].task]
    <3> SUFFICES ASSUME NEW q \in 1..Len(conns') PROVE ~cancelled'[conns'[q].task]
      OBVIOUS
    <3>1. old(q) \in Positions /\ old(q) # p /\ conns'[q].task = conns[old(q)].task
      BY <1>6
    <3>2. conns[old(q)].task # conns[p].task /\ ~cancelled[conns[old(q)].task]
      BY <3>1 DEF EntryInv
    <3>3. QED
      BY <1>5, <1>10, <3>1, <3>2, Zenon
  <2>3. \A i \in Task : Alive(i)' /\ ~cancelled'[i] => \E q \in Positions' : conns'[q].task = i
    <3> SUFFICES ASSUME NEW i \in Task, Alive(i), ~cancelled'[i]
                 PROVE  \E q \in 1..Len(conns') : conns'[q].task = i
      BY <1>2 DEF Alive
    <3>1. PICK q \in Positions : conns[q].task = i /\ q # p
      BY <1>10, Zenon DEF EntryInv
    <3>2. PICK r \in 1..Len(conns') : old(r) = q
      BY <1>8, <3>1, Zenon
    <3>3. QED
      BY <1>6, <3>1, <3>2, Zenon
  <2>4. QED
    BY <2>1, <2>2, <2>3 DEF EntryInv
<1>14. DuplicatesAreConcurrent'
  BY <1>6, <1>7, SMTT(30) DEF DuplicatesAreConcurrent
<1>15. QED
  BY <1>9, <1>11, <1>12, <1>13, <1>14

\* Connect pushes an entry for the tasks of its import.
LEMMA ManagedStep ==
  ASSUME DInv, NEW h \in Handler, ConnectManaged(h)
  PROVE  DInv'
<1> USE DEF DInv, process, handlers
<1> DEFINE e == [target |-> htarget[h], state |-> "Connected", task |-> htask[h], by |-> h]
           n == Len(conns) + 1
<1>1. /\ hpc[h] = "imported" /\ htarget[h] \in Target /\ htask[h] \in Task
      /\ conns' = Append(conns, e) /\ lpc' = [lpc EXCEPT ![htask[h]] = "pause"]
      /\ hpc' = [hpc EXCEPT ![h] = "idle"] /\ htarget' = [htarget EXCEPT ![h] = None]
      /\ htask' = [htask EXCEPT ![h] = None]
      /\ UNCHANGED <<process, bpc, ttarget, cancelled, ports>>
  BY DEF ConnectManaged, CommandDone, CommandInv
<1>2. e \in Entry
  BY <1>1, SMTT(30) DEF Entry, ConnState
<1>3. /\ conns' \in Seq(Entry) /\ Len(conns') = n /\ conns'[n] = e
      /\ \A p \in Positions : conns'[p] = conns[p]
  BY <1>1, <1>2, AppendProperties, SMTT(30) DEF TypeOK
<1>4. Len(conns) \in Nat /\ 1..Len(conns') = Positions \cup {n} /\ n \notin Positions
  BY <1>3, LenProperties, SMTT(30) DEF TypeOK
<1>5. e.task = htask[h] /\ e.target = htarget[h] /\ e.by = h
  BY SMTT(30)
<1>6. /\ lpc[htask[h]] = "none" /\ ~cancelled[htask[h]]
      /\ \A p \in Positions : conns[p].task # htask[h]
      /\ \A g \in Handler : htask[g] = htask[h] => g = h
  BY <1>1, DaemonAssumption, Zenon DEF CommandInv
<1> HIDE DEF e, n
<1>7. TypeOK'
  BY <1>1, <1>3, Zenon DEF TypeOK
<1>8. CommandInv'
  <2> SUFFICES ASSUME NEW g \in Handler
               PROVE  /\ hpc'[g] = "idle" => htask'[g] = None
                      /\ hpc'[g] = "checked" => htarget'[g] \in Target /\ htask'[g] = None
                      /\ hpc'[g] = "imported" => htarget'[g] \in Target /\ htask'[g] \in Task
                      /\ htask'[g] # None =>
                            /\ lpc'[htask'[g]] = "none" /\ ~cancelled'[htask'[g]]
                            /\ \A p \in Positions' : conns'[p].task # htask'[g]
                            /\ \A k \in Handler : htask'[k] = htask'[g] => k = g
    BY Zenon DEF CommandInv
  <2>1. CASE g = h
    BY <1>1, <2>1, Zenon DEF TypeOK
  <2>2. CASE g # h
    <3>1. hpc'[g] = hpc[g] /\ htarget'[g] = htarget[g] /\ htask'[g] = htask[g]
      BY <1>1, <2>2, Zenon DEF TypeOK
    <3>2. htask[g] # None => htask[g] # htask[h] /\ htask[g] \in Task
      BY <1>6, <2>2, Zenon DEF TypeOK
    <3>3. \A k \in Handler : htask'[k] \in {htask[k], None}
      BY <1>1, Zenon DEF TypeOK
    <3>4. htask[g] # None => \A p \in Positions' : conns'[p].task # htask[g]
      BY <1>3, <1>4, <1>5, <3>2, SMTT(30) DEF CommandInv
    <3>5. QED
      BY <1>1, <3>1, <3>2, <3>3, <3>4, ZenonT(30) DEF CommandInv, TypeOK
  <2>3. QED
    BY <2>1, <2>2, Zenon
<1>9. TargetInv'
  <2> SUFFICES ASSUME NEW g \in Handler, hpc'[g] # "idle", NEW p \in Positions',
                      conns'[p].target = htarget'[g], conns'[p].by = g
               PROVE  FALSE
    BY Zenon DEF TargetInv
  <2>1. g # h /\ hpc'[g] = hpc[g] /\ htarget'[g] = htarget[g]
    BY <1>1, Zenon DEF TypeOK
  <2>2. QED
    BY <1>3, <1>4, <1>5, <2>1, ZenonT(30) DEF TargetInv
<1>10. EntryInv'
  <2>1. \A p, q \in Positions' : conns'[p].task = conns'[q].task => p = q
    BY <1>3, <1>4, <1>5, <1>6, SMTT(30) DEF EntryInv
  <2>2. \A p \in Positions' : ~cancelled'[conns'[p].task]
    BY <1>1, <1>3, <1>4, <1>5, <1>6, SMTT(30) DEF EntryInv
  <2>3. \A i \in Task : Alive(i)' /\ ~cancelled'[i] => \E p \in Positions' : conns'[p].task = i
    BY <1>1, <1>3, <1>4, <1>5, SMTT(30) DEF EntryInv, Alive, TypeOK
  <2>4. QED
    BY <2>1, <2>2, <2>3, Zenon DEF EntryInv
<1>11. DuplicatesAreConcurrent'
  <2>1. \A p \in Positions : ~(conns[p].target = htarget[h] /\ conns[p].by = h)
    BY <1>1, Zenon DEF TargetInv
  <2>2. \A p \in Positions' : (p \in Positions /\ conns'[p] = conns[p]) \/ (p = n /\ conns'[p] = e)
    BY <1>3, <1>4, SMTT(30)
  <2> SUFFICES ASSUME NEW p \in Positions', NEW q \in Positions',
                      conns'[p].target = conns'[q].target, conns'[p].by = conns'[q].by
               PROVE  p = q
    BY Zenon DEF DuplicatesAreConcurrent
  <2>3. CASE p \in Positions /\ conns'[p] = conns[p] /\ q \in Positions /\ conns'[q] = conns[q]
    BY <2>3, Zenon DEF DuplicatesAreConcurrent
  <2>4. CASE p = n /\ conns'[p] = e
    BY <1>5, <2>1, <2>2, <2>4, Zenon
  <2>5. CASE q = n /\ conns'[q] = e
    BY <1>5, <2>1, <2>2, <2>5, SMTT(30)
  <2>6. QED
    BY <2>2, <2>3, <2>4, <2>5, Zenon
<1>12. QED
  BY <1>7, <1>8, <1>9, <1>10, <1>11, SMTT(30)

\* The other steps of a command: the check, the import, and its failure.
LEMMA CommandStep ==
  ASSUME DInv, NEW h \in Handler, Command(h)
  PROVE  DInv'
<1> USE DEF DInv, process, handlers
<1>1. ASSUME NEW t \in Target, ConnectCheck(h, t) PROVE DInv'
  <2>1. /\ hpc[h] = "idle" /\ ~Managing(t)
        /\ hpc' = [hpc EXCEPT ![h] = "checked"] /\ htarget' = [htarget EXCEPT ![h] = t]
        /\ UNCHANGED <<process, conns, htask, lpc, bpc, ttarget, cancelled, ports>>
    BY <1>1, Zenon DEF ConnectCheck
  <2>2. TypeOK' /\ EntryInv' /\ DuplicatesAreConcurrent'
    BY <2>1, SMTT(30) DEF TypeOK, EntryInv, DuplicatesAreConcurrent, Alive
  <2>3. CommandInv'
    BY <2>1, ZenonT(30) DEF TypeOK, CommandInv
  <2>4. TargetInv'
    BY <2>1 DEF TypeOK, TargetInv, Managing
  <2>5. QED
    BY <2>2, <2>3, <2>4, Zenon
<1>2. ASSUME NEW i \in Task, ConnectImported(h, i) PROVE DInv'
  <2>1. /\ hpc[h] = "checked" /\ Unused(i)
        /\ hpc' = [hpc EXCEPT ![h] = "imported"] /\ htask' = [htask EXCEPT ![h] = i]
        /\ lpc' = [lpc EXCEPT ![i] = "none"] /\ bpc' = [bpc EXCEPT ![i] = "open"]
        /\ ttarget' = [ttarget EXCEPT ![i] = htarget[h]]
        /\ cancelled' = [cancelled EXCEPT ![i] = FALSE]
        /\ UNCHANGED <<process, conns, htarget>>
    BY <1>2, Zenon DEF ConnectImported
  <2>2. ports' \in 0..NumPorts
    BY <1>2, DaemonAssumption, SMTT(30) DEF ConnectImported, Attach, TypeOK
  <2>3. htarget[h] \in Target /\ htask[h] = None
    BY <2>1, Zenon DEF CommandInv
  <2>4. TypeOK' /\ TargetInv' /\ DuplicatesAreConcurrent'
    BY <2>1, <2>2, <2>3, SMTT(30) DEF TypeOK, TargetInv, DuplicatesAreConcurrent
  <2>5. CommandInv'
    <3> SUFFICES ASSUME NEW g \in Handler
                 PROVE  /\ hpc'[g] = "idle" => htask'[g] = None
                        /\ hpc'[g] = "checked" => htarget'[g] \in Target /\ htask'[g] = None
                        /\ hpc'[g] = "imported" => htarget'[g] \in Target /\ htask'[g] \in Task
                        /\ htask'[g] # None =>
                              /\ lpc'[htask'[g]] = "none" /\ ~cancelled'[htask'[g]]
                              /\ \A p \in Positions' : conns'[p].task # htask'[g]
                              /\ \A k \in Handler : htask'[k] = htask'[g] => k = g
      BY ZenonT(30) DEF CommandInv
    <3>1. CASE g = h
      BY <2>1, <2>3, <3>1, Zenon DEF TypeOK, Unused
    <3>2. CASE g # h
      <4>1. hpc'[g] = hpc[g] /\ htarget'[g] = htarget[g] /\ htask'[g] = htask[g] /\ htask[g] # i
        BY <2>1, <3>2, ZenonT(30) DEF TypeOK, Unused
      <4>2. htask[g] # None => lpc'[htask[g]] = "none" /\ ~cancelled'[htask[g]]
        BY <2>1, <4>1, ZenonT(30) DEF CommandInv, TypeOK
      <4>3. \A k \in Handler : htask'[k] = htask[g] => htask[k] = htask[g]
        BY <2>1, <4>1, ZenonT(30) DEF TypeOK
      <4>4. QED
        BY <2>1, <4>1, <4>2, <4>3, SMTT(30) DEF CommandInv
    <3>3. QED
      BY <3>1, <3>2, ZenonT(30)
  <2>6. EntryInv'
    <3>1. \A j \in Task : Alive(j)' => Alive(j) /\ j # i
      BY <2>1, Zenon DEF Alive, TypeOK
    <3>2. \A j \in Task : j # i => cancelled'[j] = cancelled[j]
      BY <2>1, Zenon DEF TypeOK
    <3>3. \A p \in Positions : conns[p].task # i /\ conns[p].task \in Task
      <4>1. \A p \in Positions : conns[p] \in Entry
        BY ElementOfSeq, SMTT(30) DEF TypeOK
      <4>2. QED
        BY <2>1, <4>1, Zenon DEF Unused, Entry
    <3>4. QED
      BY <2>1, <3>1, <3>2, <3>3, Zenon DEF EntryInv
  <2>7. QED
    BY <2>4, <2>5, <2>6
<1>3. CASE ConnectFails(h)
  <2>1. /\ hpc' = [hpc EXCEPT ![h] = "idle"] /\ htarget' = [htarget EXCEPT ![h] = None]
        /\ htask' = [htask EXCEPT ![h] = None] /\ htask[h] = None
        /\ UNCHANGED <<process, conns, lpc, bpc, ttarget, cancelled, ports>>
    BY <1>3, ZenonT(30) DEF ConnectFails, CommandDone, CommandInv
  <2>2. TypeOK' /\ EntryInv' /\ DuplicatesAreConcurrent'
    BY <2>1, ZenonT(30) DEF TypeOK, EntryInv, DuplicatesAreConcurrent, Alive
  <2>3. CommandInv' /\ TargetInv'
    <3>1. CommandInv'
      BY <2>1 DEF TypeOK, CommandInv
    <3>2. TargetInv'
      BY <2>1 DEF TypeOK, TargetInv
    <3>3. QED
      BY <3>1, <3>2, Zenon
  <2>4. QED
    BY <2>2, <2>3, SMTT(30)
<1>4. CASE Shutdown(h)
  BY <1>4, SMTT(30) DEF Shutdown, TypeOK, CommandInv, TargetInv, EntryInv,
       DuplicatesAreConcurrent, Alive
<1>5. QED
  BY <1>1, <1>2, <1>3, <1>4, DisconnectStep, ManagedStep, Zenon DEF Command

\* A step that does not touch the list keeps its entries.
LEMMA UnchangedKeeps == ASSUME TypeOK, UNCHANGED conns PROVE SameEntries
  BY SMTT(30) DEF TypeOK, SameEntries

\* What a step of a loop does.
LEMMA LoopSteps ==
  ASSUME TypeOK, NEW i \in Task, LoopMoves(i) \/ LoopHears(i)
  PROVE  /\ SameEntries /\ Alive(i)
         /\ \E label \in LoopPC \ {"none"} : lpc' = [lpc EXCEPT ![i] = label]
         /\ UNCHANGED <<process, handlers, ttarget, cancelled, bpc>>
         /\ ports' \in 0..NumPorts
<1> USE DEF LoopOnly, Alive
<1>1. CASE LoopInterrupted(i)
  BY <1>1, UnchangedKeeps, Zenon DEF LoopInterrupted, TypeOK
<1>2. CASE LoopPauseOver(i)
  BY <1>2, UnchangedKeeps, Zenon DEF LoopPauseOver, TypeOK
<1>3. CASE LoopConnecting(i)
  BY <1>3, SetStateKeeps, Zenon DEF LoopConnecting, ConnState, TypeOK
<1>4. CASE LoopImported(i)
  <2>1. ports' \in 0..NumPorts
    BY <1>4, DaemonAssumption, SMTT(30) DEF LoopImported, Attach, TypeOK
  <2>2. QED
    BY <1>4, <2>1, UnchangedKeeps, Zenon DEF LoopImported
<1>5. CASE LoopImportFails(i)
  BY <1>5, UnchangedKeeps, Zenon DEF LoopImportFails, TypeOK
<1>6. CASE LoopConnected(i)
  BY <1>6, SetStateKeeps, ZenonT(30) DEF LoopConnected, Select, ConnState, TypeOK
<1>7. CASE LoopForwards(i)
  BY <1>7, UnchangedKeeps, ZenonT(30) DEF LoopForwards, TypeOK
<1>8. CASE LoopForwardFails(i)
  BY <1>8, UnchangedKeeps, ZenonT(30) DEF LoopForwardFails, TypeOK
<1>9. CASE LoopError(i)
  BY <1>9, SetStateKeeps, Zenon DEF LoopError, Select, ConnState, TypeOK
<1>10. CASE LoopBackoffOver(i)
  BY <1>10, UnchangedKeeps, ZenonT(30) DEF LoopBackoffOver, Select, TypeOK
<1>11. CASE LoopForwardEnds(i)
  BY <1>11, UnchangedKeeps, ZenonT(30) DEF LoopForwardEnds, TypeOK
<1>12. QED
  BY <1>1, <1>2, <1>3, <1>4, <1>5, <1>6, <1>7, <1>8, <1>9, <1>10, <1>11, ZenonT(30)
     DEF LoopMoves, LoopHears

\* A step that leaves commands, list, loops and tokens alone keeps the invariant.
LEMMA ListKept ==
  ASSUME DInv, TypeOK', UNCHANGED <<conns, handlers, lpc, cancelled>>
  PROVE  DInv'
<1>1. /\ conns' = conns /\ lpc' = lpc /\ cancelled' = cancelled
      /\ hpc' = hpc /\ htarget' = htarget /\ htask' = htask
  BY SMTT(30) DEF handlers
<1>2. CommandInv'
  BY <1>1, ZenonT(30) DEF DInv, CommandInv
<1>3. TargetInv'
  BY <1>1, ZenonT(30) DEF DInv, TargetInv
<1>4. EntryInv'
  BY <1>1, SMTT(30) DEF DInv, EntryInv, Alive
<1>5. DuplicatesAreConcurrent'
  BY <1>1 DEF DInv, DuplicatesAreConcurrent
<1>6. QED
  BY <1>2, <1>3, <1>4, <1>5, SMTT(30) DEF DInv

\* Every step keeps the inductive invariant.
LEMMA NextDInv == DInv /\ [Next]_vars => DInv'
<1> SUFFICES ASSUME DInv, [Next]_vars PROVE DInv'
  OBVIOUS
<1>1. CASE Run \/ Exit
  <2>1. UNCHANGED <<conns, handlers, lpc, cancelled>>
    BY <1>1, SMTT(30) DEF Run, Exit
  <2>2. TypeOK'
    BY <1>1, ZenonT(30) DEF Run, Exit, handlers, DInv, TypeOK
  <2>3. QED
    BY <2>1, <2>2, ListKept
<1>2. ASSUME NEW h \in Handler, Command(h) PROVE DInv'
  BY <1>2, CommandStep, SMTT(30)
<1>3. ASSUME NEW i \in Task, LoopMoves(i) \/ LoopHears(i) PROVE DInv'
  <2>1. TypeOK
    BY DEF DInv
  <2>2. QED
    BY <1>3, <2>1, LoopSteps, LoopKeepsDInv, SMTT(30)
<1>4. ASSUME NEW i \in Task, TaskForwards(i) \/ TaskEnds(i) PROVE DInv'
  <2>1. UNCHANGED <<conns, handlers, lpc, cancelled>>
    BY <1>4, Zenon DEF TaskForwards, TaskEnds
  <2>2. TypeOK'
    BY <1>4, Zenon DEF TaskForwards, TaskEnds, process, handlers, DInv, TypeOK
  <2>3. QED
    BY <2>1, <2>2, ListKept, Zenon
<1>5. CASE UNCHANGED vars
  <2>1. UNCHANGED <<conns, handlers, lpc, cancelled>>
    BY <1>5, SMTT(30) DEF vars, handlers
  <2>2. TypeOK'
    BY <1>5, Zenon DEF vars, DInv, TypeOK
  <2>3. QED
    BY <2>1, <2>2, ListKept
<1>6. QED
  BY <1>1, <1>2, <1>3, <1>4, <1>5 DEF Next

\* Commands, tasks and the list stay consistent in every reachable state.
THEOREM DaemonInvariance == Spec => []DInv
  BY InitDInv, NextDInv, PTL DEF Spec

\* The variables have their types; in particular no more ports are attached than
\* the host controller has.
THEOREM DaemonTypeCorrect == Spec => []TypeOK
<1>1. DInv => TypeOK
  BY DEF DInv
<1>2. QED
  BY <1>1, DaemonInvariance, PTL

\* Disconnect can reach every loop that runs with a live token, through exactly
\* one entry.
THEOREM LoopsAreManaged == Spec => []RunningIsManaged
<1>1. ASSUME DInv PROVE RunningIsManaged
  <2>1. EntryInv
    BY <1>1 DEF DInv
  <2>2. ASSUME NEW i \in Task, NEW p \in Positions, conns[p].task = i PROVE ~cancelled[i]
    BY <2>1, <2>2, ZenonT(30) DEF EntryInv
  <2>3. ASSUME NEW i \in Task, Alive(i), ~cancelled[i]
        PROVE  \E p \in Positions : {q \in Positions : conns[q].task = i} = {p}
    <3>1. PICK p \in Positions : conns[p].task = i
      BY <2>1, <2>3, Zenon DEF EntryInv
    <3>2. \A q \in Positions : conns[q].task = i => q = p
      BY <2>1, <3>1, Zenon DEF EntryInv
    <3>3. {q \in Positions : conns[q].task = i} = {p}
      BY <3>1, <3>2, Zenon
    <3>4. QED
      BY <3>3
  <2>4. QED
    BY <2>2, <2>3, Zenon DEF RunningIsManaged
<1>2. QED
  BY <1>1, DaemonInvariance, PTL

\* Two entries for one target come from two CLI connections.
THEOREM DuplicatesNeedTwo == Spec => []DuplicatesAreConcurrent
<1>1. DInv => DuplicatesAreConcurrent
  BY DEF DInv
<1>2. QED
  BY <1>1, DaemonInvariance, PTL

\* Where a step may take a loop whose token is cancelled.
WindsDown(i) ==
    /\ lpc'[i] \in {"open", "backoff", "pause"} => lpc'[i] = lpc[i]
    /\ lpc'[i] = "forward" => lpc[i] \in {"open", "forward"}

CancelledStep == \A i \in Task : cancelled[i] /\ cancelled'[i] => WindsDown(i)

\* A disconnected loop neither opens another connection for URBs nor retries.
THEOREM CancelledLoopsWindDown == Spec => CancelledWindsDown
<1>1. DInv /\ [Next]_vars => [CancelledStep]_vars
  <2> SUFFICES ASSUME TypeOK, CommandInv, Next, NEW i \in Task, cancelled[i], cancelled'[i]
               PROVE  WindsDown(i)
    BY SMTT(30) DEF DInv, CancelledStep
  <2>1. CASE Run \/ Exit
    BY <2>1, ZenonT(30) DEF Run, Exit, WindsDown
  <2>2. ASSUME NEW h \in Handler, Command(h)
        PROVE  WindsDown(i)
    <3>1. ASSUME NEW j \in Task, ConnectImported(h, j)
          PROVE  WindsDown(i)
      BY <3>1 DEF ConnectImported, TypeOK, WindsDown
    <3>2. CASE ConnectManaged(h)
      <4>1. htask[h] \in Task /\ ~cancelled[htask[h]]
        BY <3>2, DaemonAssumption, ZenonT(30) DEF ConnectManaged, CommandInv
      <4>2. lpc' = [lpc EXCEPT ![htask[h]] = "pause"]
        BY <3>2, Zenon DEF ConnectManaged
      <4>3. lpc'[i] = lpc[i]
        BY <4>1, <4>2, ZenonT(30) DEF TypeOK
      <4>4. QED
        BY <4>3, Zenon DEF WindsDown
    <3>3. CASE lpc' = lpc
      BY <3>3, Zenon DEF WindsDown
    <3>4. QED
      BY <2>2, <3>1, <3>2, <3>3, ZenonT(30)
         DEF Command, ConnectCheck, ConnectFails, Disconnect, Shutdown
  <2>3. ASSUME NEW j \in Task, LoopMoves(j) \/ LoopHears(j)
        PROVE  WindsDown(i)
    <3>1. \E label : lpc' = [lpc EXCEPT ![j] = label]
      BY <2>3, LoopSteps, Zenon
    <3>2. CASE j # i
      BY <3>1, <3>2, Zenon DEF TypeOK, WindsDown
    <3>3. CASE j = i
      BY <2>3, <3>3, SMTT(30) DEF LoopMoves, LoopHears, LoopInterrupted, LoopPauseOver,
         LoopConnecting, LoopImported, LoopImportFails, LoopConnected, LoopForwards,
         LoopForwardFails, LoopError, LoopBackoffOver, LoopForwardEnds, Select,
         LoopOnly, TypeOK, WindsDown
    <3>4. QED
      BY <3>2, <3>3, SMTT(30)
  <2>4. ASSUME NEW j \in Task, TaskForwards(j) \/ TaskEnds(j)
        PROVE  WindsDown(i)
    BY <2>4, Zenon DEF TaskForwards, TaskEnds, WindsDown
  <2>5. QED
    BY <2>1, <2>2, <2>3, <2>4, ZenonT(30) DEF Next
<1>2. QED
  BY <1>1, DaemonInvariance, PTL DEF Spec, CancelledWindsDown, CancelledStep, WindsDown

-----------------------------------------------------------------------------
(***************************************************************************)
(* AndroidService.  A coroutine closes what its runner's serverSocket      *)
(* field holds when its loop ends.  That this is the socket the coroutine  *)
(* opened itself is not obvious, as two coroutines may start one runner:   *)
(* it follows from the port having one listening socket at a time.         *)
(***************************************************************************)
\* A coroutine inside start() has a runner.
Launched ==
    \A c \in Runner : spc[c] \in {"claim", "bind", "loop", "accept"} => srun[c] # 0

\* An open listening socket is in the field of the runner its coroutine started.
SocketIsListed ==
    \A c \in Runner : listening[c] =>
        /\ spc[c] \in {"loop", "accept"}
        /\ socket[srun[c]] = c

\* Calls that have not been made have no coroutine.
Unmade == \A c \in Runner : c > calls => spc[c] = "none"

\* There is one at most.
OnePort == \A b, c \in Runner : listening[b] /\ listening[c] => b = c

AInv == AndroidTypeOK /\ Launched /\ Unmade /\ SocketIsListed /\ OnePort

USE DEF Runner, Field, Mode, service, activity, usb, coroutines, stopped, owned

\* Nothing listens at the start.
LEMMA InitAInv == AndroidInit => AInv
<1> SUFFICES ASSUME AndroidInit PROVE AInv
  OBVIOUS
<1> USE AndroidAssumption
<1>1. /\ running \in [Runner -> BOOLEAN] /\ conn \in [Runner -> BOOLEAN]
      /\ listening \in [Runner -> BOOLEAN] /\ scope \in [Runner -> BOOLEAN]
  BY Zenon DEF AndroidInit
<1>2. /\ 0 \in Field
      /\ spc \in [Runner -> {"none", "link", "launched", "claim", "bind", "loop",
                             "accept", "threw", "catch", "done"}]
      /\ srun \in [Runner -> Field] /\ son \in [Runner -> Field]
      /\ socket \in [Runner -> Field] /\ releasing \in [Runner -> {"no", "main", "io"}]
      /\ peerpc \in [Runner -> {"none", "launched", "read", "urb"}]
      /\ hsock \in [Runner -> {"open", "listed", "closed"}]
  BY SMTT(30) DEF AndroidInit
<1>3. AndroidTypeOK
  BY <1>1, <1>2, ZenonT(30) DEF AndroidInit, AndroidTypeOK
<1>4. Launched /\ Unmade /\ SocketIsListed /\ OnePort
  BY SMTT(30) DEF AndroidInit, Launched, Unmade, SocketIsListed, OnePort
<1>5. QED
  BY <1>3, <1>4, Zenon DEF AInv

\* stop() of a runner leaves the sockets of the others.
LEMMA StopKeeps ==
  ASSUME AInv, NEW r \in Runner, NEW thread \in {"main", "io"}, StopRunner(r, thread)
  PROVE  /\ running' \in [Runner -> BOOLEAN] /\ listening' \in [Runner -> BOOLEAN]
         /\ socket' \in [Runner -> Field] /\ releasing' \in [Runner -> {"no", "main", "io"}]
         /\ hsock' \in [Runner -> {"open", "listed", "closed"}]
         /\ \A c \in Runner : listening'[c] =>
               listening[c] /\ \A q \in Runner : socket[q] = c => socket'[q] = c
<1> USE AndroidAssumption DEF AInv
<1>1. /\ running' \in [Runner -> BOOLEAN] /\ listening' \in [Runner -> BOOLEAN]
      /\ socket' \in [Runner -> Field] /\ releasing' \in [Runner -> {"no", "main", "io"}]
  BY SMTT(30) DEF StopRunner, Closed, AndroidTypeOK
<1>2. hsock' \in [Runner -> {"open", "listed", "closed"}]
  BY Zenon DEF StopRunner, AndroidTypeOK
<1>3. \A c \in Runner : listening'[c] =>
         listening[c] /\ \A q \in Runner : socket[q] = c => socket'[q] = c
  BY ZenonT(30) DEF StopRunner, Closed, AndroidTypeOK
<1>4. QED
  BY <1>1, <1>2, <1>3, Zenon

\* So does a stop() of whatever is in the field.
LEMMA StopFieldKeeps ==
  ASSUME AInv, NEW thread \in {"main", "io"}, StopField(thread)
  PROVE  /\ running' \in [Runner -> BOOLEAN] /\ listening' \in [Runner -> BOOLEAN]
         /\ socket' \in [Runner -> Field] /\ releasing' \in [Runner -> {"no", "main", "io"}]
         /\ hsock' \in [Runner -> {"open", "listed", "closed"}]
         /\ \A c \in Runner : listening'[c] =>
               listening[c] /\ \A q \in Runner : socket[q] = c => socket'[q] = c
<1>1. CASE serverRunner = 0
  BY <1>1, ZenonT(30) DEF StopField, AInv, AndroidTypeOK
<1>2. CASE serverRunner # 0
  <2>1. serverRunner \in Runner
    BY <1>2, AndroidAssumption, SMTT(30) DEF AInv, AndroidTypeOK
  <2>2. QED
    BY <1>2, <2>1, StopKeeps, ZenonT(30) DEF StopField
<1>3. QED
  BY <1>1, <1>2, ZenonT(30)

-----------------------------------------------------------------------------
(* The steps *)

\* The handlers of the main thread that stop nothing.
LEMMA MainStep ==
  ASSUME AInv, Share \/ PermissionResult \/ Connect \/ Replug \/ ModeCollected
  PROVE  AInv'
<1> USE AndroidAssumption DEF AInv
<1> DEFINE Makes == /\ calls < MaxCalls /\ calls' = calls + 1
                    /\ \E label \in {"launched", "link"} :
                          spc' = [spc EXCEPT ![calls + 1] = label]
<1>1. /\ UNCHANGED <<srun, son, stopped, owned, peerpc, claimer>>
      /\ plugged' \in BOOLEAN /\ (plugged => plugged')
      /\ shown' \in Mode /\ mode' \in Mode /\ asking' \in BOOLEAN
  <2>1. CASE Share \/ PermissionResult
    BY <2>1, ZenonT(30) DEF AndroidTypeOK, Share, PermissionResult, OnStartServer, RequestPermission,
       StartServer
  <2>2. CASE Connect \/ ModeCollected
    BY <2>2, Zenon DEF AndroidTypeOK, Connect, ModeCollected
  <2>3. CASE Replug
    BY <2>3, ZenonT(30) DEF AndroidTypeOK, Replug, OnStartServer, RequestPermission, StartServer
  <2>4. QED
    BY <2>1, <2>2, <2>3, ZenonT(30)
<1>2. \/ UNCHANGED <<calls, spc, serverRunner>>
      \/ Makes /\ serverRunner' \in {serverRunner, calls + 1}
  BY ZenonT(30) DEF Share, PermissionResult, Connect, Replug, ModeCollected, OnStartServer, RequestPermission, StartServer
<1>3. CASE UNCHANGED <<calls, spc, serverRunner>>
  BY <1>1, <1>3, ZenonT(30) DEF AndroidTypeOK, Launched, Unmade, SocketIsListed, OnePort
<1>4. CASE Makes /\ serverRunner' \in {serverRunner, calls + 1}
  <2>1. /\ calls + 1 \in Runner /\ calls \in Nat /\ serverRunner' \in Field
        /\ calls' \in 0..MaxCalls /\ spc[calls + 1] = "none"
    BY <1>4, SMTT(30) DEF AndroidTypeOK, Unmade
  <2>2. AndroidTypeOK'
    <3>1. spc' \in [Runner -> {"none", "link", "launched", "claim", "bind", "loop",
                               "accept", "threw", "catch", "done"}]
      <4>1. PICK label \in {"launched", "link"} : spc' = [spc EXCEPT ![calls + 1] = label]
        BY <1>4, Zenon
      <4>2. QED
        BY <2>1, <4>1, Zenon DEF AndroidTypeOK
    <3>2. claimer' # 0 => plugged' /\ conn'[claimer']
      BY <1>1, ZenonT(30) DEF AndroidTypeOK
    <3>3. QED
      BY <1>1, <2>1, <3>1, <3>2, Zenon DEF AndroidTypeOK
  <2>3. \A c \in Runner : spc'[c] # spc[c] => c = calls + 1 /\ spc'[c] \in {"launched", "link"}
    BY <1>4, <2>1, ZenonT(30) DEF AndroidTypeOK
  <2>4. Launched' /\ SocketIsListed' /\ OnePort'
    BY <1>1, <2>1, <2>3, ZenonT(30) DEF Launched, SocketIsListed, OnePort
  <2>5. Unmade'
    BY <1>4, <2>1, <2>3, SMTT(30) DEF Unmade
  <2>6. QED
    BY <2>2, <2>4, <2>5, Zenon
<1>5. QED
  BY <1>2, <1>3, <1>4, SMTT(30)

\* Those that stop the runner in the field.
LEMMA StopStep ==
  ASSUME AInv, Stop \/ Unplug
  PROVE  AInv'
<1> USE AndroidAssumption DEF AInv
<1>1. /\ UNCHANGED <<activity, coroutines, owned, peerpc>>
      /\ mode' \in Mode /\ serverRunner' \in Field
      /\ \/ UNCHANGED usb
         \/ claimer' = 0 /\ plugged' = FALSE
      /\ \/ StopField("main")
         \/ UNCHANGED stopped
  <2>1. CASE Stop
    BY <2>1, ZenonT(30) DEF Stop, AndroidTypeOK
  <2>2. CASE Unplug
    <3>1. claimer' = 0 /\ plugged' = FALSE /\ UNCHANGED <<activity, coroutines, owned, peerpc>>
      BY <2>2, ZenonT(30) DEF Unplug, OnDeviceDisconnected
    <3>2. \/ StopField("main") /\ serverRunner' = 0 /\ mode' = "AWAITING_DEVICE"
          \/ UNCHANGED <<stopped, service>>
      BY <2>2, ZenonT(30) DEF Unplug, OnDeviceDisconnected
    <3>3. /\ mode' \in Mode /\ serverRunner' \in Field
          /\ \/ StopField("main")
             \/ UNCHANGED stopped
      BY <3>2, SMTT(30) DEF AndroidTypeOK
    <3>4. QED
      BY <3>1, <3>3, SMTT(30)
  <2>3. QED
    BY <2>1, <2>2, ZenonT(30)
<1>2. /\ running' \in [Runner -> BOOLEAN] /\ listening' \in [Runner -> BOOLEAN]
      /\ socket' \in [Runner -> Field] /\ releasing' \in [Runner -> {"no", "main", "io"}]
      /\ hsock' \in [Runner -> {"open", "listed", "closed"}]
      /\ \A c \in Runner : listening'[c] =>
            listening[c] /\ \A q \in Runner : socket[q] = c => socket'[q] = c
  <2>1. CASE StopField("main")
    BY <2>1, StopFieldKeeps, Zenon
  <2>2. CASE UNCHANGED stopped
    <3>1. /\ running' = running /\ listening' = listening /\ socket' = socket
          /\ releasing' = releasing /\ hsock' = hsock
      BY <2>2 DEF stopped
    <3>2. QED
      BY <3>1, Zenon DEF AndroidTypeOK
  <2>3. QED
    BY <1>1, <2>1, <2>2, Zenon
<1>3. AndroidTypeOK'
  <2>1. (claimer' # 0 => plugged' /\ conn'[claimer']) /\ plugged' \in BOOLEAN /\ claimer' \in Field
    <3>1. CASE UNCHANGED usb
      BY <1>1, <3>1 DEF AndroidTypeOK
    <3>2. CASE claimer' = 0 /\ plugged' = FALSE
      <4>1. plugged' \in BOOLEAN
        BY <3>2, Zenon
      <4>2. QED
        BY <3>2, <4>1
    <3>3. QED
      BY <1>1, <3>1, <3>2, Zenon
  <2>2. QED
    BY <1>1, <1>2, <2>1, Zenon DEF AndroidTypeOK
<1>4. Launched' /\ Unmade' /\ OnePort'
  BY <1>1, <1>2, Zenon DEF Launched, Unmade, OnePort
<1>5. SocketIsListed'
  <2> SUFFICES ASSUME NEW c \in Runner, listening'[c]
               PROVE  spc'[c] \in {"loop", "accept"} /\ socket'[srun'[c]] = c
    BY Zenon DEF SocketIsListed
  <2>1. spc[c] \in {"loop", "accept"} /\ socket[srun[c]] = c
    BY <1>2, Zenon DEF SocketIsListed
  <2>2. srun[c] \in Runner
    BY <2>1 DEF Launched, AndroidTypeOK
  <2>3. QED
    BY <1>1, <1>2, <2>1, <2>2, Zenon
<1>6. QED
  BY <1>3, <1>4, <1>5, SMTT(30)

\* scope.cancel and releaseDevice.
LEMMA ReleaseStep ==
  ASSUME AInv, NEW r \in Runner, Release(r)
  PROVE  AInv'
<1> USE AndroidAssumption DEF AInv
<1>1. Launched' /\ Unmade' /\ SocketIsListed' /\ OnePort'
  BY DEF Release, Launched, Unmade, SocketIsListed, OnePort
<1>2. /\ claimer' # 0 => plugged' /\ conn'[claimer']
      /\ claimer' \in Field /\ conn' \in [Runner -> BOOLEAN] /\ scope' \in [Runner -> BOOLEAN]
      /\ releasing' \in [Runner -> {"no", "main", "io"}]
  <2>1. /\ conn' \in [Runner -> BOOLEAN] /\ scope' \in [Runner -> BOOLEAN]
        /\ releasing' \in [Runner -> {"no", "main", "io"}]
    BY Zenon DEF Release, AndroidTypeOK
  <2>2. claimer' \in Field /\ (claimer' # 0 => plugged' /\ conn'[claimer'])
    BY DEF Release, AndroidTypeOK, Field
  <2>3. QED
    BY <2>1, <2>2
<1>3. AndroidTypeOK'
  BY <1>2, Zenon DEF Release, AndroidTypeOK
<1>4. QED
  BY <1>1, <1>3

\* A coroutine moves on, with its listening socket if it has one, or without one.
LEMMA CoroutineMoves ==
  ASSUME AInv, NEW c \in Runner, NEW label, Goto(c, label), spc[c] # "none",
         UNCHANGED <<calls, listening, socket>>,
         srun'[c] # srun[c] => ~listening[c],
         label \in {"claim", "bind", "loop", "accept"} => srun'[c] # 0,
         listening[c] => label \in {"loop", "accept"},
         \A b \in Runner : b # c => srun'[b] = srun[b]
  PROVE  Launched' /\ Unmade' /\ SocketIsListed' /\ OnePort'
<1> USE DEF AInv
<1>1. spc'[c] = label /\ \A b \in Runner : b # c => spc'[b] = spc[b]
  BY Zenon DEF Goto, AndroidTypeOK
<1>2. Launched' /\ Unmade'
  BY <1>1, Zenon DEF Launched, Unmade
<1>3. SocketIsListed' /\ OnePort'
  BY <1>1 DEF SocketIsListed, OnePort
<1>4. QED
  BY <1>2, <1>3, Zenon

\* start() ends and closes what is in its runner's field: its own socket.
LEMMA StartCloses ==
  ASSUME AInv, NEW c \in Runner, NEW label \in {"threw", "done"}, StartEnds(c, label),
         spc[c] \in {"loop", "accept"}, CloseServerSocket(c), UNCHANGED calls
  PROVE  /\ Launched' /\ Unmade' /\ SocketIsListed' /\ OnePort'
         /\ listening' \in [Runner -> BOOLEAN] /\ socket' \in [Runner -> Field]
<1> USE AndroidAssumption DEF AInv
<1>1. /\ spc'[c] = label /\ srun'[c] = 0
      /\ \A b \in Runner : b # c => spc'[b] = spc[b] /\ srun'[b] = srun[b]
  BY Zenon DEF StartEnds, Goto, AndroidTypeOK
<1>2. srun[c] \in Runner
  BY DEF Launched, AndroidTypeOK
<1>3. /\ listening' \in [Runner -> BOOLEAN] /\ socket' \in [Runner -> Field]
      /\ \A b \in Runner : listening'[b] => listening[b] /\ b # socket[srun[c]]
      /\ \A q \in Runner : q # srun[c] => socket'[q] = socket[q]
  <2>1. listening' = [b \in Runner |-> listening[b] /\ b # socket[srun[c]]]
    BY DEF CloseServerSocket, Closed
  <2>2. listening' \in [Runner -> BOOLEAN]
    BY <2>1, Zenon
  <2>3. \A b \in Runner : listening'[b] => listening[b] /\ b # socket[srun[c]]
    BY <2>1, Zenon
  <2>4. socket' \in [Runner -> Field] /\ \A q \in Runner : q # srun[c] => socket'[q] = socket[q]
    BY <1>2 DEF CloseServerSocket, AndroidTypeOK
  <2>5. QED
    BY <2>2, <2>3, <2>4, Zenon
<1>4. ~listening'[c]
  BY <1>3 DEF SocketIsListed
<1>5. Launched' /\ Unmade' /\ OnePort'
  <2>1. Launched'
    BY <1>1, Zenon DEF Launched
  <2>2. Unmade'
    BY <1>1, Zenon DEF Unmade
  <2>3. OnePort'
    BY <1>3, Zenon DEF OnePort
  <2>4. QED
    BY <2>1, <2>2, <2>3, Zenon
<1>6. SocketIsListed'
  <2> SUFFICES ASSUME NEW b \in Runner, listening'[b]
               PROVE  spc'[b] \in {"loop", "accept"} /\ socket'[srun'[b]] = b
    BY Zenon DEF SocketIsListed
  <2>1. b # c /\ listening[b] /\ b # socket[srun[c]]
    BY <1>3, <1>4, Zenon
  <2>2. spc[b] \in {"loop", "accept"} /\ socket[srun[b]] = b /\ srun[b] \in Runner
    <3>1. spc[b] \in {"loop", "accept"} /\ socket[srun[b]] = b
      BY <2>1 DEF SocketIsListed
    <3>2. srun[b] \in Field /\ srun[b] # 0
      BY <3>1, Zenon DEF Launched, AndroidTypeOK
    <3>3. QED
      BY <3>1, <3>2 DEF Field
  <2>3. srun[b] # srun[c]
    BY <2>1, <2>2, Zenon
  <2>4. QED
    BY <1>1, <1>3, <2>1, <2>2, <2>3
<1>7. QED
  BY <1>3, <1>5, <1>6, Zenon

Spc == {"none", "link", "launched", "claim", "bind", "loop", "accept", "threw", "catch", "done"}

\* A coroutine's variables keep their types.
LEMMA CoroutineTypes ==
  ASSUME AInv, NEW c \in Runner, NEW label \in Spc
  PROVE  /\ Goto(c, label) => spc' \in [Runner -> Spc]
         /\ StartEnds(c, label) => /\ srun' \in [Runner -> Field] /\ son' \in [Runner -> Field]
                                   /\ srun'[c] = 0 /\ Goto(c, label)
                                   /\ \A b \in Runner : b # c => srun'[b] = srun[b]
<1> USE AndroidAssumption DEF AInv
<1>1. Goto(c, label) => spc' \in [Runner -> Spc]
  BY ZenonT(30) DEF Spc, AndroidTypeOK, Goto
<1>2. ASSUME StartEnds(c, label)
      PROVE  /\ srun' \in [Runner -> Field] /\ son' \in [Runner -> Field]
             /\ srun'[c] = 0 /\ \A b \in Runner : b # c => srun'[b] = srun[b]
  BY <1>2 DEF AndroidTypeOK, StartEnds
<1>3. StartEnds(c, label) => Goto(c, label)
  BY DEF StartEnds
<1>4. QED
  BY <1>1, <1>2, <1>3, Zenon

\* The steps that open and close no socket.
LEMMA QuietStep ==
  ASSUME AInv, NEW c \in Runner,
         \/ LinkImported(c) \/ LinkFails(c) \/ ServerCaught(c) \/ Accept(c)
  PROVE  AInv'
<1> USE AndroidAssumption DEF AInv
<1>1. PICK label \in Spc :
         /\ Goto(c, label) /\ spc[c] # "none"
         /\ label \in {"claim", "bind", "loop", "accept"} => label = "loop" /\ spc[c] = "accept"
         /\ spc[c] = "accept" => label = "loop"
         /\ spc[c] # "loop"
  BY ZenonT(30) DEF LinkImported, LinkFails, ServerCaught, Accept, Spc
<1>2. UNCHANGED <<calls, listening, socket, srun>>
  BY Zenon DEF LinkImported, LinkFails, ServerCaught, Accept
<1>3. Launched' /\ Unmade' /\ SocketIsListed' /\ OnePort'
  <2>1. listening[c] => label \in {"loop", "accept"}
    BY <1>1, Zenon DEF SocketIsListed
  <2>2. label \in {"claim", "bind", "loop", "accept"} => srun[c] # 0
    BY <1>1 DEF Launched
  <2>3. QED
    BY <1>1, <1>2, <2>1, <2>2, CoroutineMoves
<1>4. AndroidTypeOK'
  <2>1. spc' \in [Runner -> Spc]
    BY <1>1, CoroutineTypes
  <2>2. CASE LinkImported(c) \/ LinkFails(c) \/ ServerCaught(c)
    BY <2>1, <2>2, ZenonT(60) DEF LinkImported, LinkFails, ServerCaught, AndroidTypeOK, Spc
  <2>3. CASE Accept(c)
    <3>1. /\ peerpc' \in [Runner -> {"none", "launched", "read", "urb"}]
          /\ hsock' \in [Runner -> {"open", "listed", "closed"}]
          /\ son' \in [Runner -> Field]
      <4>1. son' \in [Runner -> Field]
        <5>1. son' = [son EXCEPT ![c] = 0] /\ 0 \in Field
          BY <2>3 DEF Accept, Field
        <5>2. QED
          BY <5>1, Zenon DEF AndroidTypeOK
      <4>2. \/ /\ peerpc' = [peerpc EXCEPT ![srun[c]] = "launched"]
               /\ hsock' = [hsock EXCEPT ![srun[c]] = "open"]
            \/ UNCHANGED <<peerpc, hsock>>
        BY <2>3, ZenonT(30) DEF Accept
      <4>3. QED
        BY <4>1, <4>2, ZenonT(30) DEF AndroidTypeOK
    <3>2. UNCHANGED <<plugged, claimer, mode, serverRunner, shown, asking, calls, srun,
                      running, conn, listening, socket, scope, releasing>>
      BY <2>3, Zenon DEF Accept, service, activity, usb, owned
    <3>3. QED
      BY <2>1, <3>1, <3>2, Zenon DEF AndroidTypeOK, Spc
  <2>4. QED
    BY <2>2, <2>3, Zenon
<1>5. QED
  BY <1>3, <1>4

\* serverRunner?.start()
LEMMA StartStep ==
  ASSUME AInv, NEW c \in Runner, StartRunner(c)
  PROVE  AInv'
<1> USE AndroidAssumption DEF AInv
<1>1. /\ spc[c] = "launched" /\ ~listening[c]
      /\ UNCHANGED <<service, activity, usb, son, listening, socket, releasing, hsock, owned, peerpc>>
  BY DEF StartRunner, SocketIsListed
<1>2. CASE serverRunner = 0
  <2>1. Goto(c, "done") /\ UNCHANGED <<srun, running>>
    BY <1>2 DEF StartRunner
  <2>2. spc' \in [Runner -> Spc]
    BY <2>1, CoroutineTypes DEF Spc
  <2>3. AndroidTypeOK'
    BY <1>1, <2>1, <2>2, ZenonT(30) DEF AndroidTypeOK, Spc
  <2>4. QED
    BY <1>1, <2>1, <2>3, CoroutineMoves
<1>3. CASE serverRunner # 0
  <2>1. /\ Goto(c, "claim") /\ srun' = [srun EXCEPT ![c] = serverRunner]
        /\ running' = [running EXCEPT ![serverRunner] = TRUE]
    BY <1>3, Zenon DEF StartRunner
  <2>2. spc' \in [Runner -> Spc]
    BY <2>1, CoroutineTypes, Zenon DEF Spc
  <2>3. /\ srun' \in [Runner -> Field] /\ srun'[c] = serverRunner
        /\ \A b \in Runner : b # c => srun'[b] = srun[b]
    BY <2>1, Zenon DEF AndroidTypeOK
  <2>4. running' \in [Runner -> BOOLEAN]
    BY <2>1, Zenon DEF AndroidTypeOK
  <2>5. AndroidTypeOK'
    BY <1>1, <2>2, <2>3, <2>4, ZenonT(30) DEF AndroidTypeOK, Spc
  <2>6. QED
    BY <1>1, <1>3, <2>1, <2>3, <2>5, CoroutineMoves, Zenon
<1>4. QED
  BY <1>2, <1>3

\* findDevice and claimDevice.
LEMMA ClaimStep ==
  ASSUME AInv, NEW c \in Runner, ClaimDevice(c)
  PROVE  AInv'
<1> USE AndroidAssumption DEF AInv
<1>1. /\ spc[c] = "claim" /\ ~listening[c] /\ srun[c] \in Runner
      /\ UNCHANGED <<service, activity, plugged, stopped, scope, peerpc>>
  <2>1. /\ spc[c] = "claim"
        /\ UNCHANGED <<service, activity, plugged, stopped, scope, peerpc>>
    BY DEF ClaimDevice
  <2>2. ~listening[c]
    BY <2>1, ZenonT(30) DEF SocketIsListed
  <2>3. srun[c] \in Runner
    BY <2>1 DEF Launched, AndroidTypeOK
  <2>4. QED
    BY <2>1, <2>2, <2>3, Zenon
<1>2. CASE /\ plugged /\ Goto(c, "bind") /\ conn' = [conn EXCEPT ![srun[c]] = TRUE]
           /\ claimer' = srun[c] /\ UNCHANGED <<srun, son>>
  <2>1. spc' \in [Runner -> Spc]
    BY <1>2, CoroutineTypes, Zenon DEF Spc
  <2>2. conn' \in [Runner -> BOOLEAN] /\ conn'[srun[c]] /\ claimer' \in Field
    BY <1>1, <1>2 DEF AndroidTypeOK
  <2>3. AndroidTypeOK'
    BY <1>1, <1>2, <2>1, <2>2, ZenonT(30) DEF AndroidTypeOK, Spc
  <2>4. QED
    BY <1>1, <1>2, <2>3, CoroutineMoves
<1>3. CASE StartEnds(c, "threw") /\ UNCHANGED <<conn, claimer>>
  <2>1. /\ Goto(c, "threw") /\ spc' \in [Runner -> Spc]
        /\ srun' \in [Runner -> Field] /\ son' \in [Runner -> Field]
        /\ \A b \in Runner : b # c => srun'[b] = srun[b]
    BY <1>3, CoroutineTypes, Zenon DEF Spc
  <2>2. AndroidTypeOK'
    BY <1>1, <1>3, <2>1, ZenonT(30) DEF AndroidTypeOK, Spc
  <2>3. QED
    BY <1>1, <2>1, <2>2, CoroutineMoves, Zenon
<1>4. QED
  BY <1>2, <1>3, Zenon DEF ClaimDevice

\* The port is bound, when nobody has it.
LEMMA BindStep ==
  ASSUME AInv, NEW c \in Runner, Bind(c)
  PROVE  AInv'
<1> USE AndroidAssumption DEF AInv
<1>1. /\ spc[c] = "bind" /\ ~listening[c] /\ srun[c] \in Runner
      /\ UNCHANGED <<service, activity, usb, running, releasing, hsock, owned, peerpc>>
  <2>1. /\ spc[c] = "bind"
        /\ UNCHANGED <<service, activity, usb, running, releasing, hsock, owned, peerpc>>
    BY DEF Bind
  <2>2. ~listening[c]
    BY <2>1, ZenonT(30) DEF SocketIsListed
  <2>3. srun[c] \in Runner
    BY <2>1 DEF Launched, AndroidTypeOK
  <2>4. QED
    BY <2>1, <2>2, <2>3, Zenon
<1>2. CASE \A b \in Runner : ~listening[b]
  <2>1. /\ Goto(c, "loop") /\ listening' = [listening EXCEPT ![c] = TRUE]
        /\ socket' = [socket EXCEPT ![srun[c]] = c] /\ UNCHANGED <<srun, son>>
    BY <1>2 DEF Bind
  <2>2. /\ spc' \in [Runner -> Spc] /\ spc'[c] = "loop"
        /\ \A b \in Runner : b # c => spc'[b] = spc[b]
    BY <2>1, CoroutineTypes, ZenonT(60) DEF Spc, Goto, AndroidTypeOK
  <2>3. /\ listening' \in [Runner -> BOOLEAN]
        /\ \A b \in Runner : listening'[b] => b = c
    BY <1>2, <2>1, Zenon DEF AndroidTypeOK
  <2>4. socket' \in [Runner -> Field] /\ socket'[srun[c]] = c
    BY <1>1, <2>1 DEF AndroidTypeOK
  <2>5. AndroidTypeOK'
    BY <1>1, <2>1, <2>2, <2>3, <2>4, ZenonT(30) DEF AndroidTypeOK, Spc
  <2>6. Launched' /\ Unmade'
    BY <1>1, <2>1, <2>2, Zenon DEF Launched, Unmade
  <2>7. SocketIsListed' /\ OnePort'
    BY <2>1, <2>2, <2>3, <2>4 DEF SocketIsListed, OnePort
  <2>8. QED
    BY <2>5, <2>6, <2>7, Zenon
<1>3. CASE ~\A b \in Runner : ~listening[b]
  <2>1. StartEnds(c, "threw") /\ UNCHANGED <<listening, socket>>
    BY <1>3 DEF Bind
  <2>2. /\ Goto(c, "threw") /\ spc' \in [Runner -> Spc]
        /\ srun' \in [Runner -> Field] /\ son' \in [Runner -> Field]
        /\ \A b \in Runner : b # c => srun'[b] = srun[b]
    BY <2>1, CoroutineTypes, Zenon DEF Spc
  <2>3. AndroidTypeOK'
    BY <1>1, <2>1, <2>2, ZenonT(30) DEF AndroidTypeOK, Spc
  <2>4. QED
    BY <1>1, <2>1, <2>2, <2>3, CoroutineMoves, ZenonT(30)
<1>4. QED
  BY <1>2, <1>3, Zenon

\* The loop goes on to accept, or ends.
LEMMA LoopStep ==
  ASSUME AInv, NEW c \in Runner, AcceptLoop(c) \/ AcceptFails(c)
  PROVE  AInv'
<1> USE AndroidAssumption DEF AInv
<1>1. /\ spc[c] \in {"loop", "accept"} /\ srun[c] \in Runner
      /\ UNCHANGED <<service, activity, usb, running, releasing, hsock, owned, peerpc>>
  BY DEF AcceptLoop, AcceptFails, Launched, AndroidTypeOK
<1>2. CASE /\ Goto(c, "accept") /\ son' = [son EXCEPT ![c] = socket[srun[c]]]
           /\ UNCHANGED <<srun, listening, socket>>
  <2>1. spc' \in [Runner -> Spc]
    BY <1>2, CoroutineTypes, ZenonT(30) DEF Spc
  <2>2. son' \in [Runner -> Field]
    BY <1>1, <1>2, ZenonT(30) DEF AndroidTypeOK
  <2>3. AndroidTypeOK'
    BY <1>1, <1>2, <2>1, <2>2, ZenonT(30) DEF AndroidTypeOK, Spc
  <2>4. srun[c] # 0
    BY <1>1
  <2>5. QED
    BY <1>1, <1>2, <2>3, <2>4, CoroutineMoves, Zenon
<1>3. ASSUME NEW label \in {"threw", "done"}, StartEnds(c, label), CloseServerSocket(c)
      PROVE  AInv'
  <2>1. /\ spc' \in [Runner -> Spc]
        /\ srun' \in [Runner -> Field] /\ son' \in [Runner -> Field]
    BY <1>3, CoroutineTypes, ZenonT(30) DEF Spc
  <2>2. /\ Launched' /\ Unmade' /\ SocketIsListed' /\ OnePort'
        /\ listening' \in [Runner -> BOOLEAN] /\ socket' \in [Runner -> Field]
    BY <1>1, <1>3, StartCloses, Zenon
  <2>3. AndroidTypeOK'
    BY <1>1, <2>1, <2>2, ZenonT(30) DEF AndroidTypeOK, Spc
  <2>4. QED
    BY <2>2, <2>3
<1>4. QED
  BY <1>2, <1>3, ZenonT(30) DEF AcceptLoop, AcceptFails

\* The catch block stops whatever is in the field.
LEMMA CatchStep ==
  ASSUME AInv, NEW c \in Runner, ServerCaughtStops(c)
  PROVE  AInv'
<1> USE AndroidAssumption DEF AInv
<1>1. /\ spc[c] = "catch" /\ ~listening[c] /\ Goto(c, "done") /\ StopField("io")
      /\ serverRunner' = 0
      /\ UNCHANGED <<mode, activity, usb, srun, son, owned, peerpc>>
  BY ZenonT(30) DEF ServerCaughtStops, SocketIsListed
<1>2. /\ spc' \in [Runner -> Spc] /\ spc'[c] = "done"
      /\ \A b \in Runner : b # c => spc'[b] = spc[b]
  BY <1>1, CoroutineTypes, ZenonT(30) DEF Spc, Goto, AndroidTypeOK
<1>3. /\ running' \in [Runner -> BOOLEAN] /\ listening' \in [Runner -> BOOLEAN]
      /\ socket' \in [Runner -> Field] /\ releasing' \in [Runner -> {"no", "main", "io"}]
      /\ hsock' \in [Runner -> {"open", "listed", "closed"}]
      /\ \A b \in Runner : listening'[b] =>
            listening[b] /\ \A q \in Runner : socket[q] = b => socket'[q] = b
  BY <1>1, StopFieldKeeps, ZenonT(30)
<1>4. AndroidTypeOK'
  <2>1. /\ claimer' = claimer /\ plugged' = plugged /\ conn' = conn /\ mode' = mode
        /\ shown' = shown /\ asking' = asking /\ calls' = calls /\ srun' = srun /\ son' = son
        /\ scope' = scope /\ peerpc' = peerpc /\ serverRunner' \in Field
    BY <1>1 DEF activity, usb, owned, Field
  <2>2. QED
    BY <1>2, <1>3, <2>1, Zenon DEF AndroidTypeOK, Spc
<1>5. Launched' /\ Unmade' /\ OnePort'
  BY <1>1, <1>2, <1>3, ZenonT(60) DEF Launched, Unmade, OnePort
<1>6. SocketIsListed'
  <2> SUFFICES ASSUME NEW b \in Runner, listening'[b]
               PROVE  spc'[b] \in {"loop", "accept"} /\ socket'[srun'[b]] = b
    BY ZenonT(30) DEF SocketIsListed
  <2>1. listening[b] /\ b # c
    BY <1>1, <1>3
  <2>2. spc[b] \in {"loop", "accept"} /\ socket[srun[b]] = b
    BY <2>1 DEF SocketIsListed
  <2>3. srun[b] \in Runner
    BY <2>2 DEF Launched, AndroidTypeOK
  <2>4. QED
    BY <1>1, <1>2, <1>3, <2>1, <2>2, <2>3, Zenon
<1>7. QED
  BY <1>4, <1>5, <1>6

\* handleClient and its URB loop touch nothing but their own socket.
LEMMA PeerStep ==
  ASSUME AInv, NEW r \in Runner,
         \/ HandleClient(r) \/ HandleImport(r) \/ HandleDevList(r)
         \/ PeerCloses(r) \/ UrbLoopLeft(r) \/ LoopEnds(r)
  PROVE  AInv'
<1> USE DEF AInv
<1>1. UNCHANGED <<service, activity, usb, coroutines, running, listening, socket, releasing, owned>>
  BY Zenon DEF HandleClient, HandleImport, HandleDevList, PeerCloses, UrbLoopLeft, LoopEnds, OnPeer
<1>2. /\ peerpc' \in [Runner -> {"none", "launched", "read", "urb"}]
      /\ hsock' \in [Runner -> {"open", "listed", "closed"}]
  <2>1. CASE HandleClient(r)
    BY <2>1, ZenonT(30) DEF AndroidTypeOK, HandleClient, PeerDone
  <2>2. CASE HandleImport(r)
    BY <2>2, ZenonT(30) DEF AndroidTypeOK, HandleImport, PeerDone
  <2>3. CASE HandleDevList(r) \/ PeerCloses(r) \/ UrbLoopLeft(r) \/ LoopEnds(r)
    <3>1. PeerDone(r)
      BY <2>3, Zenon DEF HandleDevList, PeerCloses, UrbLoopLeft, LoopEnds
    <3>2. QED
      BY <3>1, ZenonT(30) DEF AndroidTypeOK, PeerDone
  <2>4. QED
    BY <2>1, <2>2, <2>3, Zenon
<1>3. AndroidTypeOK'
  BY <1>1, <1>2, ZenonT(30) DEF AndroidTypeOK
<1>4. Launched' /\ Unmade' /\ SocketIsListed' /\ OnePort'
  BY <1>1, ZenonT(30) DEF Launched, Unmade, SocketIsListed, OnePort
<1>5. QED
  BY <1>3, <1>4

-----------------------------------------------------------------------------
(* Theorems *)

\* Every step keeps the invariant.
LEMMA NextAInv == AInv /\ [AndroidNext]_androidVars => AInv'
<1> SUFFICES ASSUME AInv, [AndroidNext]_androidVars PROVE AInv'
  OBVIOUS
<1>1. CASE UNCHANGED androidVars
  BY <1>1, ZenonT(30) DEF androidVars, AInv, AndroidTypeOK, Launched, Unmade, SocketIsListed, OnePort
<1>2. CASE \/ Share \/ PermissionResult \/ Connect \/ Stop \/ Unplug \/ Replug
           \/ ModeCollected
  BY <1>2, MainStep, StopStep
<1>3. ASSUME NEW r \in Runner, ServerThread(r) PROVE AInv'
  BY <1>3, StartStep, ClaimStep, BindStep, LoopStep, QuietStep, CatchStep, Zenon DEF ServerThread
<1>4. ASSUME NEW r \in Runner,
             \/ Release(r) \/ Accept(r) \/ LinkImported(r) \/ LinkFails(r)
             \/ HandleClient(r) \/ HandleImport(r) \/ HandleDevList(r)
             \/ PeerCloses(r) \/ UrbLoopLeft(r) \/ LoopEnds(r)
      PROVE  AInv'
  BY <1>4, ReleaseStep, QuietStep, PeerStep, Zenon
<1>5. QED
  BY <1>1, <1>2, <1>3, <1>4 DEF AndroidNext

\* The invariant holds of every state of the service, its runners and coroutines.
THEOREM AndroidInvariance == AndroidSpec => []AInv
  BY InitAInv, NextAInv, PTL DEF AndroidSpec

\* The fields keep their types, and the device's interfaces are held only by the
\* connection of a runner, to a device that is there (claimDevice, releaseDevice).
THEOREM AndroidTypeCorrect == AndroidSpec => []AndroidTypeOK
<1>1. AInv => AndroidTypeOK
  BY Zenon DEF AInv
<1>2. QED
  BY <1>1, AndroidInvariance, PTL

\* UsbIpServer.start leaves no listening socket behind, however often startServer is
\* called while earlier coroutines are still in start().
THEOREM PortsAreFreed == AndroidSpec => []PortIsFreed
<1>1. AInv => PortIsFreed
  BY DEF AInv, SocketIsListed, PortIsFreed
<1>2. QED
  BY <1>1, AndroidInvariance, PTL

=============================================================================
