---------------------------- MODULE RequestLedger ----------------------------
(* The append-only ledger of generation requests: several processes, each  *)
(* with threads, append events to one file under a lock of the process and  *)
(* a lock of the file, and any of them may be killed, get a write error or  *)
(* lose power at any point.  An event is longer than one write: it reaches  *)
(* the file in two fragments, the second of which ends the line.            *)
EXTENDS Integers, Sequences, SequencesExt, FiniteSets

CONSTANTS
  Process, Writer, Request,
  ProcessOf,      \* the process a writer is a thread of
  OwnerOf,        \* the writer that generates a request
  NoWriter,
  MaxEvents,      \* bounds of the model: the events appended, and the kills,
  MaxFaults       \* write errors and power losses

Ending == {"request_completed", "request_failed"}
Event  == Request \X (Ending \cup {"request_started"})
Fragment == [event : Event, last : BOOLEAN]
Holding == {"locked", "part", "written", "synced"}
Location == Holding \cup {"idle", "called", "open", "unlocked", "dead"}

ASSUME WriterAssumption ==
  /\ ProcessOf \in [Writer -> Process] /\ OwnerOf \in [Request -> Writer]
  /\ NoWriter \notin Writer /\ Request # {}

VARIABLES
  file,         \* the fragments in the file
  synced,       \* how many of them are on the disk
  called,       \* events whose append was begun: the _finished flags
  acked,        \* events whose append returned
  pc, doing,    \* where a writer is in _append, and with which event
  threadLock, fileLock,
  dead, faults

vars == <<file, synced, called, acked, pc, doing, threadLock, fileLock, dead, faults>>

Started(r) == <<r, "request_started">>
HeadOf(e) == [event |-> e, last |-> FALSE]
RestOf(e)  == [event |-> e, last |-> TRUE]

Init ==
  /\ file = << >> /\ synced = 0
  /\ called = {} /\ acked = {}
  /\ pc = [w \in Writer |-> "idle"]
  /\ doing = [w \in Writer |-> CHOOSE e \in Event : TRUE]
  /\ threadLock = [p \in Process |-> NoWriter] /\ fileLock = NoWriter
  /\ dead = {} /\ faults = 0

Alive(w) == ProcessOf[w] \notin dead

Call(w, e) ==
  /\ Cardinality(called) < MaxEvents
  /\ pc[w] = "idle" /\ Alive(w) /\ OwnerOf[e[1]] = w
  /\ called' = called \cup {e}
  /\ pc' = [pc EXCEPT ![w] = "called"]
  /\ doing' = [doing EXCEPT ![w] = e]
  /\ UNCHANGED <<file, synced, acked, threadLock, fileLock, dead, faults>>

(* start(): a fresh request id every time.                                  *)
Start(w, r) == Started(r) \notin called /\ Call(w, Started(r))

(* Faulty: a request may be ended twice.                                    *)
FaultyFinish(w, r, kind) == Started(r) \in acked /\ Call(w, <<r, kind>>)

(* complete() and fail(): once start() has returned, and one of them once.  *)
Finish(w, r, kind) ==
  /\ Started(r) \in acked
  /\ \A k \in Ending : <<r, k>> \notin called
  /\ Call(w, <<r, kind>>)

LockThread(w) ==
  /\ pc[w] = "called" /\ threadLock[ProcessOf[w]] = NoWriter
  /\ threadLock' = [threadLock EXCEPT ![ProcessOf[w]] = w]
  /\ pc' = [pc EXCEPT ![w] = "open"]
  /\ UNCHANGED <<file, synced, called, acked, doing, fileLock, dead, faults>>

(* Faulty: without the lock of the file.                                    *)
FaultyLockFile(w) ==
  /\ pc[w] = "open"
  /\ fileLock' = w
  /\ pc' = [pc EXCEPT ![w] = "locked"]
  /\ UNCHANGED <<file, synced, called, acked, doing, threadLock, dead, faults>>

LockFile(w) ==
  /\ pc[w] = "open" /\ fileLock = NoWriter
  /\ fileLock' = w
  /\ pc' = [pc EXCEPT ![w] = "locked"]
  /\ UNCHANGED <<file, synced, called, acked, doing, threadLock, dead, faults>>

WriteHead(w) ==
  /\ pc[w] = "locked"
  /\ file' = Append(file, HeadOf(doing[w]))
  /\ pc' = [pc EXCEPT ![w] = "part"]
  /\ UNCHANGED <<synced, called, acked, doing, threadLock, fileLock, dead, faults>>

WriteRest(w) ==
  /\ pc[w] = "part"
  /\ file' = Append(file, RestOf(doing[w]))
  /\ pc' = [pc EXCEPT ![w] = "written"]
  /\ UNCHANGED <<synced, called, acked, doing, threadLock, fileLock, dead, faults>>

(* Faulty: flushed, not synced.                                             *)
FaultySync(w) ==
  /\ pc[w] = "written"
  /\ pc' = [pc EXCEPT ![w] = "synced"]
  /\ UNCHANGED <<file, synced, called, acked, doing, threadLock, fileLock, dead, faults>>

Sync(w) ==
  /\ pc[w] = "written"
  /\ synced' = Len(file)
  /\ pc' = [pc EXCEPT ![w] = "synced"]
  /\ UNCHANGED <<file, called, acked, doing, threadLock, fileLock, dead, faults>>

UnlockFile(w) ==
  /\ pc[w] = "synced"
  /\ fileLock' = NoWriter
  /\ pc' = [pc EXCEPT ![w] = "unlocked"]
  /\ UNCHANGED <<file, synced, called, acked, doing, threadLock, dead, faults>>

Return(w) ==
  /\ pc[w] = "unlocked"
  /\ acked' = acked \cup {doing[w]}
  /\ threadLock' = [threadLock EXCEPT ![ProcessOf[w]] = NoWriter]
  /\ pc' = [pc EXCEPT ![w] = "idle"]
  /\ UNCHANGED <<file, synced, called, doing, fileLock, dead, faults>>

Fault == faults < MaxFaults /\ faults' = faults + 1

(* An OSError of write, flush or fsync leaves _append; closing the file     *)
(* flushes once more, which may fail again or succeed, and drops the lock.  *)
WriteError(w) ==
  /\ Fault
  /\ \/ /\ pc[w] = "locked"
        /\ file' \in {file, Append(file, HeadOf(doing[w])),
                      Append(Append(file, HeadOf(doing[w])), RestOf(doing[w]))}
     \/ /\ pc[w] = "part"
        /\ file' \in {file, Append(file, RestOf(doing[w]))}
     \/ pc[w] = "written" /\ file' = file
  /\ fileLock' = NoWriter
  /\ threadLock' = [threadLock EXCEPT ![ProcessOf[w]] = NoWriter]
  /\ pc' = [pc EXCEPT ![w] = "idle"]
  /\ UNCHANGED <<synced, called, acked, doing, dead>>

(* Faulty: a lock that its owner's death leaves behind.                     *)
FaultyDie(victims) ==
  /\ dead' = dead \cup victims
  /\ pc' = [w \in Writer |-> IF ProcessOf[w] \in victims THEN "dead" ELSE pc[w]]
  /\ UNCHANGED <<fileLock, threadLock>>

(* The kernel drops the locks of dead processes; what they wrote stays.     *)
Die(victims) ==
  /\ dead' = dead \cup victims
  /\ pc' = [w \in Writer |-> IF ProcessOf[w] \in victims THEN "dead" ELSE pc[w]]
  /\ fileLock' = IF fileLock \in {w \in Writer : ProcessOf[w] \in victims}
                 THEN NoWriter ELSE fileLock
  /\ threadLock' = [p \in Process |-> IF p \in victims THEN NoWriter ELSE threadLock[p]]

Kill(p) ==
  /\ p \notin dead /\ Fault /\ Die({p})
  /\ UNCHANGED <<file, synced, called, acked, doing>>

(* Every process that ran is gone, and some of what was not synced.  The    *)
(* others are started after the reboot.                                     *)
PowerLoss ==
  /\ Fault
  /\ Die({ProcessOf[OwnerOf[e[1]]] : e \in called})
  /\ \E n \in synced .. Len(file) : file' = SubSeq(file, 1, n) /\ synced' = n
  /\ UNCHANGED <<called, acked, doing>>

Step(w) == \/ LockThread(w) \/ LockFile(w) \/ WriteHead(w) \/ WriteRest(w)
              \/ Sync(w) \/ UnlockFile(w) \/ Return(w)

Next ==
  \/ \E w \in Writer :
       \/ Step(w) \/ WriteError(w)
       \/ \E r \in Request : Start(w, r) \/ \E kind \in Ending : Finish(w, r, kind)
  \/ \E p \in Process : Kill(p)
  \/ PowerLoss

Spec == Init /\ [][Next]_vars

(* A thread that is not killed goes on; a lock that is free is granted.     *)
FairSpec == Spec /\ \A w \in Writer : WF_vars(Step(w))

-----------------------------------------------------------------------------
(* validate_ledger.  A line is read when it holds one event; any other line *)
(* is not JSON.                                                             *)
Reads(i) ==
  /\ i \in 1 .. Len(file) - 1 /\ ~ file[i].last
  /\ file[i + 1] = RestOf(file[i].event)
  /\ i = 1 \/ file[i - 1].last

Lines(e) == {i \in 1 .. Len(file) : Reads(i) /\ file[i].event = e}
ReadStarted == {r \in Request : Lines(Started(r)) # {}}
ReadEnded   == {r \in Request : \E k \in Ending : Lines(<<r, k>>) # {}}

NotJson == \E i \in 1 .. Len(file) : IF file[i].last THEN ~ Reads(i - 1) ELSE ~ Reads(i)
Duplicate ==
  \E i, j \in 1 .. Len(file) :
    /\ i # j /\ Reads(i) /\ Reads(j) /\ file[i].event[1] = file[j].event[1]
    /\ file[i].event[2] \in Ending <=> file[j].event[2] \in Ending
Orphaned == ~ ReadEnded \subseteq ReadStarted

(* Faulty: lines that cannot be parsed are skipped.                         *)
FaultyRejected == Duplicate \/ Orphaned
Rejected == NotJson \/ Duplicate \/ Orphaned
IsComplete == ~ Rejected /\ ReadStarted \subseteq ReadEnded

-----------------------------------------------------------------------------
(* Locks, program counters and the file are what their names say.           *)
TypeOK ==
  /\ file \in Seq(Fragment) /\ synced \in 0 .. Len(file)
  /\ acked \subseteq called /\ called \subseteq Event
  /\ doing \in [Writer -> Event] /\ dead \subseteq Process
  /\ pc \in [Writer -> Location] /\ \A w \in Writer : pc[w] = "dead" <=> ~ Alive(w)
  /\ \A w \in Writer : (fileLock = w) <=> pc[w] \in Holding
  /\ \A p \in Process : threadLock[p] # NoWriter =>
       ProcessOf[threadLock[p]] = p /\ pc[threadLock[p]] \notin {"idle", "called", "dead"}

(* A line cut short: its second fragment does not follow.                   *)
Torn(i) == ~ file[i].last /\ ~ (i < Len(file) /\ file[i + 1] = RestOf(file[i].event))

OnDisk(e) == \E i \in 2 .. synced : file[i - 1] = HeadOf(e) /\ file[i] = RestOf(e)

(* An event whose append has returned is on the disk, in one piece, and no  *)
(* later crash, error or power loss takes it away.                          *)
AcknowledgedEventsAreDurable == \A e \in acked : OnDisk(e)

(* The lines of two writers never mix, whatever kills one of them: what     *)
(* ends a line is the rest of the event the line began with last.           *)
LinesDoNotInterleave ==
  \A i \in 1 .. Len(file) :
    file[i].last => i > 1 /\ file[i - 1] = HeadOf(file[i].event)

(* "Validate pairing and uniqueness of request lifecycle events"            *)
(* (validate_ledger): what the recorder writes is paired and unique, so     *)
(* that a ledger is rejected only for a line a killed, failed or still      *)
(* running append has cut short.                                            *)
OnlyTornLedgersAreRejected == Rejected => \E i \in 1 .. Len(file) : Torn(i)

(* An audit that passes has missed no request: each one whose start was     *)
(* acknowledged, before inference, is read with its end.                    *)
AuditMissesNothing ==
  IsComplete => \A r \in Request : Started(r) \in acked =>
                  r \in ReadStarted /\ \E k \in Ending : Lines(<<r, k>>) # {}

(* A call of the recorder returns, or its process dies: no killed process   *)
(* leaves a lock that keeps the others from recording.                      *)
CallsReturn == \A w \in Writer : pc[w] = "called" ~> pc[w] \in {"idle", "dead"}

(* A "request_started" without an end "is expected after a killed process"  *)
(* (validate_ledger), and is reported, not refused.                         *)
KilledProcessesAreReported == ~ Rejected
=============================================================================
