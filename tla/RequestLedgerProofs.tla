------------------------- MODULE RequestLedgerProofs -------------------------
(* For any processes, threads and requests, and any number of kills, write  *)
(* errors and power losses: no two lines of the ledger mix, an event whose  *)
(* append has returned is on the disk for good, validate_ledger refuses     *)
(* nothing but a line cut short, and misses no acknowledged event.          *)
EXTENDS RequestLedger, TLAPS

(* What the two locks and the order of _append are for: the file is held by *)
(* one writer at a time, which finds at its end what it wrote itself.       *)
Types ==
  /\ file \in Seq(Fragment) /\ synced \in 0 .. Len(file)
  /\ pc \in [Writer -> Location] /\ doing \in [Writer -> Event]

Exclusive == \A w \in Writer : pc[w] \in Holding <=> fileLock = w

EndsWithOwn(w) ==
  /\ pc[w] = "part" =>
       Len(file) > 0 /\ file[Len(file)] = HeadOf(doing[w])
  /\ pc[w] = "written" =>
       /\ Len(file) > 1 /\ file[Len(file) - 1] = HeadOf(doing[w])
       /\ file[Len(file)] = RestOf(doing[w])
  /\ pc[w] \in {"synced", "unlocked"} => OnDisk(doing[w])

LedgerInv ==
  /\ Types /\ Exclusive /\ LinesDoNotInterleave /\ AcknowledgedEventsAreDurable
  /\ \A w \in Writer : EndsWithOwn(w)

-----------------------------------------------------------------------------
(* The fragments are records of a fragment's type, and tell apart.          *)
LEMMA Fragments ==
  ASSUME NEW e \in Event
  PROVE  /\ HeadOf(e) \in Fragment /\ RestOf(e) \in Fragment
         /\ ~ HeadOf(e).last /\ RestOf(e).last /\ RestOf(e).event = e
BY DEF HeadOf, RestOf, Fragment

(* A fragment appended that begins a line, or ends the one it follows,      *)
(* keeps the lines apart, and takes nothing from the disk.                  *)
LEMMA AppendKeeps ==
  ASSUME Types, LinesDoNotInterleave, NEW f \in Fragment,
         file' = Append(file, f),
         f.last => Len(file) > 0 /\ file[Len(file)] = HeadOf(f.event)
  PROVE  /\ file' \in Seq(Fragment) /\ Len(file') = Len(file) + 1
         /\ file'[Len(file')] = f /\ \A i \in 1 .. Len(file) : file'[i] = file[i]
         /\ LinesDoNotInterleave'
<1>0. file \in Seq(Fragment) /\ Len(file) \in Nat
  BY DEF Types
<1>1. /\ file' \in Seq(Fragment) /\ Len(file') = Len(file) + 1
      /\ file'[Len(file')] = f /\ \A i \in 1 .. Len(file) : file'[i] = file[i]
  BY <1>0
<1>2. ASSUME NEW i \in 1 .. Len(file'), file'[i].last
      PROVE  i > 1 /\ file'[i - 1] = HeadOf(file'[i].event)
  <2>1. CASE i = Len(file')
    <3>1. f.last /\ file'[i] = f
      BY <1>1, <1>2, <2>1
    <3>2. Len(file) > 0 /\ file[Len(file)] = HeadOf(f.event) /\ i - 1 = Len(file)
      BY <3>1, <1>0, <1>1, <2>1
    <3>3. Len(file) \in 1 .. Len(file) /\ i > 1
      BY <3>2, <1>0
    <3> QED  BY <3>1, <3>2, <3>3, <1>1
  <2>2. CASE i # Len(file')
    <3>1. i \in 1 .. Len(file) /\ file'[i] = file[i]
      BY <1>0, <1>1, <2>2
    <3>2. i > 1 /\ file[i - 1] = HeadOf(file[i].event)
      BY <3>1, <1>2 DEF LinesDoNotInterleave
    <3>3. i - 1 \in 1 .. Len(file)
      BY <3>1, <3>2, <1>0
    <3> QED  BY <3>1, <3>2, <3>3, <1>1
  <2> QED  BY <2>1, <2>2
<1> QED  BY <1>1, <1>2 DEF LinesDoNotInterleave

(* What is on the disk stays when the file grows or is cut behind it.       *)
LEMMA OnDiskStays ==
  ASSUME NEW e, OnDisk(e), Types, synced' \in Nat, synced <= synced',
         \A i \in 1 .. synced : file'[i] = file[i]
  PROVE  OnDisk(e)'
<1>1. PICK i \in 2 .. synced : file[i - 1] = HeadOf(e) /\ file[i] = RestOf(e)
  BY DEF OnDisk
<1>2. synced \in Nat
  BY DEF Types
<1>3. i \in 2 .. synced' /\ i \in 1 .. synced /\ i - 1 \in 1 .. synced
  BY <1>1, <1>2
<1>4. file'[i - 1] = HeadOf(e) /\ file'[i] = RestOf(e)
  BY <1>1, <1>3
<1>5. HeadOf(e)' = HeadOf(e) /\ RestOf(e)' = RestOf(e)
  BY DEF HeadOf, RestOf
<1> QED  BY <1>3, <1>4, <1>5 DEF OnDisk

(* A step that leaves file and disk alone, gives nobody the lock and moves  *)
(* no writer into the part of _append that writes.                          *)
Released ==
  /\ UNCHANGED <<file, synced>>
  /\ pc' \in [Writer -> Location] /\ doing' \in [Writer -> Event]
  /\ Exclusive'
  /\ \A w \in Writer :
       \/ pc'[w] = pc[w] /\ doing'[w] = doing[w]
       \/ pc'[w] \notin {"part", "written", "synced", "unlocked"}
       \/ pc'[w] = "unlocked" /\ pc[w] = "synced" /\ doing'[w] = doing[w]
  /\ \A e \in acked' : e \in acked \/ OnDisk(e)

(* A death or an error releases locks and touches no byte.                  *)
LEMMA ReleasedKeeps ==
  ASSUME LedgerInv, Released
  PROVE  LedgerInv'
<1>1. Types' /\ Exclusive'
  BY DEF LedgerInv, Released, Types
<1>2. LinesDoNotInterleave'
  BY DEF LedgerInv, Released, LinesDoNotInterleave
<1>3. \A e : OnDisk(e)' <=> OnDisk(e)
  BY DEF Released, OnDisk, HeadOf, RestOf
<1>4. AcknowledgedEventsAreDurable'
  BY <1>3 DEF LedgerInv, Released, AcknowledgedEventsAreDurable
<1>5. ASSUME NEW w \in Writer
      PROVE  EndsWithOwn(w)'
  <2>1. EndsWithOwn(w)
    BY DEF LedgerInv
  <2> QED  BY <2>1, <1>3 DEF Released, EndsWithOwn, HeadOf, RestOf
<1> QED  BY <1>1, <1>2, <1>4, <1>5 DEF LedgerInv

-----------------------------------------------------------------------------
(* The steps that neither write nor cut the file.                           *)
LEMMA QuietSteps ==
  ASSUME LedgerInv, NEW w \in Writer,
         \/ LockThread(w) \/ LockFile(w) \/ UnlockFile(w) \/ Return(w)
         \/ \E r \in Request : Start(w, r) \/ \E kind \in Ending : Finish(w, r, kind)
  PROVE  Released
<1>0. Types /\ Exclusive /\ pc \in [Writer -> Location] /\ doing \in [Writer -> Event]
      /\ NoWriter \notin Writer
  BY WriterAssumption DEF LedgerInv, Types
<1>1. CASE LockThread(w)
  <2>1. "open" \in Location /\ "open" \notin Holding /\ "called" \notin Holding
    BY DEF Location, Holding
  <2> QED  BY <1>0, <1>1, <2>1 DEF LockThread, Released, Exclusive
<1>2. CASE LockFile(w)
  <2>1. "locked" \in Location /\ "locked" \in Holding
    BY DEF Location, Holding
  <2>2. pc' \in [Writer -> Location] /\ Exclusive'
    BY <1>0, <1>2, <2>1 DEF LockFile, Exclusive
  <2> QED  BY <1>0, <1>2, <2>1, <2>2 DEF LockFile, Released
<1>3. CASE UnlockFile(w)
  <2>1. "unlocked" \in Location /\ "unlocked" \notin Holding /\ "synced" \in Holding
    BY DEF Location, Holding
  <2>2. pc' \in [Writer -> Location] /\ Exclusive'
    BY <1>0, <1>3, <2>1 DEF UnlockFile, Exclusive
  <2> QED  BY <1>0, <1>3, <2>1, <2>2 DEF UnlockFile, Released
<1>4. CASE Return(w)
  <2>1. "idle" \in Location /\ "idle" \notin Holding /\ "unlocked" \notin Holding
    BY DEF Location, Holding
  <2>2. pc' \in [Writer -> Location] /\ Exclusive'
    BY <1>0, <1>4, <2>1 DEF Return, Exclusive
  <2>3. OnDisk(doing[w])
    BY <1>4 DEF Return, LedgerInv, EndsWithOwn
  <2> QED  BY <1>0, <1>4, <2>1, <2>2, <2>3 DEF Return, Released
<1>5. ASSUME NEW e \in Event, Call(w, e)
      PROVE  Released
  <2>1. "called" \in Location /\ "called" \notin Holding /\ "idle" \notin Holding
    BY DEF Location, Holding
  <2>2. pc' \in [Writer -> Location] /\ doing' \in [Writer -> Event] /\ Exclusive'
    BY <1>0, <1>5, <2>1 DEF Call, Exclusive
  <2> QED  BY <1>0, <1>5, <2>1, <2>2 DEF Call, Released
<1>6. ASSUME NEW r \in Request, Start(w, r) \/ \E kind \in Ending : Finish(w, r, kind)
      PROVE  Released
  <2>1. Started(r) \in Event /\ \A kind \in Ending : <<r, kind>> \in Event
    BY DEF Started, Event
  <2> QED  BY <1>5, <1>6, <2>1 DEF Start, Finish
<1> QED  BY <1>1, <1>2, <1>3, <1>4, <1>6

(* Killed processes take their writers out of _append and free their lock.  *)
LEMMA DieReleases ==
  ASSUME LedgerInv, NEW victims, Die(victims)
  PROVE  /\ pc' \in [Writer -> Location] /\ Exclusive'
         /\ \A w \in Writer : pc'[w] = pc[w] \/ pc'[w] = "dead"
<1>0. Exclusive /\ pc \in [Writer -> Location] /\ NoWriter \notin Writer
      /\ "dead" \in Location /\ "dead" \notin Holding
  BY WriterAssumption DEF LedgerInv, Types, Location, Holding
<1>1. pc' \in [Writer -> Location] /\ \A w \in Writer : pc'[w] = pc[w] \/ pc'[w] = "dead"
  BY <1>0 DEF Die
<1>2. ASSUME NEW w \in Writer
      PROVE  pc'[w] \in Holding <=> fileLock' = w
  <2>1. CASE ProcessOf[w] \in victims
    BY <1>0, <2>1 DEF Die
  <2>2. CASE ProcessOf[w] \notin victims
    BY <1>0, <2>2 DEF Die, Exclusive
  <2> QED  BY <2>1, <2>2
<1> QED  BY <1>1, <1>2 DEF Exclusive

(* A kill writes nothing.                                                   *)
LEMMA KillReleases ==
  ASSUME LedgerInv, NEW p \in Process, Kill(p)
  PROVE  Released
<1>1. Die({p}) /\ UNCHANGED <<file, synced, called, acked, doing>>
  BY DEF Kill
<1>2. doing' \in [Writer -> Event]
  BY <1>1 DEF LedgerInv, Types
<1> QED  BY <1>1, <1>2, DieReleases DEF Released

-----------------------------------------------------------------------------
(* A writer other than the one that holds the file is at no step that       *)
(* depends on the end of the file.                                          *)
LEMMA OthersUntouched ==
  ASSUME LedgerInv, NEW w \in Writer, NEW v \in Writer, v # w, pc[w] \in Holding,
         pc'[v] = pc[v], doing'[v] = doing[v],
         OnDisk(doing[v]) => OnDisk(doing[v])'
  PROVE  EndsWithOwn(v)'
<1>1. pc[v] \notin Holding
  BY DEF LedgerInv, Exclusive
<1>2. pc[v] \notin {"part", "written", "synced"}
  BY <1>1 DEF Holding
<1>3. pc[v] = "unlocked" => OnDisk(doing[v])'
  BY DEF LedgerInv, EndsWithOwn
<1> QED  BY <1>2, <1>3 DEF EndsWithOwn

(* The file grows by what the holder of its lock writes, and the holder     *)
(* ends up where its own end of the file is what it wrote.                  *)
LEMMA GrowthKeeps ==
  ASSUME LedgerInv, NEW w \in Writer, pc[w] \in Holding,
         file' \in Seq(Fragment), Len(file') >= Len(file),
         \A i \in 1 .. Len(file) : file'[i] = file[i],
         LinesDoNotInterleave',
         UNCHANGED <<synced, acked, doing>>,
         pc' \in [Writer -> Location],
         \A v \in Writer : v # w => pc'[v] = pc[v],
         Exclusive', EndsWithOwn(w)'
  PROVE  LedgerInv'
<1>0. /\ Types /\ file \in Seq(Fragment) /\ Len(file) \in Nat /\ synced \in 0 .. Len(file)
      /\ Len(file') \in Nat /\ doing \in [Writer -> Event]
  BY DEF LedgerInv, Types
<1>1. Types'
  BY <1>0 DEF Types
<1>2. ASSUME NEW e, OnDisk(e)
      PROVE  OnDisk(e)'
  <2>1. synced' \in Nat /\ synced <= synced' /\ \A i \in 1 .. synced : file'[i] = file[i]
    BY <1>0
  <2> QED  BY <1>0, <1>2, <2>1, OnDiskStays
<1>3. AcknowledgedEventsAreDurable'
  BY <1>2 DEF LedgerInv, AcknowledgedEventsAreDurable
<1>4. ASSUME NEW v \in Writer
      PROVE  EndsWithOwn(v)'
  <2>1. CASE v # w
    <3>1. OnDisk(doing[v]) => OnDisk(doing[v])'
      BY <1>2
    <3>2. pc'[v] = pc[v] /\ doing'[v] = doing[v]
      BY <2>1
    <3> QED  BY <2>1, <3>1, <3>2, OthersUntouched
  <2> QED  BY <2>1
<1> QED  BY <1>1, <1>3, <1>4 DEF LedgerInv

(* The head of an event begins a line of its own.                           *)
LEMMA WriteHeadKeeps ==
  ASSUME LedgerInv, NEW w \in Writer, WriteHead(w)
  PROVE  LedgerInv'
<1>0. /\ Types /\ Exclusive /\ LinesDoNotInterleave /\ doing[w] \in Event
      /\ file \in Seq(Fragment) /\ Len(file) \in Nat /\ pc \in [Writer -> Location]
  BY DEF LedgerInv, Types
<1>1. HeadOf(doing[w]) \in Fragment /\ ~ HeadOf(doing[w]).last
  BY <1>0, Fragments
<1>2. file' = Append(file, HeadOf(doing[w]))
  BY DEF WriteHead
<1>3. /\ file' \in Seq(Fragment) /\ Len(file') = Len(file) + 1
      /\ file'[Len(file')] = HeadOf(doing[w])
      /\ \A i \in 1 .. Len(file) : file'[i] = file[i]
      /\ LinesDoNotInterleave'
  BY <1>0, <1>1, <1>2, AppendKeeps
<1>4. /\ {"locked", "part"} \subseteq Holding /\ "part" \in Location
  BY DEF Holding, Location
<1>5. /\ pc' \in [Writer -> Location] /\ pc'[w] = "part" /\ pc[w] \in Holding
      /\ \A v \in Writer : v # w => pc'[v] = pc[v]
      /\ Exclusive' /\ UNCHANGED <<synced, acked, doing>>
  BY <1>0, <1>4 DEF WriteHead, Exclusive
<1>6. EndsWithOwn(w)'
  BY <1>0, <1>3, <1>5 DEF EndsWithOwn, HeadOf
<1>7. Len(file') >= Len(file)
  BY <1>0, <1>3
<1> QED  BY <1>3, <1>5, <1>6, <1>7, GrowthKeeps

(* The rest of the event ends the line its head began.                      *)
LEMMA WriteRestKeeps ==
  ASSUME LedgerInv, NEW w \in Writer, WriteRest(w)
  PROVE  LedgerInv'
<1>0. /\ Types /\ Exclusive /\ LinesDoNotInterleave /\ doing[w] \in Event
      /\ file \in Seq(Fragment) /\ Len(file) \in Nat /\ pc \in [Writer -> Location]
      /\ Len(file) > 0 /\ file[Len(file)] = HeadOf(doing[w])
  BY DEF LedgerInv, Types, EndsWithOwn, WriteRest
<1>1. RestOf(doing[w]) \in Fragment /\ RestOf(doing[w]).event = doing[w]
  BY <1>0, Fragments
<1>2. file' = Append(file, RestOf(doing[w]))
  BY DEF WriteRest
<1>3. /\ file' \in Seq(Fragment) /\ Len(file') = Len(file) + 1
      /\ file'[Len(file')] = RestOf(doing[w])
      /\ \A i \in 1 .. Len(file) : file'[i] = file[i]
      /\ LinesDoNotInterleave'
  BY <1>0, <1>1, <1>2, AppendKeeps
<1>4. /\ {"part", "written"} \subseteq Holding /\ "written" \in Location
  BY DEF Holding, Location
<1>5. /\ pc' \in [Writer -> Location] /\ pc'[w] = "written" /\ pc[w] \in Holding
      /\ \A v \in Writer : v # w => pc'[v] = pc[v]
      /\ Exclusive' /\ UNCHANGED <<synced, acked, doing>>
  BY <1>0, <1>4 DEF WriteRest, Exclusive
<1>6. Len(file') - 1 = Len(file) /\ Len(file) \in 1 .. Len(file)
  BY <1>0, <1>3
<1>7. EndsWithOwn(w)'
  <2>1. file'[Len(file') - 1] = HeadOf(doing[w]) /\ Len(file') > 1
    BY <1>0, <1>3, <1>6
  <2> QED  BY <1>3, <1>5, <2>1 DEF EndsWithOwn, HeadOf, RestOf
<1>8. Len(file') >= Len(file)
  BY <1>0, <1>3
<1> QED  BY <1>3, <1>5, <1>7, <1>8, GrowthKeeps

(* What is synced behind an event that was written whole holds it.          *)
LEMMA SyncKeeps ==
  ASSUME LedgerInv, NEW w \in Writer, Sync(w)
  PROVE  LedgerInv'
<1>0. /\ Types /\ Exclusive /\ doing \in [Writer -> Event] /\ pc \in [Writer -> Location]
      /\ file \in Seq(Fragment) /\ Len(file) \in Nat /\ synced \in 0 .. Len(file)
      /\ Len(file) > 1 /\ file[Len(file) - 1] = HeadOf(doing[w])
      /\ file[Len(file)] = RestOf(doing[w])
  BY DEF LedgerInv, Types, EndsWithOwn, Sync
<1>1. synced' = Len(file) /\ UNCHANGED <<file, acked, doing>>
  BY DEF Sync
<1>2. /\ {"written", "synced"} \subseteq Holding /\ "synced" \in Location
  BY DEF Holding, Location
<1>3. /\ pc' \in [Writer -> Location] /\ pc'[w] = "synced" /\ pc[w] \in Holding
      /\ \A v \in Writer : v # w => pc'[v] = pc[v]
      /\ Exclusive'
  BY <1>0, <1>2 DEF Sync, Exclusive
<1>4. Types'
  BY <1>0, <1>1, <1>3 DEF Types
<1>5. ASSUME NEW e, OnDisk(e)
      PROVE  OnDisk(e)'
  <2>1. synced' \in Nat /\ synced <= synced' /\ \A i \in 1 .. synced : file'[i] = file[i]
    BY <1>0, <1>1
  <2> QED  BY <1>0, <1>5, <2>1, OnDiskStays
<1>6. AcknowledgedEventsAreDurable'
  BY <1>1, <1>5 DEF LedgerInv, AcknowledgedEventsAreDurable
<1>7. LinesDoNotInterleave'
  BY <1>1 DEF LedgerInv, LinesDoNotInterleave, HeadOf
<1>8. ASSUME NEW v \in Writer
      PROVE  EndsWithOwn(v)'
  <2>1. CASE v # w
    <3>1. OnDisk(doing[v]) => OnDisk(doing[v])'
      BY <1>1, <1>5
    <3>2. pc'[v] = pc[v] /\ doing'[v] = doing[v]
      BY <1>1, <1>3, <2>1
    <3> QED  BY <1>3, <2>1, <3>1, <3>2, OthersUntouched
  <2>2. CASE v = w
    <3>1. Len(file) \in 2 .. Len(file)
      BY <1>0
    <3>2. OnDisk(doing[w])'
      BY <1>0, <1>1, <3>1 DEF OnDisk, HeadOf, RestOf
    <3> QED  BY <1>3, <2>2, <3>2 DEF EndsWithOwn
  <2> QED  BY <2>1, <2>2
<1> QED  BY <1>3, <1>4, <1>6, <1>7, <1>8 DEF LedgerInv

(* An append that fails leaves the file as it was, or with a line cut short *)
(* or whole, and lets go of it.                                             *)
LEMMA WriteErrorKeeps ==
  ASSUME LedgerInv, NEW w \in Writer, WriteError(w)
  PROVE  LedgerInv'
<1> DEFINE head == HeadOf(doing[w])
           rest == RestOf(doing[w])
<1>0. /\ Types /\ Exclusive /\ LinesDoNotInterleave /\ doing[w] \in Event
      /\ doing \in [Writer -> Event] /\ NoWriter \notin Writer
      /\ file \in Seq(Fragment) /\ Len(file) \in Nat /\ pc \in [Writer -> Location]
  BY WriterAssumption DEF LedgerInv, Types
<1>1. /\ head \in Fragment /\ ~ head.last
      /\ rest \in Fragment /\ rest.event = doing[w]
  BY <1>0, Fragments
<1>2. /\ "idle" \in Location \ Holding /\ {"locked", "part", "written"} \subseteq Holding
  BY DEF Holding, Location
<1>3. /\ pc' \in [Writer -> Location] /\ pc'[w] = "idle" /\ pc[w] \in Holding
      /\ \A v \in Writer : v # w => pc'[v] = pc[v]
      /\ Exclusive' /\ UNCHANGED <<synced, acked, doing>>
  BY <1>0, <1>2 DEF WriteError, Exclusive
<1>4. EndsWithOwn(w)'
  BY <1>3 DEF EndsWithOwn
<1>5. \/ file' = file
      \/ file' = Append(file, head)
      \/ file' = Append(Append(file, head), rest)
      \/ file' = Append(file, rest) /\ Len(file) > 0 /\ file[Len(file)] = head
  BY DEF WriteError, LedgerInv, EndsWithOwn
<1> HIDE DEF head, rest
<1>6. CASE file' = file
  <2>1. /\ file' \in Seq(Fragment) /\ Len(file') >= Len(file)
        /\ \A i \in 1 .. Len(file) : file'[i] = file[i]
    BY <1>0, <1>6
  <2>2. LinesDoNotInterleave'
    BY <1>0, <1>6 DEF LinesDoNotInterleave, HeadOf
  <2> QED  BY <1>3, <1>4, <2>1, <2>2, GrowthKeeps
<1>7. CASE file' = Append(file, head)
  <2>1. /\ file' \in Seq(Fragment) /\ Len(file') = Len(file) + 1
        /\ \A i \in 1 .. Len(file) : file'[i] = file[i]
        /\ LinesDoNotInterleave'
    BY <1>0, <1>1, <1>7, AppendKeeps
  <2>2. Len(file') >= Len(file)
    BY <1>0, <2>1
  <2> QED  BY <1>3, <1>4, <2>1, <2>2, GrowthKeeps
<1>8. CASE file' = Append(file, rest) /\ Len(file) > 0 /\ file[Len(file)] = head
  <2>0. head = HeadOf(rest.event)
    BY <1>1 DEF head
  <2>1. /\ file' \in Seq(Fragment) /\ Len(file') = Len(file) + 1
        /\ \A i \in 1 .. Len(file) : file'[i] = file[i]
        /\ LinesDoNotInterleave'
    BY <1>0, <1>1, <1>8, <2>0, AppendKeeps
  <2>2. Len(file') >= Len(file)
    BY <1>0, <2>1
  <2> QED  BY <1>3, <1>4, <2>1, <2>2, GrowthKeeps
<1>9. CASE file' = Append(Append(file, head), rest)
  <2>0. head = HeadOf(rest.event)
    BY <1>1 DEF head
  <2>1. /\ file' \in Seq(Fragment) /\ Len(file') = Len(file) + 2
        /\ file'[Len(file) + 1] = head /\ file'[Len(file) + 2] = rest
        /\ \A i \in 1 .. Len(file) : file'[i] = file[i]
    BY <1>0, <1>1, <1>9
  <2>2. ASSUME NEW i \in 1 .. Len(file'), file'[i].last
        PROVE  i > 1 /\ file'[i - 1] = HeadOf(file'[i].event)
    <3>1. CASE i \in 1 .. Len(file)
      <4>1. i > 1 /\ file[i - 1] = HeadOf(file[i].event)
        BY <1>0, <2>1, <2>2, <3>1 DEF LinesDoNotInterleave
      <4>2. i - 1 \in 1 .. Len(file)
        BY <1>0, <3>1, <4>1
      <4> QED  BY <2>1, <3>1, <4>1, <4>2
    <3>2. CASE i = Len(file) + 1
      BY <1>1, <2>1, <2>2, <3>2
    <3>3. CASE i = Len(file) + 2
      <4>1. i > 1 /\ i - 1 = Len(file) + 1
        BY <1>0, <3>3
      <4> QED  BY <2>0, <2>1, <3>3, <4>1
    <3> QED  BY <1>0, <2>1, <3>1, <3>2, <3>3
  <2>3. LinesDoNotInterleave'
    BY <2>2 DEF LinesDoNotInterleave, HeadOf
  <2>4. Len(file') >= Len(file)
    BY <1>0, <2>1
  <2> QED  BY <1>3, <1>4, <2>1, <2>3, <2>4, GrowthKeeps
<1> QED  BY <1>5, <1>6, <1>7, <1>8, <1>9

(* A writer inside _append is there with an event of its own, which is      *)
(* among those called: a power loss spares no such writer.                  *)
CallsAreKnown ==
  \A w \in Writer : pc[w] \notin {"idle", "dead"} =>
    doing[w] \in called /\ OwnerOf[doing[w][1]] = w

(* Calls are known to their process, and stay so.                           *)
LEMMA CallsStayKnown ==
  ASSUME Types, CallsAreKnown, [Next]_vars
  PROVE  CallsAreKnown'
<1>0. pc \in [Writer -> Location] /\ doing \in [Writer -> Event]
  BY DEF Types
<1>1. ASSUME NEW w \in Writer, NEW e, Call(w, e)
      PROVE  CallsAreKnown'
  <2> SUFFICES ASSUME NEW v \in Writer, pc'[v] \notin {"idle", "dead"}
               PROVE  doing'[v] \in called' /\ OwnerOf[doing'[v][1]] = v
    BY DEF CallsAreKnown
  <2>1. CASE v = w
    BY <1>0, <1>1, <2>1 DEF Call
  <2>2. CASE v # w
    BY <1>0, <1>1, <2>2 DEF Call, CallsAreKnown
  <2> QED  BY <2>1, <2>2
<1>2. ASSUME NEW w \in Writer, Step(w) \/ WriteError(w)
      PROVE  CallsAreKnown'
  <2>1. /\ UNCHANGED <<called, doing>>
        /\ \A v \in Writer : pc'[v] \notin {"idle", "dead"} => pc[v] \notin {"idle", "dead"}
    BY <1>0, <1>2 DEF Step, WriteError, LockThread, LockFile, WriteHead, WriteRest, Sync,
       UnlockFile, Return
  <2> QED  BY <2>1 DEF CallsAreKnown
<1>3. ASSUME NEW victims, Die(victims), UNCHANGED <<called, doing>>
      PROVE  CallsAreKnown'
  <2>1. \A v \in Writer : pc'[v] \notin {"idle", "dead"} => pc[v] \notin {"idle", "dead"}
    BY <1>3 DEF Die
  <2> QED  BY <1>3, <2>1 DEF CallsAreKnown
<1>4. CASE \E p \in Process : Kill(p)
  BY <1>3, <1>4 DEF Kill
<1>5. CASE PowerLoss
  BY <1>3, <1>5 DEF PowerLoss
<1>6. CASE UNCHANGED vars
  BY <1>6 DEF vars, CallsAreKnown
<1> QED  BY <1>1, <1>2, <1>4, <1>5, <1>6 DEF Next, Start, Finish

(* A power loss takes nothing that was synced, and leaves no writer at a    *)
(* step that depends on what it takes.                                      *)
LEMMA PowerLossKeeps ==
  ASSUME LedgerInv, CallsAreKnown, PowerLoss
  PROVE  LedgerInv'
<1> DEFINE victims == {ProcessOf[OwnerOf[e[1]]] : e \in called}
<1>0. /\ Types /\ Exclusive /\ LinesDoNotInterleave
      /\ file \in Seq(Fragment) /\ Len(file) \in Nat /\ synced \in 0 .. Len(file)
      /\ doing \in [Writer -> Event]
  BY DEF LedgerInv, Types
<1>1. Die(victims) /\ UNCHANGED <<called, acked, doing>>
  BY DEF PowerLoss
<1>2. PICK n \in synced .. Len(file) : file' = SubSeq(file, 1, n) /\ synced' = n
  BY DEF PowerLoss
<1>3. /\ pc' \in [Writer -> Location] /\ Exclusive'
      /\ \A w \in Writer : pc'[w] = pc[w] \/ pc'[w] = "dead"
  BY <1>1, DieReleases
<1>4. n \in Nat /\ n <= Len(file) /\ synced <= n /\ synced \in Nat
  BY <1>0, <1>2
<1>5. /\ file' \in Seq(Fragment) /\ Len(file') = n
      /\ \A i \in 1 .. n : file'[i] = file[i]
  BY <1>0, <1>2, <1>4
<1>6. Types'
  BY <1>0, <1>1, <1>2, <1>3, <1>4, <1>5 DEF Types
<1>7. AcknowledgedEventsAreDurable'
  <2> SUFFICES ASSUME NEW e \in acked
               PROVE  OnDisk(e)'
    BY <1>1 DEF AcknowledgedEventsAreDurable
  <2>1. OnDisk(e)
    BY DEF LedgerInv, AcknowledgedEventsAreDurable
  <2>2. synced' \in Nat /\ synced <= synced' /\ \A i \in 1 .. synced : file'[i] = file[i]
    BY <1>2, <1>4, <1>5
  <2> QED  BY <1>0, <2>1, <2>2, OnDiskStays
<1>8. LinesDoNotInterleave'
  <2> SUFFICES ASSUME NEW i \in 1 .. n, file'[i].last
               PROVE  i > 1 /\ file'[i - 1] = HeadOf(file'[i].event)
    BY <1>5 DEF LinesDoNotInterleave, HeadOf
  <2>1. i \in 1 .. Len(file) /\ file'[i] = file[i]
    BY <1>0, <1>4, <1>5
  <2>2. i > 1 /\ file[i - 1] = HeadOf(file[i].event)
    BY <1>0, <2>1 DEF LinesDoNotInterleave
  <2>3. i - 1 \in 1 .. n
    BY <1>4, <2>2
  <2> QED  BY <1>5, <2>1, <2>2, <2>3
<1>9. ASSUME NEW w \in Writer
      PROVE  EndsWithOwn(w)'
  <2>1. pc'[w] \in {"idle", "dead"}
    <3>1. CASE pc[w] \in {"idle", "dead"}
      BY <1>3, <3>1
    <3>2. CASE pc[w] \notin {"idle", "dead"}
      <4>1. doing[w] \in called /\ OwnerOf[doing[w][1]] = w
        BY <3>2 DEF CallsAreKnown
      <4>2. ProcessOf[w] \in victims
        BY <4>1
      <4> QED  BY <1>1, <4>2 DEF Die
    <3> QED  BY <3>1, <3>2
  <2> QED  BY <2>1 DEF EndsWithOwn
<1> QED  BY <1>3, <1>6, <1>7, <1>8, <1>9 DEF LedgerInv

-----------------------------------------------------------------------------
(* The invariant holds of an empty ledger, and every step keeps it.         *)
LEMMA LedgerInit == Init => LedgerInv /\ CallsAreKnown
<1> SUFFICES ASSUME Init
             PROVE  LedgerInv /\ CallsAreKnown
  OBVIOUS
<1>1. "idle" \in Location \ Holding
  BY DEF Location, Holding
<1>2. Types
  <2>1. (CHOOSE e \in Event : TRUE) \in Event
    <3>1. PICK r \in Request : TRUE
      BY WriterAssumption
    <3>2. <<r, "request_started">> \in Event
      BY DEF Event
    <3> QED  BY <3>2
  <2> QED  BY <1>1, <2>1 DEF Init, Types
<1>3. Exclusive
  BY <1>1, WriterAssumption DEF Init, Exclusive
<1>4. LinesDoNotInterleave /\ AcknowledgedEventsAreDurable
  BY DEF Init, LinesDoNotInterleave, AcknowledgedEventsAreDurable
<1>5. CallsAreKnown /\ \A w \in Writer : EndsWithOwn(w)
  BY DEF Init, CallsAreKnown, EndsWithOwn
<1> QED  BY <1>2, <1>3, <1>4, <1>5 DEF LedgerInv

(* LedgerInv, with the calls known, is inductive.                           *)
LEMMA LedgerStep == LedgerInv /\ CallsAreKnown /\ [Next]_vars => (LedgerInv /\ CallsAreKnown)'
<1> SUFFICES ASSUME LedgerInv, CallsAreKnown, [Next]_vars
             PROVE  LedgerInv' /\ CallsAreKnown'
  OBVIOUS
<1>1. CallsAreKnown'
  BY CallsStayKnown DEF LedgerInv
<1>2. ASSUME NEW w \in Writer, Step(w) \/ WriteError(w)
      PROVE  LedgerInv'
  BY <1>2, QuietSteps, ReleasedKeeps, WriteHeadKeeps, WriteRestKeeps, SyncKeeps, WriteErrorKeeps
     DEF Step
<1>3. ASSUME NEW w \in Writer, NEW r \in Request,
             Start(w, r) \/ \E kind \in Ending : Finish(w, r, kind)
      PROVE  LedgerInv'
  <2>1. Released
    BY <1>3, QuietSteps
  <2> QED  BY <2>1, ReleasedKeeps
<1>4. ASSUME NEW p \in Process, Kill(p)
      PROVE  LedgerInv'
  BY <1>4, KillReleases, ReleasedKeeps
<1>5. CASE PowerLoss
  BY <1>1, <1>5, PowerLossKeeps
<1>6. CASE UNCHANGED vars
  <2>1. Exclusive'
    BY <1>6 DEF vars, LedgerInv, Exclusive
  <2>2. Released
    BY <1>6, <2>1 DEF vars, LedgerInv, Types, Released
  <2> QED  BY <1>1, <2>2, ReleasedKeeps
<1>7. Next => LedgerInv'
  <2>1. ASSUME Next
        PROVE  \/ \E w \in Writer : Step(w) \/ WriteError(w)
               \/ \E w \in Writer, r \in Request :
                    Start(w, r) \/ \E kind \in Ending : Finish(w, r, kind)
               \/ \E p \in Process : Kill(p)
               \/ PowerLoss
    BY <2>1 DEF Next
  <2> QED  BY <1>2, <1>3, <1>4, <1>5, <2>1
<1> QED  BY <1>1, <1>6, <1>7

(* RequestRecorder._append (request_recorder.py): whatever is killed, fails *)
(* or loses power, no line of the ledger mixes the events of two writers.   *)
THEOREM LinesStayApart == Spec => []LinesDoNotInterleave
<1>1. LedgerInv => LinesDoNotInterleave
  BY DEF LedgerInv
<1> QED  BY <1>1, LedgerInit, LedgerStep, PTL DEF Spec

(* start, complete and fail (request_recorder.py): once one of them has     *)
(* returned, its event is on the disk whole, and nothing takes it away.     *)
THEOREM AcknowledgedEventsStay == Spec => []AcknowledgedEventsAreDurable
<1>1. LedgerInv => AcknowledgedEventsAreDurable
  BY DEF LedgerInv
<1> QED  BY <1>1, LedgerInit, LedgerStep, PTL DEF Spec

-----------------------------------------------------------------------------
(* What validate_ledger may count on: an end is begun only after its start  *)
(* has returned, once for each request, and an event is written only by the *)
(* one append that was begun for it.                                        *)
EndsFollowStarts ==
  \A e \in called : e[2] \in Ending =>
    /\ Started(e[1]) \in acked
    /\ \A f \in called : f[1] = e[1] /\ f[2] \in Ending => f = e

Fresh(w) == pc[w] \in {"called", "open", "locked"}

WrittenOnce ==
  /\ \A i \in 1 .. Len(file) : file[i].event \in called
  /\ \A i, j \in 1 .. Len(file) :
       ~ file[i].last /\ ~ file[j].last /\ file[i].event = file[j].event => i = j
  /\ \A w \in Writer : Fresh(w) => \A i \in 1 .. Len(file) : file[i].event # doing[w]

(* The two ways the file changes: what is in it stays or is cut, while an   *)
(* append may be begun for an event of its own; or the writer that holds it *)
(* adds fragments of its event, a head only if it has written none.         *)
Kept ==
  /\ file' \in Seq(Fragment) /\ Len(file') <= Len(file)
  /\ \A i \in 1 .. Len(file') : file'[i] = file[i]
  /\ called \subseteq called'
  /\ \A v \in Writer :
       Fresh(v)' => (Fresh(v) /\ doing'[v] = doing[v]) \/ doing'[v] \notin called

Added(w) ==
  /\ file' \in Seq(Fragment) /\ Len(file) <= Len(file')
  /\ \A i \in 1 .. Len(file) : file'[i] = file[i]
  /\ \A i \in Len(file) + 1 .. Len(file') :
       file'[i].event = doing[w] /\ (~ file'[i].last => i = Len(file) + 1 /\ Fresh(w))
  /\ pc[w] \notin {"idle", "dead"} /\ UNCHANGED <<called, doing>>
  /\ \A v \in Writer : Fresh(v)' => Fresh(v) /\ v # w

(* A step that writes no last fragment writes no event twice.               *)
LEMMA KeptOnce ==
  ASSUME Types, WrittenOnce, Kept
  PROVE  WrittenOnce'
<1>0. Len(file) \in Nat /\ Len(file') \in Nat
  BY DEF Types, Kept
<1>1. \A i \in 1 .. Len(file') : i \in 1 .. Len(file) /\ file'[i] = file[i]
  BY <1>0 DEF Kept
<1>2. \A i \in 1 .. Len(file') : file'[i].event \in called'
  BY <1>1 DEF Kept, WrittenOnce
<1>3. ASSUME NEW i \in 1 .. Len(file'), NEW j \in 1 .. Len(file'),
             ~ file'[i].last, ~ file'[j].last, file'[i].event = file'[j].event
      PROVE  i = j
  BY <1>1, <1>3 DEF WrittenOnce
<1>4. ASSUME NEW w \in Writer, Fresh(w)', NEW i \in 1 .. Len(file')
      PROVE  file'[i].event # doing'[w]
  <2>1. i \in 1 .. Len(file) /\ file'[i] = file[i] /\ file[i].event \in called
    BY <1>1 DEF WrittenOnce
  <2>2. (Fresh(w) /\ doing'[w] = doing[w]) \/ doing'[w] \notin called
    BY <1>4 DEF Kept
  <2> QED  BY <2>1, <2>2 DEF WrittenOnce
<1> QED  BY <1>2, <1>3, <1>4 DEF WrittenOnce

(* An event is written once: its request was not ended before.              *)
LEMMA AddedOnce ==
  ASSUME Types, CallsAreKnown, WrittenOnce, NEW w \in Writer, Added(w)
  PROVE  WrittenOnce'
<1>0. Len(file) \in Nat /\ Len(file') \in Nat /\ doing[w] \in called
      /\ UNCHANGED <<called, doing>>
  BY DEF Types, Added, CallsAreKnown
<1>1. \A i \in 1 .. Len(file') : i \in 1 .. Len(file) \/ i \in Len(file) + 1 .. Len(file')
  BY <1>0
<1>2. \A i \in 1 .. Len(file) : file'[i] = file[i] /\ file[i].event \in called
  BY DEF Added, WrittenOnce
<1>3. \A i \in Len(file) + 1 .. Len(file') :
        file'[i].event = doing[w] /\ (~ file'[i].last => i = Len(file) + 1 /\ Fresh(w))
  BY DEF Added
<1>4. \A i \in 1 .. Len(file') : file'[i].event \in called'
  BY <1>0, <1>1, <1>2, <1>3
<1>5. ASSUME NEW i \in 1 .. Len(file'), NEW j \in 1 .. Len(file'),
             ~ file'[i].last, ~ file'[j].last, file'[i].event = file'[j].event
      PROVE  i = j
  <2>1. CASE i \in 1 .. Len(file) /\ j \in 1 .. Len(file)
    BY <1>2, <1>5, <2>1 DEF WrittenOnce
  <2>2. CASE i \in 1 .. Len(file) /\ j \in Len(file) + 1 .. Len(file')
    BY <1>2, <1>3, <1>5, <2>2 DEF WrittenOnce
  <2>3. CASE j \in 1 .. Len(file) /\ i \in Len(file) + 1 .. Len(file')
    BY <1>2, <1>3, <1>5, <2>3 DEF WrittenOnce
  <2>4. CASE i \in Len(file) + 1 .. Len(file') /\ j \in Len(file) + 1 .. Len(file')
    BY <1>3, <1>5, <2>4
  <2> QED  BY <1>1, <2>1, <2>2, <2>3, <2>4
<1>6. ASSUME NEW v \in Writer, Fresh(v)', NEW i \in 1 .. Len(file')
      PROVE  file'[i].event # doing'[v]
  <2>1. Fresh(v) /\ v # w /\ doing'[v] = doing[v]
    BY <1>0, <1>6 DEF Added
  <2>2. CASE i \in 1 .. Len(file)
    BY <1>2, <2>1, <2>2 DEF WrittenOnce
  <2>3. CASE i \in Len(file) + 1 .. Len(file')
    <3>1. OwnerOf[doing[v][1]] = v /\ OwnerOf[doing[w][1]] = w
      BY <2>1 DEF CallsAreKnown, Fresh, Added
    <3> QED  BY <1>3, <2>1, <2>3, <3>1
  <2> QED  BY <1>1, <2>2, <2>3
<1> QED  BY <1>4, <1>5, <1>6 DEF WrittenOnce

(* Every step of a writer keeps the file, or adds to it what it holds the   *)
(* file for; an append that is begun is of an event not called before.      *)
LEMMA WritersKeepOrAdd ==
  ASSUME LedgerInv, EndsFollowStarts, NEW w \in Writer,
         \/ Step(w) \/ WriteError(w)
         \/ \E r \in Request : Start(w, r) \/ \E kind \in Ending : Finish(w, r, kind)
  PROVE  Kept \/ Added(w)
<1>0. /\ file \in Seq(Fragment) /\ Len(file) \in Nat /\ doing[w] \in Event
      /\ pc \in [Writer -> Location] /\ doing \in [Writer -> Event]
  BY DEF LedgerInv, Types
<1>1. /\ HeadOf(doing[w]) \in Fragment /\ HeadOf(doing[w]).event = doing[w]
      /\ RestOf(doing[w]) \in Fragment /\ RestOf(doing[w]).last
      /\ RestOf(doing[w]).event = doing[w]
  BY <1>0, Fragments DEF HeadOf
<1>2. CASE UNCHANGED <<file, called, doing>> /\ \A v \in Writer : Fresh(v)' => Fresh(v)
  BY <1>0, <1>2 DEF Kept
<1>3. ASSUME NEW head, NEW rest, head \in Fragment, rest \in Fragment,
             head.event = doing[w], rest.event = doing[w], rest.last,
             pc[w] = "locked" \/ pc[w] = "part",
             UNCHANGED <<called, doing>>,
             \A v \in Writer : Fresh(v)' => Fresh(v) /\ v # w,
             \/ file' = Append(file, rest)
             \/ Fresh(w) /\ file' = Append(file, head)
             \/ Fresh(w) /\ file' = Append(Append(file, head), rest)
      PROVE  Added(w)
  <2>1. /\ file' \in Seq(Fragment) /\ Len(file) <= Len(file')
        /\ \A i \in 1 .. Len(file) : file'[i] = file[i]
    <3>1. CASE file' = Append(file, rest) \/ file' = Append(file, head)
      BY <1>0, <1>3, <3>1
    <3>2. CASE file' = Append(Append(file, head), rest)
      <4> DEFINE longer == Append(file, head)
      <4>1. /\ longer \in Seq(Fragment) /\ Len(longer) = Len(file) + 1
            /\ \A i \in 1 .. Len(file) : longer[i] = file[i]
        BY <1>0, <1>3
      <4>2. file' = Append(longer, rest)
        BY <3>2
      <4> HIDE DEF longer
      <4>3. /\ file' \in Seq(Fragment) /\ Len(file') = Len(longer) + 1
            /\ \A i \in 1 .. Len(longer) : file'[i] = longer[i]
        BY <1>3, <4>1, <4>2
      <4> QED  BY <1>0, <4>1, <4>3
    <3> QED  BY <1>3, <3>1, <3>2
  <2>2. ASSUME NEW i \in Len(file) + 1 .. Len(file')
        PROVE  file'[i].event = doing[w] /\ (~ file'[i].last => i = Len(file) + 1 /\ Fresh(w))
    <3>1. CASE file' = Append(file, rest)
      <4>1. i = Len(file) + 1 /\ file'[i] = rest
        BY <1>0, <3>1
      <4> QED  BY <1>3, <4>1
    <3>2. CASE Fresh(w) /\ file' = Append(file, head)
      <4>1. i = Len(file) + 1 /\ file'[i] = head
        BY <1>0, <3>2
      <4> QED  BY <1>3, <3>2, <4>1
    <3>3. CASE Fresh(w) /\ file' = Append(Append(file, head), rest)
      <4>1. (i = Len(file) + 1 /\ file'[i] = head) \/ file'[i] = rest
        BY <1>0, <1>3, <3>3
      <4> QED  BY <1>3, <3>3, <4>1
    <3> QED  BY <1>3, <3>1, <3>2, <3>3
  <2> QED  BY <1>3, <2>1, <2>2 DEF Added
<1>4. CASE WriteHead(w)
  <2>1. Fresh(w) /\ \A v \in Writer : Fresh(v)' => Fresh(v) /\ v # w
    BY <1>0, <1>4 DEF WriteHead, Fresh
  <2> QED  BY <1>1, <1>3, <1>4, <2>1 DEF WriteHead
<1>5. CASE WriteRest(w)
  <2>1. \A v \in Writer : Fresh(v)' => Fresh(v) /\ v # w
    BY <1>0, <1>5 DEF WriteRest, Fresh
  <2> QED  BY <1>1, <1>3, <1>5, <2>1 DEF WriteRest
<1>6. CASE WriteError(w)
  <2>1. \A v \in Writer : Fresh(v)' => Fresh(v) /\ v # w
    BY <1>0, <1>6 DEF WriteError, Fresh
  <2>2. CASE file' = file
    BY <1>2, <1>6, <2>1, <2>2 DEF WriteError
  <2>3. CASE /\ pc[w] = "locked"
             /\ \/ file' = Append(file, HeadOf(doing[w]))
                \/ file' = Append(Append(file, HeadOf(doing[w])), RestOf(doing[w]))
    <3>1. Fresh(w)
      BY <2>3 DEF Fresh
    <3> QED  BY <1>1, <1>3, <1>6, <2>1, <2>3, <3>1 DEF WriteError
  <2>4. CASE pc[w] = "part" /\ file' = Append(file, RestOf(doing[w]))
    BY <1>1, <1>3, <1>6, <2>1, <2>4 DEF WriteError
  <2> QED  BY <1>6, <2>2, <2>3, <2>4 DEF WriteError
<1>7. CASE LockThread(w) \/ LockFile(w) \/ Sync(w) \/ UnlockFile(w) \/ Return(w)
  BY <1>0, <1>2, <1>7 DEF LockThread, LockFile, Sync, UnlockFile, Return, Fresh
<1>8. ASSUME NEW e \in Event, e \notin called, Call(w, e)
      PROVE  Kept
  <2>1. UNCHANGED file /\ called \subseteq called'
    BY <1>8 DEF Call
  <2>2. ASSUME NEW v \in Writer, Fresh(v)'
        PROVE  (Fresh(v) /\ doing'[v] = doing[v]) \/ doing'[v] \notin called
    BY <1>0, <1>8, <2>2 DEF Call, Fresh
  <2> QED  BY <1>0, <2>1, <2>2 DEF Kept
<1>9. ASSUME NEW r \in Request, Start(w, r) \/ \E kind \in Ending : Finish(w, r, kind)
      PROVE  Kept
  <2>1. Started(r) \in Event /\ \A kind \in Ending : <<r, kind>> \in Event
    BY DEF Started, Event
  <2> QED  BY <1>8, <1>9, <2>1 DEF Start, Finish
<1> QED  BY <1>4, <1>5, <1>6, <1>7, <1>9 DEF Step

(* No event is in the file twice, or twice under way.                       *)
LEMMA WrittenOnceStep ==
  ASSUME LedgerInv, CallsAreKnown, EndsFollowStarts, WrittenOnce, [Next]_vars
  PROVE  WrittenOnce'
<1>0. Types /\ file \in Seq(Fragment) /\ Len(file) \in Nat /\ pc \in [Writer -> Location]
      /\ synced \in 0 .. Len(file)
  BY DEF LedgerInv, Types
<1>1. ASSUME NEW w \in Writer,
             \/ Step(w) \/ WriteError(w)
             \/ \E r \in Request : Start(w, r) \/ \E kind \in Ending : Finish(w, r, kind)
      PROVE  WrittenOnce'
  BY <1>0, <1>1, WritersKeepOrAdd, KeptOnce, AddedOnce
<1>2. ASSUME NEW p \in Process, Kill(p)
      PROVE  Kept
  BY <1>0, <1>2 DEF Kill, Die, Kept, Fresh
<1>3. CASE PowerLoss
  <2>1. PICK n \in synced .. Len(file) : file' = SubSeq(file, 1, n)
    BY <1>3 DEF PowerLoss
  <2>2. /\ file' \in Seq(Fragment) /\ Len(file') <= Len(file)
        /\ \A i \in 1 .. Len(file') : file'[i] = file[i]
    BY <1>0, <2>1
  <2>3. UNCHANGED <<called, doing>> /\ \A v \in Writer : Fresh(v)' => Fresh(v)
    BY <1>0, <1>3 DEF PowerLoss, Die, Fresh
  <2>4. Kept
    BY <2>2, <2>3 DEF Kept
  <2> QED  BY <1>0, <2>4, KeptOnce
<1>4. CASE UNCHANGED vars
  <2>1. Kept
    BY <1>0, <1>4 DEF vars, Kept, Fresh
  <2> QED  BY <1>0, <2>1, KeptOnce
<1> QED  BY <1>0, <1>1, <1>2, <1>3, <1>4, KeptOnce DEF Next

(* start, complete and fail begin an append for an event not begun before;  *)
(* nothing takes back what was called or has returned.                      *)
LEMMA EndsFollowStartsStep ==
  ASSUME called \subseteq Event, EndsFollowStarts, [Next]_vars
  PROVE  EndsFollowStarts'
<1>1. CASE called' = called /\ acked \subseteq acked'
  BY <1>1 DEF EndsFollowStarts, Started
<1>2. ASSUME NEW w \in Writer, NEW r \in Request, Start(w, r)
      PROVE  EndsFollowStarts'
  <2>1. called' = called \cup {Started(r)} /\ acked' = acked
    BY <1>2 DEF Start, Call
  <2>2. Started(r)[2] \notin Ending
    BY DEF Started, Ending
  <2> QED  BY <2>1, <2>2 DEF EndsFollowStarts, Started
<1>3. ASSUME NEW w \in Writer, NEW r \in Request, NEW kind \in Ending, Finish(w, r, kind)
      PROVE  EndsFollowStarts'
  <2> DEFINE end == <<r, kind>>
  <2>1. called' = called \cup {end} /\ acked' = acked /\ end[1] = r /\ end[2] = kind
        /\ Started(r) \in acked
    BY <1>3 DEF Finish, Call
  <2>2. ASSUME NEW f \in called, f[1] = r
        PROVE  f[2] \notin Ending
    <3>1. f = <<f[1], f[2]>>
      BY DEF Event
    <3>2. \A k \in Ending : <<r, k>> \notin called
      BY <1>3 DEF Finish
    <3> QED  BY <2>2, <3>1, <3>2
  <2>3. ASSUME NEW e \in called', e[2] \in Ending
        PROVE  /\ Started(e[1]) \in acked
               /\ \A f \in called' : f[1] = e[1] /\ f[2] \in Ending => f = e
    <3>1. CASE e = end
      <4>1. e[1] = r /\ Started(e[1]) \in acked
        BY <2>1, <3>1
      <4> QED  BY <2>1, <2>2, <3>1, <4>1
    <3>2. CASE e # end
      <4>1. e \in called /\ e[1] # r
        BY <2>1, <2>2, <2>3, <3>2
      <4> QED  BY <2>1, <2>3, <4>1 DEF EndsFollowStarts
    <3> QED  BY <3>1, <3>2
  <2> HIDE DEF end
  <2> QED  BY <2>1, <2>3 DEF EndsFollowStarts, Started
<1>4. ASSUME NEW w \in Writer, Step(w) \/ WriteError(w)
      PROVE  called' = called /\ acked \subseteq acked'
  BY <1>4 DEF Step, WriteError, LockThread, LockFile, WriteHead, WriteRest, Sync, UnlockFile,
     Return
<1> QED  BY <1>1, <1>2, <1>3, <1>4 DEF Next, Kill, PowerLoss, vars

-----------------------------------------------------------------------------
(* What TypeOK says besides the types of file and writers: the lock of a    *)
(* process is held by a thread of it inside _append, and a writer is dead   *)
(* with its process.                                                        *)
Locks ==
  /\ acked \subseteq called /\ called \subseteq Event /\ dead \subseteq Process
  /\ \A w \in Writer : pc[w] = "dead" <=> ~ Alive(w)
  /\ threadLock \in [Process -> Writer \cup {NoWriter}]
  /\ \A p \in Process : threadLock[p] # NoWriter =>
       ProcessOf[threadLock[p]] = p /\ pc[threadLock[p]] \notin {"idle", "called", "dead"}

(* A call takes and gives back the locks in their order.                    *)
LEMMA WritersKeepLocks ==
  ASSUME Types, CallsAreKnown, Locks, NEW w \in Writer,
         \/ Step(w) \/ WriteError(w)
         \/ \E r \in Request : Start(w, r) \/ \E kind \in Ending : Finish(w, r, kind)
  PROVE  Locks'
<1>0. /\ pc \in [Writer -> Location] /\ doing \in [Writer -> Event]
      /\ threadLock \in [Process -> Writer \cup {NoWriter}]
      /\ NoWriter \notin Writer /\ ProcessOf \in [Writer -> Process]
  BY WriterAssumption DEF Types, Locks
<1>1. acked' \subseteq called' /\ called' \subseteq Event
  <2>1. CASE Step(w) \/ WriteError(w)
    <3>1. /\ UNCHANGED called
          /\ acked' = acked \/ (pc[w] = "unlocked" /\ acked' = acked \cup {doing[w]})
      BY <2>1 DEF Step, WriteError, LockThread, LockFile, WriteHead, WriteRest, Sync,
         UnlockFile, Return
    <3>2. pc[w] = "unlocked" => doing[w] \in called
      BY DEF CallsAreKnown
    <3> QED  BY <3>1, <3>2 DEF Locks
  <2>2. ASSUME NEW e \in Event, Call(w, e)
        PROVE  acked' \subseteq called' /\ called' \subseteq Event
    BY <2>2 DEF Call, Locks
  <2>3. ASSUME NEW r \in Request, Start(w, r) \/ \E kind \in Ending : Finish(w, r, kind)
        PROVE  acked' \subseteq called' /\ called' \subseteq Event
    <3>1. Started(r) \in Event /\ \A kind \in Ending : <<r, kind>> \in Event
      BY DEF Started, Event
    <3> QED  BY <2>2, <2>3, <3>1 DEF Start, Finish
  <2> QED  BY <2>1, <2>2, <2>3
<1>2. /\ UNCHANGED dead /\ \A v \in Writer : v # w => pc'[v] = pc[v]
      /\ pc[w] # "dead" /\ pc'[w] # "dead"
  <2>1. \A e : Call(w, e) => /\ UNCHANGED dead /\ pc[w] # "dead" /\ pc'[w] # "dead"
                             /\ \A v \in Writer : v # w => pc'[v] = pc[v]
    BY <1>0 DEF Call
  <2>2. CASE Step(w) \/ WriteError(w)
    BY <1>0, <2>2 DEF Step, WriteError, LockThread, LockFile, WriteHead, WriteRest, Sync,
       UnlockFile, Return
  <2> QED  BY <2>1, <2>2 DEF Start, Finish
<1>3. \A v \in Writer : pc'[v] = "dead" <=> ~ Alive(v)'
  BY <1>2 DEF Locks, Alive
<1>4. \/ threadLock' = threadLock /\ (pc[w] = "idle" \/ pc'[w] \notin {"idle", "called", "dead"})
      \/ LockThread(w)
      \/ threadLock' = [threadLock EXCEPT ![ProcessOf[w]] = NoWriter] /\ pc'[w] = "idle"
  <2>1. \A e : Call(w, e) => threadLock' = threadLock /\ pc[w] = "idle"
    BY DEF Call
  <2>2. CASE Step(w) \/ WriteError(w)
    BY <1>0, <2>2 DEF Step, WriteError, LockFile, WriteHead, WriteRest, Sync, UnlockFile, Return
  <2> QED  BY <2>1, <2>2 DEF Start, Finish
<1>5. threadLock' \in [Process -> Writer \cup {NoWriter}]
  BY <1>0, <1>4 DEF LockThread
<1>6. ASSUME NEW p \in Process, threadLock'[p] # NoWriter
      PROVE  ProcessOf[threadLock'[p]] = p /\ pc'[threadLock'[p]] \notin {"idle", "called", "dead"}
  <2>1. CASE LockThread(w) /\ p = ProcessOf[w]
    BY <1>0, <2>1 DEF LockThread
  <2>2. CASE ~ (LockThread(w) /\ p = ProcessOf[w])
    <3>1. threadLock'[p] = threadLock[p] /\ threadLock[p] \in Writer
      BY <1>0, <1>4, <1>6, <2>2 DEF LockThread
    <3>2. ProcessOf[threadLock[p]] = p /\ pc[threadLock[p]] \notin {"idle", "called", "dead"}
      BY <1>6, <3>1 DEF Locks
    <3>3. CASE threadLock[p] # w
      BY <1>2, <3>1, <3>2, <3>3
    <3>4. CASE threadLock[p] = w
      <4>1. ~ LockThread(w)
        BY <3>2, <3>4 DEF LockThread
      <4>2. threadLock' # [threadLock EXCEPT ![ProcessOf[w]] = NoWriter]
        BY <1>0, <1>6, <3>2, <3>4
      <4> QED  BY <1>4, <3>1, <3>2, <3>4, <4>1, <4>2
    <3> QED  BY <3>3, <3>4
  <2> QED  BY <2>1, <2>2
<1> QED  BY <1>1, <1>2, <1>3, <1>5, <1>6 DEF Locks

(* A process that dies leaves neither lock behind.                          *)
LEMMA DeathKeepsLocks ==
  ASSUME Types, Locks, NEW victims \in SUBSET Process, Die(victims), UNCHANGED <<called, acked>>
  PROVE  Locks'
<1>0. /\ pc \in [Writer -> Location] /\ ProcessOf \in [Writer -> Process]
      /\ threadLock \in [Process -> Writer \cup {NoWriter}] /\ NoWriter \notin Writer
  BY WriterAssumption DEF Types, Locks
<1>1. \A w \in Writer : pc'[w] = IF ProcessOf[w] \in victims THEN "dead" ELSE pc[w]
  BY DEF Die
<1>2. \A w \in Writer : pc'[w] = "dead" <=> ~ Alive(w)'
  BY <1>1 DEF Die, Locks, Alive
<1>3. \A p \in Process : threadLock'[p] = IF p \in victims THEN NoWriter ELSE threadLock[p]
  BY DEF Die
<1>4. threadLock' \in [Process -> Writer \cup {NoWriter}]
  BY <1>0 DEF Die
<1>5. ASSUME NEW p \in Process, threadLock'[p] # NoWriter
      PROVE  ProcessOf[threadLock'[p]] = p /\ pc'[threadLock'[p]] \notin {"idle", "called", "dead"}
  <2>1. p \notin victims /\ threadLock'[p] = threadLock[p] /\ threadLock[p] \in Writer
    BY <1>0, <1>3, <1>5
  <2>2. ProcessOf[threadLock[p]] = p /\ pc[threadLock[p]] \notin {"idle", "called", "dead"}
    BY <1>5, <2>1 DEF Locks
  <2> QED  BY <1>1, <2>1, <2>2
<1> QED  BY <1>2, <1>4, <1>5 DEF Locks, Die

(* Each lock is held by whom it says, in every step.                        *)
LEMMA LocksStep ==
  ASSUME Types, CallsAreKnown, Locks, [Next]_vars
  PROVE  Locks'
<1>1. ASSUME NEW p \in Process, Kill(p)
      PROVE  Locks'
  BY <1>1, DeathKeepsLocks DEF Kill
<1>2. CASE PowerLoss
  <2>1. {ProcessOf[OwnerOf[e[1]]] : e \in called} \subseteq Process
    <3>1. \A e \in called : e[1] \in Request
      BY DEF Locks, Event
    <3> QED  BY <3>1, WriterAssumption
  <2> QED  BY <1>2, <2>1, DeathKeepsLocks DEF PowerLoss
<1>3. CASE UNCHANGED vars
  BY <1>3 DEF vars, Locks, Alive
<1> QED  BY <1>1, <1>2, <1>3, WritersKeepLocks DEF Next

-----------------------------------------------------------------------------
(* All that the theorems below need, established by Init and kept.          *)
AuditInv ==
  /\ LedgerInv /\ CallsAreKnown /\ Locks /\ EndsFollowStarts /\ WrittenOnce

(* AuditInv holds of the empty ledger.                                      *)
LEMMA AuditInit == Init => AuditInv
<1> SUFFICES ASSUME Init
             PROVE  AuditInv
  OBVIOUS
<1>1. Locks
  BY WriterAssumption DEF Init, Locks, Alive
<1>2. EndsFollowStarts /\ WrittenOnce
  BY DEF Init, EndsFollowStarts, WrittenOnce, Fresh
<1> QED  BY <1>1, <1>2, LedgerInit DEF AuditInv

(* AuditInv is inductive.                                                   *)
LEMMA AuditStep == AuditInv /\ [Next]_vars => AuditInv'
<1> SUFFICES ASSUME AuditInv, [Next]_vars
             PROVE  AuditInv'
  OBVIOUS
<1>1. Types /\ called \subseteq Event
  BY DEF AuditInv, LedgerInv, Locks
<1> QED  BY <1>1, LedgerStep, LocksStep, EndsFollowStartsStep, WrittenOnceStep DEF AuditInv

-----------------------------------------------------------------------------
(* When no line is cut short, a head is read wherever it stands: what comes *)
(* before it ends a line.                                                   *)
LEMMA UntornHeadsAreRead ==
  ASSUME Types, \A i \in 1 .. Len(file) : ~ Torn(i),
         NEW i \in 1 .. Len(file), ~ file[i].last
  PROVE  Reads(i)
<1>0. Len(file) \in Nat /\ file \in Seq(Fragment) /\ \A j \in 1 .. Len(file) : file[j] \in Fragment
  BY DEF Types
<1>1. i < Len(file) /\ file[i + 1] = RestOf(file[i].event)
  BY DEF Torn
<1>2. i = 1 \/ file[i - 1].last
  <2>1. ASSUME i # 1, ~ file[i - 1].last
        PROVE  FALSE
    <3>1. i - 1 \in 1 .. Len(file) /\ (i - 1) + 1 = i
      BY <1>0, <2>1
    <3>2. file[i] = RestOf(file[i - 1].event)
      BY <2>1, <3>1 DEF Torn
    <3> QED  BY <3>2 DEF RestOf
  <2> QED  BY <2>1
<1>3. i \in 1 .. Len(file) - 1
  BY <1>0, <1>1
<1> QED  BY <1>1, <1>2, <1>3 DEF Reads

(* A request's event that is on the disk is read when its head is.          *)
LEMMA OnDiskIsRead ==
  ASSUME Types, NEW e \in Event, OnDisk(e),
         \A i \in 1 .. Len(file) : ~ file[i].last => Reads(i)
  PROVE  Lines(e) # {}
<1>1. PICK i \in 2 .. synced : file[i - 1] = HeadOf(e)
  BY DEF OnDisk
<1>2. synced \in 0 .. Len(file) /\ Len(file) \in Nat
  BY DEF Types
<1>3. i - 1 \in 1 .. Len(file)
  BY <1>1, <1>2
<1>4. ~ file[i - 1].last /\ file[i - 1].event = e
  BY <1>1 DEF HeadOf
<1>5. i - 1 \in Lines(e)
  BY <1>3, <1>4 DEF Lines
<1> QED  BY <1>5

(* validate_ledger accepts a ledger of whole lines.                         *)
LEMMA UntornIsAccepted ==
  ASSUME AuditInv, \A i \in 1 .. Len(file) : ~ Torn(i)
  PROVE  ~ Rejected
<1>0. /\ Types /\ LinesDoNotInterleave /\ AcknowledgedEventsAreDurable
      /\ Len(file) \in Nat /\ \A i \in 1 .. Len(file) : file[i] \in Fragment
      /\ acked \subseteq called /\ called \subseteq Event
  BY DEF AuditInv, LedgerInv, Types, Locks
<1>1. \A i \in 1 .. Len(file) : ~ file[i].last => Reads(i)
  BY <1>0, UntornHeadsAreRead
<1>2. ~ NotJson
  <2> SUFFICES ASSUME NEW i \in 1 .. Len(file), file[i].last
               PROVE  Reads(i - 1)
    BY <1>1 DEF NotJson
  <2>1. i > 1 /\ file[i - 1] = HeadOf(file[i].event)
    BY <1>0 DEF LinesDoNotInterleave
  <2>2. i - 1 \in 1 .. Len(file) /\ ~ file[i - 1].last
    BY <1>0, <2>1 DEF HeadOf
  <2> QED  BY <1>1, <2>2
<1>3. \A i \in 1 .. Len(file) : file[i].event \in called /\ file[i].event \in Event
  BY <1>0 DEF AuditInv, WrittenOnce
<1>4. ~ Duplicate
  <2> SUFFICES ASSUME NEW i \in 1 .. Len(file), NEW j \in 1 .. Len(file), i # j,
                      Reads(i), Reads(j), file[i].event[1] = file[j].event[1],
                      file[i].event[2] \in Ending <=> file[j].event[2] \in Ending
               PROVE  FALSE
    BY DEF Duplicate
  <2>1. file[i].event # file[j].event
    BY DEF AuditInv, WrittenOnce, Reads
  <2>2. CASE file[i].event[2] \in Ending
    BY <1>3, <2>1, <2>2 DEF AuditInv, EndsFollowStarts
  <2>3. CASE file[i].event[2] \notin Ending
    <3>1. file[i].event[2] = "request_started" /\ file[j].event[2] = "request_started"
      BY <1>3, <2>3 DEF Event
    <3>2. /\ file[i].event = <<file[i].event[1], file[i].event[2]>>
          /\ file[j].event = <<file[j].event[1], file[j].event[2]>>
      BY <1>3 DEF Event
    <3> QED  BY <2>1, <3>1, <3>2
  <2> QED  BY <2>2, <2>3
<1>5. ~ Orphaned
  <2> SUFFICES ASSUME NEW r \in ReadEnded
               PROVE  r \in ReadStarted
    BY DEF Orphaned
  <2>1. r \in Request
    BY DEF ReadEnded
  <2>2. PICK kind \in Ending : Lines(<<r, kind>>) # {}
    BY DEF ReadEnded
  <2>3. PICK i \in 1 .. Len(file) : file[i].event = <<r, kind>>
    BY <2>2 DEF Lines
  <2>4. file[i].event \in called /\ file[i].event[1] = r /\ file[i].event[2] \in Ending
    BY <1>3, <2>3
  <2>5. Started(r) \in acked
    BY <2>4 DEF AuditInv, EndsFollowStarts
  <2>6. Started(r) \in Event /\ OnDisk(Started(r))
    BY <1>0, <2>5 DEF AcknowledgedEventsAreDurable
  <2>7. Lines(Started(r)) # {}
    BY <1>0, <1>1, <2>6, OnDiskIsRead
  <2> QED  BY <2>1, <2>7 DEF ReadStarted
<1> QED  BY <1>2, <1>4, <1>5 DEF Rejected

(* validate_ledger (request_recorder.py): whatever is killed, fails or      *)
(* loses power, the recorder never writes a ledger that the audit refuses   *)
(* for a duplicate or an end without a start; only for a line cut short.    *)
THEOREM OnlyTornRejected == Spec => []OnlyTornLedgersAreRejected
<1>1. AuditInv => OnlyTornLedgersAreRejected
  BY UntornIsAccepted DEF OnlyTornLedgersAreRejected
<1> QED  BY <1>1, AuditInit, AuditStep, PTL DEF Spec

(* validate_ledger (request_recorder.py): an audit that passes has read a   *)
(* start and an end of every request whose start was acknowledged.          *)
THEOREM AuditIsExhaustive == Spec => []AuditMissesNothing
<1>1. ASSUME AuditInv, IsComplete, NEW r \in Request, Started(r) \in acked
      PROVE  r \in ReadStarted /\ \E k \in Ending : Lines(<<r, k>>) # {}
  <2>1. Types /\ Started(r) \in Event /\ OnDisk(Started(r))
    BY <1>1 DEF AuditInv, LedgerInv, Locks, AcknowledgedEventsAreDurable
  <2>2. \A i \in 1 .. Len(file) : ~ file[i].last => Reads(i)
    BY <1>1 DEF IsComplete, Rejected, NotJson
  <2>3. r \in ReadStarted
    BY <2>1, <2>2, OnDiskIsRead DEF ReadStarted
  <2>4. r \in ReadEnded
    BY <1>1, <2>3 DEF IsComplete
  <2> QED  BY <2>3, <2>4 DEF ReadEnded
<1>2. AuditInv => AuditMissesNothing
  BY <1>1 DEF AuditMissesNothing
<1> QED  BY <1>2, AuditInit, AuditStep, PTL DEF Spec

(* RequestRecorder._append (request_recorder.py): the file lock is held by  *)
(* exactly the writer that is writing, and the lock of a process only by a  *)
(* live thread of it.                                                       *)
THEOREM LedgerTypes == Spec => []TypeOK
<1>1. AuditInv => TypeOK
  BY DEF AuditInv, LedgerInv, Types, Exclusive, Locks, TypeOK
<1> QED  BY <1>1, AuditInit, AuditStep, PTL DEF Spec
=============================================================================
