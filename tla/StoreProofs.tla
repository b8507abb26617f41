---------------------------- MODULE StoreProofs ----------------------------
(***************************************************************************)
(* The durable log.  First that FileLog never loses an acknowledged        *)
(* record, and implements DurableLog, for any set of appenders and any     *)
(* number of kills, power cuts and restarts; then that the compaction of   *)
(* the log at a start loses nothing and that a server that stops comes     *)
(* back as it was, for any teams, companies, prices and records.           *)
(***************************************************************************)
EXTENDS FileLog, Compaction, Induction

(* No fragment is ever written after, so every line of the file parses. *)
NoGarbage == /\ \A i \in 1 .. Len(lines) : lines[i] # Garbage
             /\ up => ~torn

(* The counters of an open log describe its file. *)
Counted == /\ up => base + pending = Len(lines)
           /\ synced <= pending
           /\ synced > 0 => base + synced <= ondisk

(* A waiting appender's record is in the file where it thinks it is; the   *)
(* one that syncs has flushed its own record at least.                     *)
InPlace ==
    \A r \in Record :
        /\ pc[r] \in Waiting =>
              /\ mine[r] \in 1 .. pending
              /\ base + mine[r] <= Len(lines)
              /\ lines[base + mine[r]] = r
        /\ pc[r] = "syncing" =>
              /\ upTo[r] \in mine[r] .. pending
              /\ up => base + upTo[r] <= flushed

IInv == TypeOK /\ NoGarbage /\ Counted /\ InPlace /\ OneSync /\ AckedSurvive
-----------------------------------------------------------------------------
(* The constants satisfy the assumption, and the log starts empty. *)
LEMMA InitIInv == Init => IInv
<1> SUFFICES ASSUME Init PROVE IInv
  OBVIOUS
<1> USE DEF Init
<1>1. lines \in Seq(Record \cup {Garbage}) /\ Len(lines) = 0
  OBVIOUS
<1>2. TypeOK
  <2>1. restarts \in 0 .. MaxRestarts
    BY FileLogAssumption
  <2>2. /\ torn \in BOOLEAN /\ syncing \in BOOLEAN /\ broken \in BOOLEAN
        /\ up \in BOOLEAN
    OBVIOUS
  <2>3. /\ pc \in [Record -> Status] /\ mine \in [Record -> Nat]
        /\ upTo \in [Record -> Nat] /\ replayed \in SUBSET Record
    BY DEF Status
  <2>4. /\ flushed \in 0 .. Len(lines) /\ ondisk \in 0 .. flushed
        /\ base \in 0 .. Len(lines) /\ pending \in Nat /\ synced \in Nat
    BY <1>1
  <2>5. QED
    BY <1>1, <2>1, <2>2, <2>3, <2>4 DEF TypeOK
<1>3. NoGarbage /\ Counted
  BY <1>1 DEF NoGarbage, Counted
<1>4. InPlace /\ OneSync /\ AckedSurvive
  BY DEF InPlace, OneSync, AckedSurvive, Waiting
<1>5. QED
  BY <1>2, <1>3, <1>4 DEF IInv

(* Appending one record: it is the new last line, numbered pending + 1. *)
LEMMA AppendIInv ==
  ASSUME IInv, NEW r \in Record, AppendRecord(r)
  PROVE  IInv'
<1> USE DEF IInv, Waiting, Status
<1>1. ~torn /\ lines' = Append(lines, r) /\ Len(lines') = Len(lines) + 1
  BY DEF AppendRecord, Written, NoGarbage, TypeOK
<1>2. /\ \A i \in 1 .. Len(lines) : lines'[i] = lines[i]
      /\ lines'[Len(lines) + 1] = r
  BY <1>1 DEF TypeOK
<1>3. TypeOK'
  <2>1. lines' \in Seq(Record \cup {Garbage})
    BY <1>1 DEF TypeOK
  <2>2. /\ flushed' \in 0 .. Len(lines') /\ ondisk' \in 0 .. flushed'
        /\ base' \in 0 .. Len(lines') /\ pending' \in Nat /\ synced' \in Nat
    BY <1>1 DEF AppendRecord, TypeOK, StartSync
  <2>3. /\ torn' \in BOOLEAN /\ syncing' \in BOOLEAN /\ broken' \in BOOLEAN
        /\ up' \in BOOLEAN
    <3>1. torn' = FALSE /\ broken' = broken /\ up' = up
      BY DEF AppendRecord
    <3>2. syncing' = syncing \/ syncing' = TRUE
      BY DEF AppendRecord, StartSync
    <3>3. QED
      BY <3>1, <3>2 DEF TypeOK
  <2>4. /\ pc' \in [Record -> Status] /\ mine' \in [Record -> Nat]
        /\ upTo' \in [Record -> Nat]
    <3>1. \E v \in Status : pc' = [pc EXCEPT ![r] = v]
      BY DEF AppendRecord
    <3>2. mine' = [mine EXCEPT ![r] = pending + 1]
      BY DEF AppendRecord
    <3>3. \E n \in Nat : upTo' = [upTo EXCEPT ![r] = n] \/ upTo' = upTo
      BY DEF AppendRecord, StartSync, TypeOK
    <3>4. pc' \in [Record -> Status]
      BY <3>1 DEF TypeOK
    <3>5. mine' \in [Record -> Nat]
      BY <3>2 DEF TypeOK
    <3>6. upTo' \in [Record -> Nat]
      BY <3>3 DEF TypeOK
    <3>7. QED
      BY <3>4, <3>5, <3>6
  <2>5. replayed' \in SUBSET Record /\ restarts' \in 0 .. MaxRestarts
    BY DEF AppendRecord, TypeOK
  <2>6. QED
    BY <2>1, <2>2, <2>3, <2>4, <2>5 DEF TypeOK
<1>4. NoGarbage'
  BY <1>1, <1>2, FileLogAssumption DEF AppendRecord, TypeOK, NoGarbage
<1>5. Counted'
  <2>1. /\ pending' = pending + 1 /\ base' = base /\ synced' = synced
        /\ ondisk' = ondisk
    BY DEF AppendRecord
  <2>2. synced' <= pending' /\ (synced' > 0 => base' + synced' <= ondisk')
    BY <2>1 DEF TypeOK, Counted
  <2>3. ASSUME up' PROVE base' + pending' = Len(lines')
    <3>1. up
      BY DEF AppendRecord
    <3>2. base + pending = Len(lines)
      BY <3>1 DEF Counted
    <3>3. Len(lines') = Len(lines) + 1
      BY <1>1
    <3>4. base \in Nat /\ pending \in Nat /\ Len(lines) \in Nat
      BY DEF TypeOK
    <3>5. QED
      BY <3>2, <3>3, <3>4, <2>1
  <2>4. QED
    BY <2>2, <2>3 DEF Counted
<1>6. InPlace'
  <2> SUFFICES ASSUME NEW s \in Record PROVE InPlace!(s)'
    BY DEF InPlace
  <2>1. CASE s = r
    <3>1. /\ mine'[r] = pending + 1 /\ pending' = pending + 1 /\ base' = base
          /\ base + pending = Len(lines) /\ pending \in Nat /\ base \in Nat
      BY DEF AppendRecord, TypeOK, Counted
    <3>2. /\ mine'[r] \in 1 .. pending' /\ base' + mine'[r] = Len(lines')
          /\ lines'[base' + mine'[r]] = r
      <4>1. base + (pending + 1) = Len(lines) + 1
        BY <3>1
      <4>2. QED
        BY <3>1, <4>1, <1>1, <1>2
    <3>3. ASSUME pc'[r] = "syncing"
          PROVE  upTo'[r] = pending' /\ (up' => flushed' = Len(lines'))
      <4>1. ~syncing
        BY <3>3 DEF AppendRecord, TypeOK
      <4>2. StartSync(r, pending + 1, Len(lines) + 1) /\ up' = up
        BY <4>1 DEF AppendRecord
      <4>3. QED
        BY <4>2, <3>1, <1>1 DEF StartSync, TypeOK
    <3>4. /\ mine'[r] \in Nat /\ pending' = mine'[r]
          /\ base' + pending' = Len(lines')
      BY <3>1, <1>1
    <3>5. pc'[r] = "syncing" => /\ upTo'[r] \in mine'[r] .. pending'
                                /\ up' => base' + upTo'[r] <= flushed'
      BY <3>3, <3>4, <1>1 DEF TypeOK
    <3>6. base' + mine'[r] <= Len(lines')
      BY <3>2, <1>1
    <3>7. QED
      BY <2>1, <3>2, <3>5, <3>6 DEF InPlace
  <2>2. CASE s # r
    <3>1. pc'[s] = pc[s] /\ mine'[s] = mine[s] /\ upTo'[s] = upTo[s]
      BY <2>2 DEF AppendRecord, StartSync, TypeOK
    <3>2. pc[s] = "syncing" => flushed' >= flushed
      BY DEF AppendRecord, StartSync, TypeOK, OneSync
    <3>3. QED
      BY <3>1, <3>2, <1>1, <1>2, <1>3, SMTT(30)
      DEF AppendRecord, TypeOK, Counted, InPlace
  <2>3. QED BY <2>1, <2>2
<1>7. OneSync'
  <2>1. CASE syncing
    <3>1. pc' = [pc EXCEPT ![r] = "asleep"] /\ syncing' = syncing
      BY <2>1 DEF AppendRecord
    <3>2. /\ pc[r] = "new" /\ pc'[r] = "asleep"
          /\ \A s \in Record \ {r} : pc'[s] = pc[s]
      BY <3>1 DEF AppendRecord, TypeOK
    <3>3. \A s \in Record : pc'[s] = "syncing" <=> pc[s] = "syncing"
      BY <3>2
    <3>4. QED
      BY <3>1, <3>3, Zenon DEF OneSync
  <2>2. CASE ~syncing
    <3>1. pc' = [pc EXCEPT ![r] = "syncing"] /\ syncing' = TRUE
      BY <2>2 DEF AppendRecord, StartSync
    <3>2. pc'[r] = "syncing" /\ \A s \in Record \ {r} : pc'[s] = pc[s]
      BY <3>1 DEF TypeOK
    <3>3. \A s \in Record : pc[s] # "syncing"
      BY <2>2 DEF OneSync
    <3>4. \A s \in Record : pc'[s] = "syncing" <=> s = r
      BY <3>2, <3>3
    <3>5. QED
      BY <3>1, <3>4, Zenon DEF OneSync
  <2>3. QED
    BY <2>1, <2>2
<1>8. AckedSurvive'
  <2> SUFFICES ASSUME NEW s \in Record, pc'[s] = "acked"
               PROVE  AckedSurvive!(s)!2'
    BY DEF AckedSurvive
  <2>1. pc[s] = "acked"
    BY DEF AppendRecord, TypeOK
  <2>2. PICK i \in 1 .. ondisk : lines[i] = s /\ \A j \in 1 .. i : lines[j] # Garbage
    BY <2>1 DEF AckedSurvive
  <2>3. ondisk' = ondisk /\ ondisk \in 0 .. Len(lines)
    BY DEF AppendRecord, TypeOK
  <2>4. /\ i \in 1 .. ondisk' /\ lines'[i] = s
        /\ \A j \in 1 .. i : lines'[j] # Garbage
    BY <2>2, <2>3, <1>2
  <2>5. QED
    BY <2>4
<1>9. QED
  BY <1>3, <1>4, <1>5, <1>6, <1>7, <1>8
-----------------------------------------------------------------------------
(* Waking the sleepers changes nothing but who is asleep. *)
LEMMA WokenKeeps ==
  ASSUME NEW p \in [Record -> Status]
  PROVE  /\ Woken(p) \in [Record -> Status]
         /\ \A s \in Record :
               /\ Woken(p)[s] \in Waiting <=> p[s] \in Waiting
               /\ Woken(p)[s] = "syncing" <=> p[s] = "syncing"
               /\ Woken(p)[s] = "acked" <=> p[s] = "acked"
               /\ p[s] = "failed" => Woken(p)[s] = "failed"
BY DEF Woken, Status, Waiting

(* A step that leaves the file's lines and the count of them alone keeps   *)
(* the invariant if it keeps the counters and the flag right, starts no    *)
(* wait, and acknowledges only what it knows to be on disk.                *)
LEMMA FrameIInv ==
  ASSUME IInv, TypeOK', Counted', OneSync',
         UNCHANGED <<lines, torn, base, pending, mine>>,
         up' => up, ondisk <= ondisk',
         \A s \in Record : pc'[s] \in Waiting => pc[s] \in Waiting,
         \A s \in Record : pc'[s] = "syncing" =>
             /\ upTo'[s] \in mine[s] .. pending
             /\ up' => base + upTo'[s] <= flushed',
         \A s \in Record : pc'[s] = "acked" =>
             \/ pc[s] = "acked"
             \/ pc[s] \in Waiting /\ base + mine[s] <= ondisk'
  PROVE  IInv'
<1>1. NoGarbage'
  <2>1. \A i \in 1 .. Len(lines') : lines'[i] # Garbage
    BY DEF IInv, NoGarbage
  <2>2. up' => ~torn'
    BY Zenon DEF IInv, NoGarbage
  <2>3. QED
    BY <2>1, <2>2 DEF NoGarbage
<1>2. InPlace'
  BY DEF IInv, InPlace
<1>3. AckedSurvive'
  <2> SUFFICES ASSUME NEW s \in Record, pc'[s] = "acked"
               PROVE  \E i \in 1 .. ondisk' :
                         /\ lines'[i] = s
                         /\ \A j \in 1 .. i : lines'[j] # Garbage
    BY DEF AckedSurvive
  <2>1. ondisk \in Nat /\ ondisk' \in Nat /\ ondisk' <= Len(lines)
    BY DEF TypeOK, IInv
  <2>2. CASE pc[s] = "acked"
    BY <2>1, <2>2 DEF IInv, AckedSurvive
  <2>3. CASE pc[s] \in Waiting /\ base + mine[s] <= ondisk'
    <3>1. base + mine[s] \in 1 .. ondisk' /\ lines[base + mine[s]] = s
      BY <2>1, <2>3 DEF IInv, InPlace, TypeOK
    <3>2. \A j \in 1 .. base + mine[s] : lines[j] # Garbage
      BY <2>1, <3>1 DEF IInv, NoGarbage
    <3>3. QED
      BY <3>1, <3>2
  <2>4. QED
    BY <2>2, <2>3
<1>4. QED
  BY <1>1, <1>2, <1>3 DEF IInv

(* A refused append changes nothing but its own outcome. *)
LEMMA RefuseIInv ==
  ASSUME IInv, NEW r \in Record, RefuseAppend(r)
  PROVE  IInv'
<1>1. PICK p \in [Record -> Status] :
         p = [pc EXCEPT ![r] = "failed"] /\ (pc' = p \/ pc' = Woken(p))
  BY DEF RefuseAppend, IInv, TypeOK, Status
<1>2. /\ pc' \in [Record -> Status]
      /\ pc'[r] = "failed"
      /\ \A s \in Record \ {r} :
            /\ pc'[s] \in Waiting <=> pc[s] \in Waiting
            /\ pc'[s] = "syncing" <=> pc[s] = "syncing"
            /\ pc'[s] = "acked" <=> pc[s] = "acked"
  <2>1. p[r] = "failed" /\ \A s \in Record \ {r} : p[s] = pc[s]
    BY <1>1 DEF IInv, TypeOK
  <2>2. CASE pc' = p
    BY <2>1, <2>2
  <2>3. CASE pc' = Woken(p)
    BY <2>1, <2>3, WokenKeeps
  <2>4. QED
    BY <1>1, <2>2, <2>3
<1>3. /\ lines' = lines /\ flushed' = flushed /\ ondisk' = ondisk
      /\ torn' = torn /\ base' = base /\ pending' = pending
      /\ synced' = synced /\ syncing' = syncing /\ up' = up
      /\ mine' = mine /\ upTo' = upTo /\ replayed' = replayed
      /\ restarts' = restarts
  BY DEF RefuseAppend
<1>4. broken' \in BOOLEAN
  <2>1. broken' = broken \/ broken' = TRUE
    BY DEF RefuseAppend
  <2>2. QED
    BY <2>1 DEF IInv, TypeOK
<1>5. TypeOK'
  BY <1>2, <1>3, <1>4, Zenon DEF IInv, TypeOK
<1>6. Counted'
  BY <1>3, Zenon DEF IInv, Counted
<1>7. pc[r] = "new"
  BY DEF RefuseAppend
<1>8. \A s \in Record : pc'[s] = "syncing" <=> pc[s] = "syncing"
  BY <1>2, <1>7
<1>9. OneSync'
  BY <1>3, <1>8, Zenon DEF IInv, OneSync
<1>10. /\ \A s \in Record : pc'[s] \in Waiting => pc[s] \in Waiting
       /\ \A s \in Record : pc'[s] = "acked" => pc[s] = "acked"
  BY <1>2 DEF Waiting
<1>11. /\ up' => up
       /\ ondisk <= ondisk'
  BY <1>3 DEF IInv, TypeOK
<1>12. \A s \in Record : pc'[s] = "syncing" =>
          /\ upTo'[s] \in mine[s] .. pending
          /\ up' => base + upTo'[s] <= flushed'
  BY <1>3, <1>8, Zenon DEF IInv, InPlace
<1>13. QED
  BY <1>3, <1>5, <1>6, <1>9, <1>10, <1>11, <1>12, FrameIInv
(* A woken appender finds its record on disk, gives up, sleeps again, or   *)
(* starts a sync of its own.                                               *)
LEMMA RecheckIInv ==
  ASSUME IInv, NEW r \in Record, Recheck(r)
  PROVE  IInv'
<1>1. /\ lines' = lines /\ ondisk' = ondisk /\ torn' = torn /\ base' = base
      /\ pending' = pending /\ synced' = synced /\ broken' = broken
      /\ up' = up /\ mine' = mine /\ replayed' = replayed
      /\ restarts' = restarts /\ pc[r] = "awake"
  BY DEF Recheck
<1>2. mine[r] \in 1 .. pending
  BY <1>1 DEF IInv, InPlace, Waiting
<1>3. /\ pending \in Nat /\ synced \in Nat /\ base \in Nat /\ Len(lines) \in Nat
      /\ flushed \in 0 .. Len(lines) /\ ondisk \in 0 .. flushed
      /\ mine[r] \in Nat
  BY DEF IInv, TypeOK
<1>4. CASE /\ pc' \in {[pc EXCEPT ![r] = v] : v \in {"acked", "failed", "asleep"}}
           /\ pc'[r] = "acked" => synced >= mine[r]
           /\ UNCHANGED <<syncing, upTo, flushed>>
  <2>1. /\ pc' \in [Record -> Status]
        /\ \A s \in Record : pc'[s] = "syncing" <=> pc[s] = "syncing"
        /\ \A s \in Record : pc'[s] \in Waiting => pc[s] \in Waiting
        /\ \A s \in Record \ {r} : pc'[s] = pc[s]
    BY <1>1, <1>4 DEF IInv, TypeOK, Status, Waiting
  <2>2. syncing' = syncing /\ upTo' = upTo /\ flushed' = flushed
    BY <1>4
  <2>3. TypeOK'
    BY <1>1, <2>1, <2>2, Zenon DEF IInv, TypeOK
  <2>4. Counted'
    BY <1>1, Zenon DEF IInv, Counted
  <2>5. OneSync'
    BY <2>1, <2>2, Zenon DEF IInv, OneSync
  <2>6. \A s \in Record : pc'[s] = "syncing" =>
            /\ upTo'[s] \in mine[s] .. pending
            /\ up' => base + upTo'[s] <= flushed'
    BY <1>1, <2>1, <2>2, Zenon DEF IInv, InPlace
  <2>7. synced >= mine[r] => base + mine[r] <= ondisk
    BY <1>2, <1>3 DEF IInv, Counted
  <2>8. \A s \in Record : pc'[s] = "acked" =>
            \/ pc[s] = "acked"
            \/ pc[s] \in Waiting /\ base + mine[s] <= ondisk'
    BY <1>1, <1>4, <2>1, <2>7 DEF Waiting
  <2>9. ondisk <= ondisk'
    BY <1>1, <1>3
  <2>10. QED
    BY <1>1, <2>1, <2>3, <2>4, <2>5, <2>6, <2>8, <2>9, FrameIInv
<1>5. CASE /\ pc' = [pc EXCEPT ![r] = "syncing"]
           /\ ~syncing
           /\ StartSync(r, pending, Len(lines))
  <2>1. /\ pc' \in [Record -> Status]
        /\ \A s \in Record : pc'[s] \in Waiting => pc[s] \in Waiting
        /\ pc'[r] = "syncing"
        /\ \A s \in Record \ {r} : pc'[s] = pc[s]
    BY <1>1, <1>5 DEF IInv, TypeOK, Status, Waiting
  <2>2. \A s \in Record \ {r} : pc[s] # "syncing"
    BY <1>5 DEF IInv, OneSync
  <2>3. /\ syncing' = TRUE
        /\ upTo' \in [Record -> Nat] /\ upTo'[r] = pending
    BY <1>3, <1>5 DEF StartSync, IInv, TypeOK
  <2>4. flushed' \in {flushed, Len(lines)} /\ (up => flushed' = Len(lines))
    BY <1>5 DEF StartSync
  <2>5. flushed' \in 0 .. Len(lines) /\ ondisk \in 0 .. flushed'
    BY <1>3, <2>4
  <2>6. TypeOK'
    BY <1>1, <2>1, <2>3, <2>5, Zenon DEF IInv, TypeOK
  <2>7. Counted'
    BY <1>1, Zenon DEF IInv, Counted
  <2>8. OneSync'
    BY <2>1, <2>2, <2>3 DEF OneSync
  <2>9. up => base + pending <= flushed'
    BY <1>3, <2>4 DEF IInv, Counted
  <2>10. \A s \in Record : pc'[s] = "syncing" =>
            /\ upTo'[s] \in mine[s] .. pending
            /\ up' => base + upTo'[s] <= flushed'
    <3>1. ASSUME NEW s \in Record, pc'[s] = "syncing" PROVE s = r
      BY <2>1, <2>2, <3>1
    <3>2. pending \in mine[r] .. pending
      BY <1>2, <1>3
    <3>3. QED
      BY <1>1, <2>3, <2>9, <3>1, <3>2, Zenon
  <2>11. \A s \in Record : pc'[s] = "acked" => pc[s] = "acked"
    BY <2>1
  <2>12. ondisk <= ondisk'
    BY <1>1, <1>3
  <2>13. QED
    BY <1>1, <2>1, <2>6, <2>7, <2>8, <2>10, <2>11, <2>12, FrameIInv
<1>6. QED
  BY <1>3, <1>4, <1>5 DEF Recheck, IInv, TypeOK

(* After a sync ends, nobody is syncing: the one that ended was alone. *)
LEMMA NobodySyncs ==
  ASSUME IInv, NEW r \in Record, pc[r] = "syncing",
         NEW v \in {"acked", "failed"},
         pc' = Woken([pc EXCEPT ![r] = v])
  PROVE  /\ pc' \in [Record -> Status]
         /\ \A s \in Record : pc'[s] # "syncing"
         /\ \A s \in Record : pc'[s] \in Waiting => pc[s] \in Waiting
         /\ \A s \in Record \ {r} : pc'[s] = "acked" => pc[s] = "acked"
         /\ v = "failed" => pc'[r] # "acked"
<1>1. PICK p \in [Record -> Status] :
         p = [pc EXCEPT ![r] = v] /\ pc' = Woken(p)
  BY DEF IInv, TypeOK, Status
<1>2. p[r] = v /\ \A s \in Record \ {r} : p[s] = pc[s]
  BY <1>1 DEF IInv, TypeOK
<1>3. \A s \in Record \ {r} : pc[s] # "syncing"
  BY DEF IInv, OneSync
<1> DEFINE w == Woken(p)
<1>4. /\ w \in [Record -> Status]
      /\ \A s \in Record :
            /\ w[s] \in Waiting <=> p[s] \in Waiting
            /\ w[s] = "syncing" <=> p[s] = "syncing"
            /\ w[s] = "acked" <=> p[s] = "acked"
            /\ p[s] = "failed" => w[s] = "failed"
  BY WokenKeeps
<1> HIDE DEF w
<1>5. v \notin Waiting
  BY DEF Waiting
<1>6. pc' = w
  BY <1>1 DEF w
<1>7. QED
  BY <1>2, <1>3, <1>4, <1>5, <1>6

(* A sync that ends well makes its own record, and all it covered, safe. *)
LEMMA FinishIInv ==
  ASSUME IInv, NEW r \in Record, FinishSync(r)
  PROVE  IInv'
<1>1. /\ lines' = lines /\ flushed' = flushed /\ torn' = torn /\ base' = base
      /\ pending' = pending /\ broken' = broken /\ syncing' = FALSE
      /\ up' = up /\ mine' = mine /\ upTo' = upTo /\ replayed' = replayed
      /\ restarts' = restarts
  BY DEF FinishSync
<1>2. pc[r] = "syncing" /\ up
  BY DEF FinishSync
<1>3. /\ mine[r] \in 1 .. pending
      /\ upTo[r] \in mine[r] .. pending
      /\ base + upTo[r] <= flushed
  BY <1>2 DEF IInv, InPlace, Waiting
<1>4. /\ pending \in Nat /\ synced \in Nat /\ base \in Nat /\ Len(lines) \in Nat
      /\ flushed \in 0 .. Len(lines) /\ ondisk \in 0 .. flushed
      /\ mine[r] \in Nat /\ upTo[r] \in Nat
  BY DEF IInv, TypeOK
<1>5. /\ ondisk' = IF base + upTo[r] > ondisk THEN base + upTo[r] ELSE ondisk
      /\ synced' = IF upTo[r] > synced THEN upTo[r] ELSE synced
  BY DEF FinishSync, Covered
<1>6. ondisk' \in 0 .. flushed /\ synced' \in Nat /\ ondisk <= ondisk'
  BY <1>3, <1>4, <1>5
<1>7. /\ pc' \in [Record -> Status]
      /\ \A s \in Record : pc'[s] # "syncing"
      /\ \A s \in Record : pc'[s] \in Waiting => pc[s] \in Waiting
      /\ \A s \in Record \ {r} : pc'[s] = "acked" => pc[s] = "acked"
  <2>1. pc' = Woken([pc EXCEPT ![r] = "acked"])
    BY DEF FinishSync
  <2>2. QED
    BY <1>2, <2>1, NobodySyncs
<1>8. TypeOK'
  BY <1>1, <1>6, <1>7, Zenon DEF IInv, TypeOK
<1>9. Counted'
  <2>1. synced' <= pending /\ (synced' > 0 => base + synced' <= ondisk')
    BY <1>3, <1>4, <1>5 DEF IInv, Counted
  <2>2. QED
    BY <1>1, <2>1, Zenon DEF IInv, Counted
<1>10. OneSync'
  BY <1>1, <1>7 DEF OneSync
<1>11. base + mine[r] <= ondisk'
  BY <1>3, <1>4, <1>5
<1>12. \A s \in Record : pc'[s] = "acked" =>
            \/ pc[s] = "acked"
            \/ pc[s] \in Waiting /\ base + mine[s] <= ondisk'
  BY <1>2, <1>7, <1>11 DEF Waiting
<1>13. QED
  BY <1>1, <1>6, <1>7, <1>8, <1>9, <1>10, <1>12, FrameIInv

(* A sync that fails makes nothing safe and acknowledges nobody. *)
LEMMA FailIInv ==
  ASSUME IInv, NEW r \in Record, FailSync(r)
  PROVE  IInv'
<1>1. /\ lines' = lines /\ ondisk' = ondisk /\ torn' = torn /\ base' = base
      /\ pending' = pending /\ synced' = synced /\ broken' = TRUE
      /\ syncing' = FALSE /\ up' = up /\ mine' = mine /\ upTo' = upTo
      /\ replayed' = replayed /\ restarts' = restarts
  BY DEF FailSync
<1>2. flushed' \in 0 .. Len(lines) /\ ondisk \in 0 .. flushed' /\ ondisk <= ondisk
  BY DEF FailSync, IInv, TypeOK
<1>3. /\ pc' \in [Record -> Status]
      /\ \A s \in Record : pc'[s] # "syncing"
      /\ \A s \in Record : pc'[s] \in Waiting => pc[s] \in Waiting
      /\ \A s \in Record : pc'[s] = "acked" => pc[s] = "acked"
  <2>1. pc[r] = "syncing" /\ pc' = Woken([pc EXCEPT ![r] = "failed"])
    BY DEF FailSync
  <2>2. QED
    BY <2>1, NobodySyncs
<1>4. TypeOK'
  BY <1>1, <1>2, <1>3, Zenon DEF IInv, TypeOK
<1>5. Counted'
  BY <1>1, Zenon DEF IInv, Counted
<1>6. OneSync'
  BY <1>1, <1>3 DEF OneSync
<1>7. QED
  BY <1>1, <1>2, <1>3, <1>4, <1>5, <1>6, FrameIInv

(* Close runs while no sync does, and can only make records safer. *)
LEMMA CloseIInv ==
  ASSUME IInv, Close
  PROVE  IInv'
<1>1. /\ lines' = lines /\ torn' = torn /\ base' = base /\ pending' = pending
      /\ synced' = synced /\ broken' = broken /\ syncing' = syncing
      /\ up' = FALSE /\ mine' = mine /\ upTo' = upTo /\ replayed' = replayed
      /\ restarts' = restarts /\ ~syncing
  BY DEF Close
<1>2. /\ flushed' \in 0 .. Len(lines) /\ ondisk' \in 0 .. flushed'
      /\ ondisk <= ondisk'
  BY DEF Close, IInv, TypeOK
<1>3. /\ pc' \in [Record -> Status]
      /\ \A s \in Record : pc'[s] = "syncing" <=> pc[s] = "syncing"
      /\ \A s \in Record : pc'[s] \in Waiting => pc[s] \in Waiting
      /\ \A s \in Record : pc'[s] = "acked" => pc[s] = "acked"
  BY WokenKeeps DEF Close, IInv, TypeOK
<1>4. \A s \in Record : pc'[s] # "syncing"
  BY <1>1, <1>3 DEF IInv, OneSync
<1>5. TypeOK'
  BY <1>1, <1>2, <1>3, Zenon DEF IInv, TypeOK
<1>6. Counted'
  <2>1. pending \in Nat /\ synced \in Nat /\ base \in Nat /\ ondisk \in Nat /\ ondisk' \in Nat
    BY <1>2 DEF IInv, TypeOK
  <2>2. synced > 0 => base + synced <= ondisk'
    BY <1>2, <2>1 DEF IInv, Counted
  <2>3. QED
    BY <1>1, <2>2, Zenon DEF IInv, Counted
<1>7. OneSync'
  BY <1>1, <1>4 DEF OneSync
<1>8. QED
  BY <1>1, <1>2, <1>3, <1>4, <1>5, <1>6, <1>7, FrameIInv

-----------------------------------------------------------------------------
(* The process ends: a prefix of the file that holds everything surely on  *)
(* disk is left, and nobody waits any more.                                *)
LEMMA StopIInv ==
  ASSUME IInv, NEW keep \in ondisk .. flushed, NEW n \in ondisk .. keep,
         Stop(keep, n)
  PROVE  IInv'
<1>1. /\ lines' = SubSeq(lines, 1, keep) /\ flushed' = keep /\ ondisk' = n
      /\ base' = 0 /\ pending' = 0 /\ synced' = 0 /\ up' = FALSE
      /\ syncing' = FALSE /\ broken' = broken /\ mine' = mine /\ upTo' = upTo
      /\ replayed' = replayed /\ restarts' = restarts /\ pc' = Lost(pc)
  BY DEF Stop
<1>2. /\ flushed \in 0 .. Len(lines) /\ ondisk \in 0 .. flushed
      /\ lines \in Seq(Record \cup {Garbage}) /\ pc \in [Record -> Status]
  BY DEF IInv, TypeOK
<1>3. keep \in 0 .. Len(lines) /\ n \in 0 .. keep /\ ondisk \in 0 .. n
  BY <1>2
<1>4. /\ lines' \in Seq(Record \cup {Garbage})
      /\ Len(lines') = keep
      /\ \A i \in 1 .. keep : lines'[i] = lines[i]
  BY <1>1, <1>2, <1>3
<1>5. /\ pc' \in [Record -> Status]
      /\ \A s \in Record : pc'[s] \notin Waiting
      /\ \A s \in Record : pc'[s] = "acked" => pc[s] = "acked"
  BY <1>1, <1>2 DEF Lost, Status, Waiting
<1>6. TypeOK'
  <2>1. torn' \in BOOLEAN
    BY DEF Stop
  <2>2. /\ flushed' \in 0 .. Len(lines') /\ ondisk' \in 0 .. flushed'
        /\ base' \in 0 .. Len(lines') /\ pending' \in Nat /\ synced' \in Nat
    BY <1>1, <1>3, <1>4
  <2>3. QED
    BY <1>1, <1>4, <1>5, <2>1, <2>2, Zenon DEF IInv, TypeOK
<1>7. NoGarbage'
  <2>1. \A i \in 1 .. Len(lines') : lines'[i] # Garbage
    BY <1>2, <1>3, <1>4 DEF IInv, NoGarbage
  <2>2. QED
    BY <1>1, <2>1 DEF NoGarbage
<1>8. Counted'
  BY <1>1 DEF Counted
<1>9. InPlace'
  BY <1>5 DEF InPlace, Waiting
<1>10. OneSync'
  BY <1>1, <1>5 DEF OneSync, Waiting
<1>11. AckedSurvive'
  <2> SUFFICES ASSUME NEW s \in Record, pc'[s] = "acked"
               PROVE  \E i \in 1 .. ondisk' :
                         /\ lines'[i] = s
                         /\ \A j \in 1 .. i : lines'[j] # Garbage
    BY DEF AckedSurvive
  <2>1. PICK i \in 1 .. ondisk :
            lines[i] = s /\ \A j \in 1 .. i : lines[j] # Garbage
    BY <1>5 DEF IInv, AckedSurvive
  <2>2. i \in 1 .. ondisk' /\ i \in 1 .. keep
    BY <1>1, <1>3, <2>1
  <2>3. QED
    BY <1>3, <1>4, <2>1, <2>2
<1>12. QED
  BY <1>6, <1>7, <1>8, <1>9, <1>10, <1>11 DEF IInv

(* All lines are good, so the good part of the file is the file. *)
LEMMA AllGood == IInv => ValidLength = Len(lines)
<1> SUFFICES ASSUME IInv PROVE ValidLength = Len(lines)
  OBVIOUS
<1> DEFINE good(n) == /\ \A i \in 1 .. n : lines[i] # Garbage
                      /\ n < Len(lines) => lines[n + 1] = Garbage
<1>1. lines \in Seq(Record \cup {Garbage}) /\ Len(lines) \in Nat
  BY DEF IInv, TypeOK
<1>2. good(Len(lines))
  BY <1>1 DEF IInv, NoGarbage
<1>3. \A n \in 0 .. Len(lines) : good(n) => n = Len(lines)
  BY <1>1 DEF IInv, NoGarbage
<1>4. Len(lines) \in 0 .. Len(lines)
  BY <1>1
<1>5. ValidLength = CHOOSE n \in 0 .. Len(lines) : good(n)
  BY DEF ValidLength
<1> HIDE DEF good
<1>6. QED
  BY <1>2, <1>3, <1>4, <1>5

(* Opening a file of good lines leaves them, and everyone, alone. *)
LEMMA OpenKeeps ==
  ASSUME IInv, OpenFile
  PROVE  lines' = lines /\ ondisk' = ondisk /\ pc' = pc
<1>1. /\ flushed \in 0 .. Len(lines) /\ ondisk \in 0 .. flushed
      /\ lines \in Seq(Record \cup {Garbage}) /\ Len(lines) \in Nat
  BY DEF IInv, TypeOK
<1>2. SubSeq(lines, 1, Len(lines)) = lines
  BY <1>1
<1>3. QED
  BY <1>1, <1>2, AllGood DEF OpenFile

(* Opening the file again: every line is good, so nothing is truncated. *)
LEMMA OpenIInv ==
  ASSUME IInv, OpenFile
  PROVE  IInv'
<1>1. lines' = lines /\ ondisk' = ondisk /\ pc' = pc
  BY OpenKeeps
<1>2. /\ mine' = mine /\ upTo' = upTo /\ pending' = 0 /\ synced' = 0
      /\ torn' = FALSE /\ syncing' = FALSE /\ broken' = FALSE /\ up' = TRUE
      /\ replayed' = {lines[i] : i \in 1 .. ValidLength}
      /\ restarts' = restarts + 1 /\ restarts < MaxRestarts
      /\ flushed' = ValidLength /\ base' = ValidLength
      /\ \A s \in Record : pc'[s] \notin Waiting
  BY <1>1 DEF OpenFile
<1>3. /\ flushed \in 0 .. Len(lines) /\ ondisk \in 0 .. flushed
      /\ lines \in Seq(Record \cup {Garbage}) /\ Len(lines) \in Nat
      /\ restarts \in 0 .. MaxRestarts
  BY DEF IInv, TypeOK
<1>4. ValidLength = Len(lines)
  BY AllGood
<1>5. TypeOK'
  <2>1. replayed' \in SUBSET Record
    <3>1. \A i \in 1 .. Len(lines) : lines[i] \in Record
      BY <1>3 DEF IInv, NoGarbage
    <3>2. QED
      BY <1>2, <1>4, <3>1
  <2>2. restarts' \in 0 .. MaxRestarts
    BY <1>2, <1>3, FileLogAssumption
  <2>3. /\ flushed' \in 0 .. Len(lines') /\ ondisk' \in 0 .. flushed'
        /\ base' \in 0 .. Len(lines') /\ pending' \in Nat /\ synced' \in Nat
    BY <1>1, <1>2, <1>3, <1>4
  <2>4. QED
    BY <1>1, <1>2, <2>1, <2>2, <2>3, Zenon DEF IInv, TypeOK
<1>6. NoGarbage'
  BY <1>1, <1>2 DEF IInv, NoGarbage
<1>7. Counted'
  BY <1>1, <1>2, <1>3, <1>4 DEF Counted
<1>8. InPlace' /\ OneSync'
  BY <1>2 DEF InPlace, OneSync, Waiting
<1>9. AckedSurvive'
  BY <1>1 DEF IInv, AckedSurvive
<1>10. QED
  BY <1>5, <1>6, <1>7, <1>8, <1>9 DEF IInv

-----------------------------------------------------------------------------
(* Every step of the log keeps the invariant. *)
LEMMA NextIInv == IInv /\ [Next]_vars => IInv'
<1> SUFFICES ASSUME IInv, [Next]_vars PROVE IInv'
  OBVIOUS
<1>1. ASSUME NEW r \in Record, AppendRecord(r) PROVE IInv'
  BY <1>1, AppendIInv
<1>2. ASSUME NEW r \in Record, RefuseAppend(r) PROVE IInv'
  BY <1>2, RefuseIInv
<1>3. ASSUME NEW r \in Record, Recheck(r) PROVE IInv'
  BY <1>3, RecheckIInv
<1>4. ASSUME NEW r \in Record, FinishSync(r) PROVE IInv'
  BY <1>4, FinishIInv
<1>5. ASSUME NEW r \in Record, FailSync(r) PROVE IInv'
  BY <1>5, FailIInv
<1>6. CASE Close
  BY <1>6, CloseIInv
<1>7. CASE KillProcess
  <2>1. flushed \in ondisk .. flushed /\ ondisk \in ondisk .. flushed
    BY DEF IInv, TypeOK
  <2>2. Stop(flushed, ondisk)
    BY <1>7 DEF KillProcess
  <2>3. QED
    BY <2>1, <2>2, StopIInv
<1>8. CASE PowerCut
  <2>1. PICK keep \in ondisk .. flushed : Stop(keep, keep)
    BY <1>8 DEF PowerCut
  <2>2. keep \in ondisk .. keep
    BY DEF IInv, TypeOK
  <2>3. QED
    BY <2>1, <2>2, StopIInv
<1>9. CASE OpenFile
  BY <1>9, OpenIInv
<1>10. CASE UNCHANGED vars
  BY <1>10 DEF vars, IInv, TypeOK, NoGarbage, Counted, InPlace, OneSync,
               AckedSurvive
<1>11. QED
  BY <1>1, <1>2, <1>3, <1>4, <1>5, <1>6, <1>7, <1>8, <1>9, <1>10 DEF Next

(* The inductive invariant holds in every reachable state. *)
LEMMA Inductive == Spec => []IInv
BY InitIInv, NextIInv, PTL DEF Spec

(* Every variable of the log keeps its type, for any number of appenders   *)
(* and restarts (FileLog.Append, Close, OpenFile).                         *)
THEOREM TypeCorrect == Spec => []TypeOK
<1>1. IInv => TypeOK
  BY DEF IInv
<1>2. QED
  BY <1>1, Inductive, PTL

(* A record whose Append returned nil is on disk, where a restart reads    *)
(* it, through every kill, power cut and restart (FileLog.Append).         *)
THEOREM NoAckedRecordLost == Spec => []AckedSurvive
<1>1. IInv => AckedSurvive
  BY DEF IInv
<1>2. QED
  BY <1>1, Inductive, PTL

(* There is at most one sync at a time, and the syncing flag says whether  *)
(* there is one (FileLog.Append).                                          *)
THEOREM SyncsAlone == Spec => []OneSync
<1>1. IInv => OneSync
  BY DEF IInv
<1>2. QED
  BY <1>1, Inductive, PTL

-----------------------------------------------------------------------------
(* Sequences cut in two at d: what the refinement mapping is built of. *)
LEMMA CutSeq ==
  ASSUME NEW S, NEW s \in Seq(S), NEW d \in 0 .. Len(s)
  PROVE  /\ SubSeq(s, 1, d) \in Seq(S) /\ Len(SubSeq(s, 1, d)) = d
         /\ \A i \in 1 .. d : SubSeq(s, 1, d)[i] = s[i]
         /\ SubSeq(s, d + 1, Len(s)) \in Seq(S)
         /\ Len(SubSeq(s, d + 1, Len(s))) = Len(s) - d
         /\ SubSeq(s, 1, d) \o SubSeq(s, d + 1, Len(s)) = s
<1>1. Len(s) \in Nat /\ d \in Nat
  OBVIOUS
<1>2. /\ SubSeq(s, 1, d) \in Seq(S) /\ Len(SubSeq(s, 1, d)) = d
      /\ \A i \in 1 .. d : SubSeq(s, 1, d)[i] = s[i]
  BY <1>1
<1>3. /\ SubSeq(s, d + 1, Len(s)) \in Seq(S)
      /\ Len(SubSeq(s, d + 1, Len(s))) = Len(s) - d
  BY <1>1
<1>4. SubSeq(s, 1, d) \o SubSeq(s, d + 1, Len(s)) = s
  <2>1. /\ 1 \in 1 .. Len(s) + 1 /\ d \in 1 - 1 .. Len(s)
        /\ Len(s) \in d .. Len(s)
    BY <1>1
  <2>2. SubSeq(s, 1, d) \o SubSeq(s, d + 1, Len(s)) = SubSeq(s, 1, Len(s))
    BY <2>1, ConcatAdjacentSubSeq
  <2>3. QED
    BY <2>2, SubSeqFull
<1>5. QED
  BY <1>2, <1>3, <1>4

(* A longer file cut at the same place has the new line in its tail. *)
LEMMA CutAppend ==
  ASSUME NEW S, NEW s \in Seq(S), NEW e \in S, NEW d \in 0 .. Len(s)
  PROVE  /\ SubSeq(Append(s, e), 1, d) = SubSeq(s, 1, d)
         /\ SubSeq(Append(s, e), d + 1, Len(s) + 1)
                = Append(SubSeq(s, d + 1, Len(s)), e)
<1> DEFINE t == Append(s, e)
<1>1. /\ t \in Seq(S) /\ Len(t) = Len(s) + 1 /\ Len(s) \in Nat /\ d \in Nat
      /\ \A i \in 1 .. Len(s) : t[i] = s[i]
      /\ t[Len(s) + 1] = e
  OBVIOUS
<1> HIDE DEF t
<1>2. SubSeq(t, 1, d) = SubSeq(s, 1, d)
  <2>1. /\ SubSeq(t, 1, d) \in Seq(S) /\ Len(SubSeq(t, 1, d)) = d
        /\ \A i \in 1 .. d : SubSeq(t, 1, d)[i] = t[i]
    BY <1>1, CutSeq
  <2>2. /\ SubSeq(s, 1, d) \in Seq(S) /\ Len(SubSeq(s, 1, d)) = d
        /\ \A i \in 1 .. d : SubSeq(s, 1, d)[i] = s[i]
    BY CutSeq
  <2>3. QED
    BY <1>1, <2>1, <2>2, SeqEqual
<1>3. SubSeq(t, d + 1, Len(s) + 1) = Append(SubSeq(s, d + 1, Len(s)), e)
  <2> DEFINE u == SubSeq(t, d + 1, Len(s) + 1)
             v == SubSeq(s, d + 1, Len(s))
  <2>1. /\ u \in Seq(S) /\ Len(u) = Len(s) + 1 - d
        /\ \A i \in 1 .. Len(s) + 1 - d : u[i] = t[d + i]
    BY <1>1
  <2>2. /\ v \in Seq(S) /\ Len(v) = Len(s) - d
        /\ \A i \in 1 .. Len(s) - d : v[i] = s[d + i]
    BY <1>1
  <2> HIDE DEF u, v
  <2>3. /\ Append(v, e) \in Seq(S) /\ Len(Append(v, e)) = Len(s) + 1 - d
        /\ \A i \in 1 .. Len(s) - d : Append(v, e)[i] = v[i]
        /\ Append(v, e)[Len(s) + 1 - d] = e
    BY <1>1, <2>2, AppendProperties
  <2>4. ASSUME NEW i \in 1 .. Len(s) + 1 - d PROVE u[i] = Append(v, e)[i]
    <3>1. CASE i = Len(s) + 1 - d
      BY <1>1, <2>1, <2>3, <3>1
    <3>2. CASE i # Len(s) + 1 - d
      <4>1. i \in 1 .. Len(s) - d /\ d + i \in 1 .. Len(s)
        BY <1>1, <3>2
      <4>2. QED
        BY <4>1, <1>1, <2>1, <2>2, <2>3
    <3>3. QED
      BY <3>1, <3>2
  <2>5. u = Append(v, e)
    BY <2>1, <2>3, <2>4, SeqEqual
  <2>6. QED
    BY <2>5 DEF u, v
<1>4. QED
  BY <1>2, <1>3 DEF t

(* What is left of the file up to line k, cut at d + h instead of d. *)
LEMMA CutLater ==
  ASSUME NEW S, NEW s \in Seq(S), NEW d \in 0 .. Len(s),
         NEW k \in 0 .. Len(s) - d, NEW h \in 0 .. k
  PROVE  /\ SubSeq(SubSeq(s, 1, d + k), 1, d + h)
               = SubSeq(s, 1, d) \o SubSeq(SubSeq(s, d + 1, Len(s)), 1, h)
         /\ SubSeq(SubSeq(s, 1, d + k), d + h + 1, d + k)
               = SubSeq(SubSeq(s, d + 1, Len(s)), h + 1, k)
<1> DEFINE p == SubSeq(s, 1, d + k)
           a == SubSeq(s, 1, d)
           b == SubSeq(s, d + 1, Len(s))
<1>1. Len(s) \in Nat /\ d \in Nat /\ k \in Nat /\ h \in Nat /\ d + k <= Len(s)
  OBVIOUS
<1>2. /\ p \in Seq(S) /\ Len(p) = d + k
      /\ \A i \in 1 .. d + k : p[i] = s[i]
  BY <1>1
<1>3. /\ a \in Seq(S) /\ Len(a) = d
      /\ \A i \in 1 .. d : a[i] = s[i]
  BY <1>1
<1>4. /\ b \in Seq(S) /\ Len(b) = Len(s) - d
      /\ \A i \in 1 .. Len(s) - d : b[i] = s[d + i]
  BY <1>1
<1> HIDE DEF p, a, b
<1>5. SubSeq(p, 1, d + h) = a \o SubSeq(b, 1, h)
  <2> DEFINE u == SubSeq(p, 1, d + h)
             v == SubSeq(b, 1, h)
             w == a \o v
  <2>1. /\ u \in Seq(S) /\ Len(u) = d + h
        /\ \A i \in 1 .. d + h : u[i] = s[i]
    BY <1>1, <1>2
  <2>2. /\ v \in Seq(S) /\ Len(v) = h
        /\ \A i \in 1 .. h : v[i] = s[d + i]
    BY <1>1, <1>4
  <2> HIDE DEF u, v
  <2>3. /\ w \in Seq(S) /\ Len(w) = d + h
        /\ \A i \in 1 .. d + h : w[i] = IF i <= d THEN a[i] ELSE v[i - d]
    <3>1. d \in Nat /\ h \in Nat /\ a \in Seq(S) /\ v \in Seq(S)
      BY <1>1, <1>3, <2>2
    <3>2. /\ w \in Seq(S) /\ Len(w) = Len(a) + Len(v)
          /\ \A i \in 1 .. Len(a) + Len(v) : w[i] = IF i <= Len(a) THEN a[i] ELSE v[i - Len(a)]
      BY <3>1, ConcatProperties
    <3>3. QED
      BY <1>3, <2>2, <3>2
  <2> HIDE DEF w
  <2>4. ASSUME NEW i \in 1 .. d + h PROVE u[i] = w[i]
    <3>1. CASE i <= d
      <4>1. i \in 1 .. d
        BY <1>1, <3>1
      <4>2. u[i] = s[i] /\ w[i] = a[i]
        BY <2>1, <2>3, <3>1
      <4>3. a[i] = s[i]
        BY <1>3, <4>1
      <4>4. QED
        BY <4>2, <4>3
    <3>2. CASE i > d
      <4>1. i - d \in 1 .. h /\ d + (i - d) = i /\ ~(i <= d)
        BY <1>1, <3>2
      <4>2. u[i] = s[i] /\ w[i] = v[i - d]
        BY <2>1, <2>3, <4>1
      <4>3. v[i - d] = s[d + (i - d)]
        BY <2>2, <4>1
      <4>4. QED
        BY <4>1, <4>2, <4>3
    <3>3. QED
      BY <1>1, <3>1, <3>2
  <2>5. u = w
    BY <2>1, <2>3, <2>4, SeqEqual
  <2>6. QED
    BY <2>5 DEF u, v, w
<1>6. SubSeq(p, d + h + 1, d + k) = SubSeq(b, h + 1, k)
  <2> DEFINE u == SubSeq(p, d + h + 1, d + k)
             v == SubSeq(b, h + 1, k)
  <2>1. /\ u \in Seq(S) /\ Len(u) = k - h
        /\ \A i \in 1 .. k - h : u[i] = s[d + h + i]
    <3>1. u \in Seq(S) /\ Len(u) = k - h
      BY <1>1, <1>2
    <3>2. ASSUME NEW i \in 1 .. k - h PROVE u[i] = s[d + h + i]
      <4>1. d + h + i \in 1 .. d + k
        BY <1>1
      <4>2. u[i] = p[d + h + i]
        BY <1>1, <1>2, <4>1
      <4>3. QED
        BY <1>2, <4>1, <4>2
    <3>3. QED
      BY <3>1, <3>2
  <2>2. /\ v \in Seq(S) /\ Len(v) = k - h
        /\ \A i \in 1 .. k - h : v[i] = s[d + (h + i)]
    <3>1. v \in Seq(S) /\ Len(v) = k - h
      BY <1>1, <1>4
    <3>2. ASSUME NEW i \in 1 .. k - h PROVE v[i] = s[d + (h + i)]
      <4>1. h + i \in 1 .. Len(s) - d
        BY <1>1
      <4>2. v[i] = b[h + i]
        BY <1>1, <1>4, <4>1
      <4>3. QED
        BY <1>4, <4>1, <4>2
    <3>3. QED
      BY <3>1, <3>2
  <2> HIDE DEF u, v
  <2>3. ASSUME NEW i \in 1 .. k - h PROVE u[i] = v[i]
    <3>1. d + h + i = d + (h + i)
      BY <1>1
    <3>2. u[i] = s[d + h + i] /\ v[i] = s[d + (h + i)]
      BY <2>1, <2>2
    <3>3. QED
      BY <3>1, <3>2
  <2>4. u = v
    BY <2>1, <2>2, <2>3, SeqEqual
  <2>5. QED
    BY <2>4 DEF u, v
<1>7. QED
  BY <1>5, <1>6 DEF p, a, b

-----------------------------------------------------------------------------
(* A record whose Append has not begun is nowhere in the file. *)
Unwritten ==
    \A r \in Record : pc[r] = "new" => \A i \in 1 .. Len(lines) : lines[i] # r

(* Nothing but its own Append writes a record. *)
LEMMA NextUnwritten ==
  ASSUME IInv, Unwritten, [Next]_vars
  PROVE  Unwritten'
<1> USE DEF Unwritten
<1>1. /\ lines \in Seq(Record \cup {Garbage}) /\ Len(lines) \in Nat
      /\ flushed \in 0 .. Len(lines) /\ ondisk \in 0 .. flushed
      /\ pc \in [Record -> Status]
  BY DEF IInv, TypeOK
<1>2. ASSUME NEW r \in Record, AppendRecord(r) PROVE Unwritten'
  <2>1. lines' = Append(lines, r)
    BY <1>2 DEF AppendRecord, Written, IInv, NoGarbage
  <2>2. /\ Len(lines') = Len(lines) + 1
        /\ \A i \in 1 .. Len(lines) : lines'[i] = lines[i]
        /\ lines'[Len(lines) + 1] = r
    BY <1>1, <2>1
  <2>3. /\ pc'[r] # "new"
        /\ \A s \in Record \ {r} : pc'[s] = pc[s]
    BY <1>1, <1>2 DEF AppendRecord
  <2>4. ASSUME NEW s \in Record, pc'[s] = "new", NEW i \in 1 .. Len(lines')
        PROVE  lines'[i] # s
    <3>1. s # r /\ pc[s] = "new"
      BY <2>3, <2>4
    <3>2. CASE i = Len(lines) + 1
      BY <2>2, <3>1, <3>2
    <3>3. CASE i # Len(lines) + 1
      <4>1. i \in 1 .. Len(lines)
        BY <1>1, <2>2, <3>3
      <4>2. QED
        BY <2>2, <3>1, <4>1
    <3>4. QED
      BY <3>2, <3>3
  <2>5. QED
    BY <2>4
<1>3. ASSUME lines' = lines, \A s \in Record : pc'[s] = "new" => pc[s] = "new"
      PROVE  Unwritten'
  BY <1>3
<1>4. ASSUME NEW r \in Record, RefuseAppend(r) PROVE Unwritten'
  <2>1. lines' = lines
    BY <1>4 DEF RefuseAppend
  <2>2. \A s \in Record : pc'[s] = "new" => pc[s] = "new"
    BY <1>1, <1>4 DEF RefuseAppend, Woken
  <2>3. QED
    BY <1>3, <2>1, <2>2
<1>5. ASSUME NEW r \in Record, Recheck(r) PROVE Unwritten'
  <2>1. lines' = lines
    BY <1>5 DEF Recheck
  <2>2. \A s \in Record : pc'[s] = "new" => pc[s] = "new"
    BY <1>1, <1>5 DEF Recheck
  <2>3. QED
    BY <1>3, <2>1, <2>2
<1>6. ASSUME NEW r \in Record, FinishSync(r) \/ FailSync(r) PROVE Unwritten'
  <2>1. lines' = lines
    BY <1>6 DEF FinishSync, FailSync
  <2>2. \A s \in Record : pc'[s] = "new" => pc[s] = "new"
    BY <1>1, <1>6 DEF FinishSync, FailSync, Woken
  <2>3. QED
    BY <1>3, <2>1, <2>2
<1>7. CASE Close
  <2>1. lines' = lines
    BY <1>7 DEF Close
  <2>2. \A s \in Record : pc'[s] = "new" => pc[s] = "new"
    BY <1>7 DEF Close, Woken
  <2>3. QED
    BY <1>3, <2>1, <2>2
<1>8. ASSUME NEW keep \in 0 .. Len(lines), NEW n, Stop(keep, n)
      PROVE  Unwritten'
  <2>1. lines' = SubSeq(lines, 1, keep) /\ pc' = Lost(pc)
    BY <1>8 DEF Stop
  <2>2. Len(lines') = keep /\ \A i \in 1 .. keep : lines'[i] = lines[i]
    BY <1>1, <2>1
  <2>3. \A s \in Record : pc'[s] = "new" => pc[s] = "new"
    BY <1>1, <2>1 DEF Lost
  <2>4. QED
    BY <1>1, <2>2, <2>3
<1>9. CASE KillProcess
  BY <1>1, <1>8, <1>9 DEF KillProcess
<1>10. CASE PowerCut
  <2>1. PICK keep \in ondisk .. flushed : Stop(keep, keep)
    BY <1>10 DEF PowerCut
  <2>2. keep \in 0 .. Len(lines)
    BY <1>1
  <2>3. QED
    BY <1>8, <2>1, <2>2
<1>11. CASE OpenFile
  BY <1>11, OpenKeeps
<1>12. CASE UNCHANGED vars
  BY <1>12 DEF vars
<1>13. QED
  BY <1>2, <1>4, <1>5, <1>6, <1>7, <1>9, <1>10, <1>11, <1>12 DEF Next

-----------------------------------------------------------------------------
(* The file as the abstract log sees it. *)
safe  == SubSeq(lines, 1, ondisk)
tail  == SubSeq(lines, ondisk + 1, Len(lines))
acked == {r \in Record : pc[r] = "acked"}

(* What the two parts of a file of good lines are. *)
LEMMA Parts ==
  ASSUME IInv
  PROVE  /\ safe \in Seq(Record) /\ Len(safe) = ondisk
         /\ \A i \in 1 .. ondisk : safe[i] = lines[i]
         /\ tail \in Seq(Record) /\ Len(tail) = Len(lines) - ondisk
         /\ safe \o tail = lines
         /\ lines \in Seq(Record) /\ Len(lines) \in Nat
         /\ ondisk \in 0 .. Len(lines)
<1>1. /\ lines \in Seq(Record \cup {Garbage}) /\ Len(lines) \in Nat
      /\ ondisk \in 0 .. Len(lines)
  BY DEF IInv, TypeOK
<1>2. \A i \in 1 .. Len(lines) : lines[i] \in Record
  BY <1>1 DEF IInv, NoGarbage
<1>3. lines \in Seq(Record)
  BY <1>1, <1>2
<1>4. QED
  BY <1>1, <1>3, CutSeq DEF safe, tail

(* A record that is acknowledged is in the part that is safe. *)
LEMMA AckedSafe == IInv => acked \subseteq Promise!ToSet(safe)
<1> SUFFICES ASSUME IInv, NEW r \in Record, pc[r] = "acked"
             PROVE  r \in Promise!ToSet(safe)
  BY DEF acked
<1>1. PICK i \in 1 .. ondisk : lines[i] = r
  BY DEF IInv, AckedSurvive
<1>2. i \in DOMAIN safe /\ safe[i] = r
  BY <1>1, Parts
<1>3. QED
  BY <1>2 DEF Promise!ToSet

(* A step that leaves the lines alone, may find more of them safe, and     *)
(* takes no acknowledgement back, is a Harden of the abstract log.         *)
LEMMA HardenStep ==
  ASSUME IInv, IInv', lines' = lines, ondisk <= ondisk',
         \A r \in Record : pc[r] = "acked" => pc'[r] = "acked"
  PROVE  Promise!Harden
<1>1. /\ lines \in Seq(Record) /\ Len(lines) \in Nat
      /\ Len(tail) = Len(lines) - ondisk /\ ondisk \in 0 .. Len(lines)
  BY Parts
<1>2. ondisk' \in Nat /\ ondisk <= ondisk' /\ ondisk' <= Len(lines)
  BY <1>1 DEF IInv, TypeOK
<1>3. PICK n \in 0 .. Len(tail) : ondisk' = ondisk + n
  <2>1. ASSUME NEW x \in Nat, ondisk <= x, x <= Len(lines)
        PROVE  \E n \in 0 .. Len(tail) : x = ondisk + n
    <3>1. x - ondisk \in 0 .. Len(tail) /\ x = ondisk + (x - ondisk)
      BY <1>1, <2>1
    <3>2. QED
      BY <3>1
  <2>2. QED
    BY <1>2, <2>1
<1>4. /\ SubSeq(lines, 1, ondisk + n) = safe \o SubSeq(tail, 1, n)
      /\ SubSeq(lines, ondisk + n + 1, Len(lines)) = SubSeq(tail, n + 1, Len(tail))
  <2>1. /\ ondisk \in Nat /\ n \in 0 .. Len(lines) - ondisk
        /\ Len(tail) \in 0 .. Len(lines) - ondisk
        /\ ondisk + Len(tail) = Len(lines)
    BY <1>1
  <2>2. SubSeq(lines, 1, ondisk + Len(tail)) = lines
    BY <1>1, <2>1
  <2>3. /\ SubSeq(SubSeq(lines, 1, ondisk + Len(tail)), 1, ondisk + n)
               = SubSeq(lines, 1, ondisk) \o SubSeq(SubSeq(lines, ondisk + 1, Len(lines)), 1, n)
        /\ SubSeq(SubSeq(lines, 1, ondisk + Len(tail)), ondisk + n + 1, ondisk + Len(tail))
               = SubSeq(SubSeq(lines, ondisk + 1, Len(lines)), n + 1, Len(tail))
    BY <1>1, <2>1, CutLater
  <2>4. QED
    BY <2>1, <2>2, <2>3 DEF safe, tail
<1>5. safe' = safe \o SubSeq(tail, 1, n) /\ tail' = SubSeq(tail, n + 1, Len(tail))
  BY <1>3, <1>4 DEF safe, tail
<1>6. acked \subseteq acked'
  BY DEF acked
<1>7. acked' \subseteq Promise!ToSet(safe')
  <2>1. (IInv => acked \subseteq Promise!ToSet(safe))'
    BY AckedSafe, PTL
  <2>2. QED
    BY <2>1 DEF Promise!ToSet
<1>8. /\ n \in 0 .. Len(tail)
      /\ safe' = safe \o SubSeq(tail, 1, n)
      /\ tail' = SubSeq(tail, n + 1, Len(tail))
      /\ acked \subseteq acked'
      /\ acked' \subseteq acked \cup Promise!ToSet(safe')
  BY <1>5, <1>6, <1>7
<1>9. QED
  BY <1>8 DEF Promise!Harden, safe, tail, acked

-----------------------------------------------------------------------------
(* Each step of the file is a step of the abstract log, or none of it.     *)
LEMMA Simulated ==
  ASSUME IInv, IInv', Unwritten, [Next]_vars
  PROVE  [Promise!Next]_(Promise!vars)
<1>1. ASSUME UNCHANGED <<lines, ondisk, acked>> PROVE UNCHANGED Promise!vars
  BY <1>1 DEF Promise!vars, acked
<1>2. pc \in [Record -> Status]
  BY DEF IInv, TypeOK
<1>3. ASSUME NEW r \in Record, AppendRecord(r) PROVE Promise!Write(r)
  <2>1. /\ lines' = Append(lines, r) /\ ondisk' = ondisk
        /\ pc[r] = "new" /\ pc'[r] \in Waiting
        /\ \A s \in Record \ {r} : pc'[s] = pc[s]
    BY <1>2, <1>3 DEF AppendRecord, Written, IInv, NoGarbage, Waiting
  <2>2. acked' = acked /\ r \notin acked
    BY <2>1 DEF acked, Waiting
  <2>3. /\ lines \in Seq(Record) /\ Len(lines) \in Nat /\ ondisk \in 0 .. Len(lines)
        /\ safe \o tail = lines /\ Len(lines') = Len(lines) + 1
    BY <2>1, Parts
  <2>4. safe' = safe /\ tail' = Append(tail, r)
    BY <2>1, <2>3, CutAppend DEF safe, tail
  <2>5. r \notin Promise!ToSet(safe \o tail)
    BY <2>1, <2>3 DEF Promise!ToSet, Unwritten
  <2>6. QED
    BY <2>2, <2>4, <2>5 DEF Promise!Write, safe, tail, acked
<1>4. ASSUME NEW r \in Record, RefuseAppend(r) PROVE UNCHANGED Promise!vars
  <2>1. \A s \in Record : pc'[s] = "acked" <=> pc[s] = "acked"
    BY <1>2, <1>4 DEF RefuseAppend, Woken
  <2>2. lines' = lines /\ ondisk' = ondisk
    BY <1>4 DEF RefuseAppend
  <2>3. QED
    BY <1>1, <2>1, <2>2 DEF acked
<1>5. ASSUME NEW r \in Record, Recheck(r) PROVE Promise!Harden
  <2>1. \A s \in Record : pc[s] = "acked" => pc'[s] = "acked"
    BY <1>2, <1>5 DEF Recheck
  <2>2. lines' = lines /\ ondisk' = ondisk /\ ondisk \in Nat
    BY <1>5 DEF Recheck, IInv, TypeOK
  <2>3. QED
    BY <2>1, <2>2, HardenStep
<1>6. ASSUME NEW r \in Record, FinishSync(r) PROVE Promise!Harden
  <2>1. \A s \in Record : pc[s] = "acked" => pc'[s] = "acked"
    BY <1>2, <1>6 DEF FinishSync, Woken
  <2>2. ondisk \in Nat /\ base \in Nat /\ upTo[r] \in Nat
    BY DEF IInv, TypeOK
  <2>3. lines' = lines /\ ondisk <= ondisk'
    BY <1>6, <2>2 DEF FinishSync
  <2>4. QED
    BY <2>1, <2>3, HardenStep
<1>7. ASSUME NEW r \in Record, FailSync(r) PROVE UNCHANGED Promise!vars
  <2>1. \A s \in Record : pc'[s] = "acked" <=> pc[s] = "acked"
    BY <1>2, <1>7 DEF FailSync, Woken
  <2>2. lines' = lines /\ ondisk' = ondisk
    BY <1>7 DEF FailSync
  <2>3. QED
    BY <1>1, <2>1, <2>2 DEF acked
<1>8. ASSUME Close PROVE Promise!Harden
  <2>1. \A s \in Record : pc[s] = "acked" => pc'[s] = "acked"
    BY <1>8 DEF Close, Woken
  <2>2. lines' = lines /\ ondisk <= ondisk'
    BY <1>8 DEF Close, IInv, TypeOK
  <2>3. QED
    BY <2>1, <2>2, HardenStep
<1>9. ASSUME NEW keep \in ondisk .. flushed, NEW m \in ondisk .. keep, Stop(keep, m)
      PROVE  Promise!Crash
  <2>1. acked' = acked
    BY <1>9, <1>2 DEF Stop, Lost, Waiting, acked
  <2>2. /\ lines \in Seq(Record) /\ Len(lines) \in Nat /\ ondisk \in 0 .. Len(lines)
        /\ Len(tail) = Len(lines) - ondisk /\ flushed \in 0 .. Len(lines)
    BY Parts DEF IInv, TypeOK
  <2>3. PICK k \in 0 .. Len(tail) : keep = ondisk + k
    <3>1. keep - ondisk \in 0 .. Len(tail) /\ keep = ondisk + (keep - ondisk)
      BY <2>2
    <3>2. QED
      BY <3>1
  <2>4. PICK h \in 0 .. k : m = ondisk + h
    <3>1. m - ondisk \in 0 .. k /\ m = ondisk + (m - ondisk)
      BY <2>2, <2>3
    <3>2. QED
      BY <3>1
  <2>5. lines' = SubSeq(lines, 1, ondisk + k) /\ ondisk' = ondisk + h
        /\ Len(lines') = ondisk + k
    BY <1>9, <2>2, <2>3, <2>4 DEF Stop
  <2>6. k \in 0 .. Len(lines) - ondisk
    BY <2>2, <2>3
  <2>7. /\ SubSeq(SubSeq(lines, 1, ondisk + k), 1, ondisk + h)
               = SubSeq(lines, 1, ondisk) \o SubSeq(SubSeq(lines, ondisk + 1, Len(lines)), 1, h)
        /\ SubSeq(SubSeq(lines, 1, ondisk + k), ondisk + h + 1, ondisk + k)
               = SubSeq(SubSeq(lines, ondisk + 1, Len(lines)), h + 1, k)
    BY <2>2, <2>4, <2>6, CutLater
  <2>8. safe' = safe \o SubSeq(tail, 1, h) /\ tail' = SubSeq(tail, h + 1, k)
    BY <2>5, <2>7 DEF safe, tail
  <2>9. QED
    BY <2>1, <2>3, <2>4, <2>8 DEF Promise!Crash, safe, tail, acked
<1>10. ASSUME KillProcess PROVE Promise!Crash
  <2>1. flushed \in ondisk .. flushed /\ ondisk \in ondisk .. flushed
    BY DEF IInv, TypeOK
  <2>2. Stop(flushed, ondisk)
    BY <1>10 DEF KillProcess
  <2>3. QED
    BY <1>9, <2>1, <2>2
<1>11. ASSUME PowerCut PROVE Promise!Crash
  <2>1. PICK keep \in ondisk .. flushed : Stop(keep, keep)
    BY <1>11 DEF PowerCut
  <2>2. keep \in ondisk .. keep
    BY DEF IInv, TypeOK
  <2>3. QED
    BY <1>9, <2>1, <2>2
<1>12. ASSUME OpenFile PROVE UNCHANGED Promise!vars
  BY <1>1, <1>12, OpenKeeps DEF acked
<1>13. ASSUME UNCHANGED vars PROVE UNCHANGED Promise!vars
  BY <1>1, <1>13 DEF vars, acked
<1>14. QED
  BY <1>3, <1>4, <1>5, <1>6, <1>7, <1>8, <1>10, <1>11, <1>12, <1>13
  DEF Next, Promise!Next

(* The file keeps the promise of a Log, step by step: a written record     *)
(* joins the tail, a sync or a close makes a part of it safe and answers   *)
(* for it, a crash drops some of the tail and nothing else (FileLog.Append,*)
(* Close and OpenFile against the Log interface).                          *)
THEOREM KeepsPromise == Spec => ImplementsDurableLog
<1>1. Init => Promise!Init /\ Unwritten
  BY DEF Init, Promise!Init, Unwritten
<1>2. IInv /\ Unwritten /\ [Next]_vars => Unwritten'
  BY NextUnwritten
<1>3. IInv /\ IInv' /\ Unwritten /\ [Next]_vars => [Promise!Next]_(Promise!vars)
  BY Simulated
<1>4. QED
  BY <1>1, <1>2, <1>3, Inductive, PTL
  DEF Spec, ImplementsDurableLog, Promise!Spec

-----------------------------------------------------------------------------

(* The records of the log. *)
Users   == [kind : {"user"}, id : Team, status : {"new", "warned"}, admin : BOOLEAN]
Trades  == [kind : {"trade"}, id : Team, price : Price]
Prices  == [kind : {"prices"}, price : Price]
Clocks  == [kind : {"clock"}, value : Nat]
Pauses  == [kind : {"pause"}, id : Company, on : BOOLEAN]
Resets  == [kind : {"reset"}, everything : BOOLEAN]
Records == Users \cup Trades \cup Prices \cup Clocks \cup Pauses \cup Resets

-----------------------------------------------------------------------------
(* Effect after effect: f gives the state for every set of the records' places. *)
Unfolds(b, s, n, f) ==
    f = [d \in SUBSET (1 .. n) |->
            IF d = {} THEN b ELSE Effect(f[d \ {Max(d)}], s[Max(d)])]

LEMMA EffectsExist ==
  ASSUME NEW b, NEW R, NEW s \in Seq(R)
  PROVE  \E f : Unfolds(b, s, Len(s), f)
<1> DEFINE N == {n \in Nat : \E f : Unfolds(b, s, n, f)}
<1>1. 0 \in N
  <2> DEFINE f == [d \in {{}} |-> b]
  <2>1. 1 .. 0 = {} /\ SUBSET {} = {{}}
    OBVIOUS
  <2>2. Unfolds(b, s, 0, f)
    BY <2>1 DEF Unfolds
  <2>3. QED
    BY <2>2
<1>2. ASSUME NEW n \in Nat, n \in N PROVE n + 1 \in N
  <2>1. PICK f : Unfolds(b, s, n, f)
    BY <1>2
  <2> DEFINE g == [d \in SUBSET (1 .. n + 1) |->
                      IF n + 1 \in d THEN Effect(f[d \ {n + 1}], s[n + 1]) ELSE f[d]]
  <2>2. ASSUME NEW d \in SUBSET (1 .. n + 1)
        PROVE  g[d] = IF d = {} THEN b ELSE Effect(g[d \ {Max(d)}], s[Max(d)])
    <3>1. CASE n + 1 \in d
      <4>1. Max(d) = n + 1
        BY <3>1, Largest
      <4>2. d \ {n + 1} \in SUBSET (1 .. n + 1) /\ n + 1 \notin d \ {n + 1}
        OBVIOUS
      <4>3. g[d \ {n + 1}] = f[d \ {n + 1}]
        BY <4>2
      <4>4. g[d] = Effect(f[d \ {n + 1}], s[n + 1])
        BY <3>1
      <4>5. QED
        BY <3>1, <4>1, <4>3, <4>4
    <3>2. CASE n + 1 \notin d
      <4>1. d \in SUBSET (1 .. n) /\ g[d] = f[d]
        BY <3>2
      <4>2. f[d] = IF d = {} THEN b ELSE Effect(f[d \ {Max(d)}], s[Max(d)])
        BY <2>1, <4>1 DEF Unfolds
      <4>3. d \ {Max(d)} \in SUBSET (1 .. n + 1) /\ n + 1 \notin d \ {Max(d)}
        BY <3>2
      <4>4. g[d \ {Max(d)}] = f[d \ {Max(d)}]
        BY <4>3
      <4>5. QED
        BY <4>1, <4>2, <4>4
    <3>3. QED
      BY <3>1, <3>2
  <2>3. DOMAIN g = SUBSET (1 .. n + 1) /\ g = [d \in SUBSET (1 .. n + 1) |-> g[d]]
    OBVIOUS
  <2> HIDE DEF g
  <2>4. Unfolds(b, s, n + 1, g)
    BY <2>2, <2>3 DEF Unfolds
  <2>5. QED
    BY <2>4
<1> HIDE DEF N
<1>3. Len(s) \in N
  BY <1>1, <1>2, Numbers
<1>4. QED
  BY <1>3 DEF N

(* What the records of s make of the state b. *)
Outcome(b, s) == FoldLeft(Effect, b, s)

Runs(b, s, f) ==
    /\ f[{}] = b /\ Outcome(b, s) = f[1 .. Len(s)]
    /\ \A k \in 1 .. Len(s) : f[1 .. k] = Effect(f[1 .. k - 1], s[k])

LEMMA EffectsAre ==
  ASSUME NEW b, NEW R, NEW s \in Seq(R)
  PROVE  \E f : Runs(b, s, f)
<1>1. PICK f : /\ f = CHOOSE h : h = [d \in SUBSET (DOMAIN s) |->
                            IF d = {} THEN b ELSE Effect(h[d \ {Max(d)}], s[Max(d)])]
  OBVIOUS
<1>2. Unfolds(b, s, Len(s), f)
  <2>1. PICK h : Unfolds(b, s, Len(s), h)
    BY EffectsExist
  <2>2. DOMAIN s = 1 .. Len(s)
    OBVIOUS
  <2>3. h = [d \in SUBSET (DOMAIN s) |->
               IF d = {} THEN b ELSE Effect(h[d \ {Max(d)}], s[Max(d)])]
    BY <2>1, <2>2 DEF Unfolds
  <2>4. f = [d \in SUBSET (DOMAIN s) |->
               IF d = {} THEN b ELSE Effect(f[d \ {Max(d)}], s[Max(d)])]
    BY <1>1, <2>3
  <2>5. QED
    BY <2>2, <2>4 DEF Unfolds
<1>3. Outcome(b, s) = f[DOMAIN s]
  BY <1>1 DEF Outcome, FoldLeft, MapThenFoldSet
<1>4. DOMAIN s = 1 .. Len(s) /\ Len(s) \in Nat
  OBVIOUS
<1>5. f[{}] = b
  BY <1>2 DEF Unfolds
<1>6. ASSUME NEW k \in 1 .. Len(s) PROVE f[1 .. k] = Effect(f[1 .. k - 1], s[k])
  <2>1. /\ (1 .. k) \ {k} = 1 .. k - 1 /\ 1 .. k # {}
        /\ 1 .. k \in SUBSET (1 .. Len(s)) /\ Max(1 .. k) = k
    BY <1>4, UpTo
  <2>2. \A d \in SUBSET (1 .. Len(s)) :
           f[d] = IF d = {} THEN b ELSE Effect(f[d \ {Max(d)}], s[Max(d)])
    BY <1>2, <1>4 DEF Unfolds
  <2>3. QED
    BY <2>1, <2>2
<1>7. Runs(b, s, f)
  BY <1>3, <1>4, <1>5, <1>6 DEF Runs
<1>8. QED
  BY <1>7

(* A log's effect is made record by record. *)
LEMMA EffectSteps ==
  ASSUME NEW b, NEW R
  PROVE  /\ Outcome(b, <<>>) = b
         /\ \A s \in Seq(R), x \in R :
               Outcome(b, Append(s, x)) = Effect(Outcome(b, s), x)
<1>1. Outcome(b, <<>>) = b
  <2>1. <<>> \in Seq(R) /\ Len(<<>>) = 0 /\ 1 .. 0 = {}
    OBVIOUS
  <2>2. PICK f : Runs(b, <<>>, f)
    BY <2>1, EffectsAre
  <2>3. QED
    BY <2>1, <2>2 DEF Runs
<1>2. ASSUME NEW s \in Seq(R), NEW x \in R
      PROVE  Outcome(b, Append(s, x)) = Effect(Outcome(b, s), x)
  <2>1. PICK t : t = Append(s, x)
    OBVIOUS
  <2>2. /\ t \in Seq(R) /\ Len(s) \in Nat /\ Len(t) = Len(s) + 1 /\ t[Len(s) + 1] = x
        /\ \A k \in 1 .. Len(s) : t[k] = s[k]
    BY <2>1
  <2>3. PICK f : Runs(b, s, f)
    BY EffectsAre
  <2>4. PICK g : Runs(b, t, g)
    BY <2>2, EffectsAre
  <2> DEFINE N == {n \in Nat : n <= Len(s) => f[1 .. n] = g[1 .. n]}
  <2>5. 0 \in N
    <3>1. 1 .. 0 = {}
      OBVIOUS
    <3>2. QED
      BY <2>3, <2>4, <3>1 DEF Runs
  <2>6. ASSUME NEW n \in Nat, n \in N PROVE n + 1 \in N
    <3> SUFFICES ASSUME n + 1 <= Len(s) PROVE f[1 .. n + 1] = g[1 .. n + 1]
      OBVIOUS
    <3>1. /\ n + 1 \in 1 .. Len(s) /\ n + 1 \in 1 .. Len(t) /\ (n + 1) - 1 = n
          /\ n <= Len(s)
      BY <2>2
    <3>2. f[1 .. n] = g[1 .. n]
      BY <2>6, <3>1
    <3>3. f[1 .. n + 1] = Effect(f[1 .. n], s[n + 1])
      BY <2>3, <3>1 DEF Runs
    <3>4. g[1 .. n + 1] = Effect(g[1 .. n], t[n + 1])
      BY <2>4, <3>1 DEF Runs
    <3>5. t[n + 1] = s[n + 1]
      BY <2>2, <3>1
    <3>6. QED
      BY <3>2, <3>3, <3>4, <3>5
  <2> HIDE DEF N
  <2>7. Len(s) \in N
    BY <2>2, <2>5, <2>6, Numbers
  <2>8. f[1 .. Len(s)] = g[1 .. Len(s)]
    BY <2>2, <2>7 DEF N
  <2>9. g[1 .. Len(s) + 1] = Effect(g[1 .. Len(s)], x)
    <3>1. Len(s) + 1 \in 1 .. Len(t) /\ (Len(s) + 1) - 1 = Len(s)
      BY <2>2
    <3>2. QED
      BY <2>2, <2>4, <3>1 DEF Runs
  <2>10. QED
    BY <2>1, <2>2, <2>3, <2>4, <2>8, <2>9 DEF Runs
<1>3. QED
  BY <1>1, <1>2

-----------------------------------------------------------------------------
(* What a compaction writes, record by record. *)
Chain(log, h) ==
    /\ h \in [0 .. Len(log) -> Seq(Records)]
    /\ h[0] = <<>> /\ Compacted(log) = h[Len(log)]
    /\ \A k \in 1 .. Len(log) :
          h[k] = IF Dropped(log, k) THEN h[k - 1] ELSE Append(h[k - 1], Content(log, k))

(* Among the records with a record's key is a newest one. *)
LEMMA NewestPeer ==
  ASSUME NEW log \in Seq(Records), NEW i \in DOMAIN log
  PROVE  /\ Max(Peers(log, i)) \in Peers(log, i)
         /\ \A j \in Peers(log, i) : Max(Peers(log, i)) >= j
<1>1. i \in Peers(log, i) /\ Peers(log, i) \in SUBSET (1 .. Len(log)) /\ Len(log) \in Nat
  BY DEF Peers
<1>2. PICK m \in Peers(log, i) : \A y \in Peers(log, i) : m >= y
  BY <1>1, Greatest
<1>3. QED
  BY <1>2 DEF Max

LEMMA CompactedIs ==
  ASSUME NEW log \in Seq(Records)
  PROVE  \E h : Chain(log, h)
<1>1. PICK n : n = Len(log)
  OBVIOUS
<1>2. n \in Nat /\ DOMAIN log = 1 .. n /\ \A i \in 1 .. n : log[i] \in Records
  BY <1>1
<1>3. PICK idx : idx = [i \in DOMAIN log |-> i]
  OBVIOUS
<1>4. idx \in Seq(1 .. n) /\ Len(idx) = n /\ \A i \in 1 .. n : idx[i] = i
  BY <1>2, <1>3
<1>5. PICK S : S = {i \in DOMAIN log : ~Dropped(log, i)}
  OBVIOUS
<1>6. \A i \in 1 .. n : i \in S <=> ~Dropped(log, i)
  BY <1>2, <1>5
<1>7. PICK f : Sifted(f, idx, S) /\ Among(idx, S) = f[1 .. Len(idx)]
  BY <1>4, AmongSteps
<1>8. PICK g : g = [k \in 0 .. n |-> f[1 .. k]]
  OBVIOUS
<1>9. /\ g[0] = <<>> /\ Among(idx, S) = g[n]
      /\ \A k \in 1 .. n : g[k] = IF Dropped(log, k) THEN g[k - 1] ELSE Append(g[k - 1], k)
  <2>1. 0 \in 0 .. n /\ n \in 0 .. n /\ 1 .. 0 = {}
    BY <1>2
  <2>2. ASSUME NEW k \in 1 .. n
        PROVE  g[k] = IF Dropped(log, k) THEN g[k - 1] ELSE Append(g[k - 1], k)
    <3>1. k \in 0 .. n /\ k - 1 \in 0 .. n /\ idx[k] = k
      BY <1>2, <1>4
    <3>2. f[1 .. k] = IF k \in S THEN Append(f[1 .. k - 1], k) ELSE f[1 .. k - 1]
      BY <1>4, <1>7, <3>1 DEF Sifted
    <3>3. QED
      BY <1>6, <1>8, <3>1, <3>2
  <2>3. QED
    BY <1>4, <1>7, <1>8, <2>1, <2>2 DEF Sifted
<1> DEFINE N == {k \in Nat : k <= n => g[k] \in Seq(1 .. n)}
<1>10. 0 \in N
  <2>1. g[0] = <<>> /\ <<>> \in Seq(1 .. n)
    BY <1>9
  <2>2. QED
    BY <2>1
<1>11. ASSUME NEW k \in Nat, k \in N PROVE k + 1 \in N
  <2> SUFFICES ASSUME k + 1 <= n PROVE g[k + 1] \in Seq(1 .. n)
    OBVIOUS
  <2>1. g[k] \in Seq(1 .. n) /\ k + 1 \in 1 .. n /\ (k + 1) - 1 = k
    BY <1>2, <1>11
  <2>2. g[k + 1] = IF Dropped(log, k + 1) THEN g[k] ELSE Append(g[k], k + 1)
    BY <1>9, <2>1
  <2>3. PICK t : t = g[k]
    OBVIOUS
  <2>4. t \in Seq(1 .. n) /\ Append(t, k + 1) \in Seq(1 .. n)
    BY <2>1, <2>3
  <2>5. QED
    BY <2>2, <2>3, <2>4
<1> HIDE DEF N
<1>12. ASSUME NEW k \in 0 .. n PROVE g[k] \in Seq(1 .. n)
  <2>1. k \in N /\ k <= n /\ k \in Nat
    BY <1>2, <1>10, <1>11, Numbers
  <2>2. QED
    BY <2>1 DEF N
<1>13. \A i \in 1 .. n : Content(log, i) \in Records
  BY <1>2, NewestPeer DEF Content, Peers
<1>14. PICK h : h = [k \in 0 .. n |-> [j \in DOMAIN g[k] |-> Content(log, g[k][j])]]
  OBVIOUS
<1>15. ASSUME NEW k \in 0 .. n PROVE h[k] \in Seq(Records)
  <2>1. PICK t : t = g[k]
    OBVIOUS
  <2>2. t \in Seq(1 .. n) /\ h[k] = [j \in DOMAIN t |-> Content(log, t[j])]
    BY <1>12, <1>14, <2>1
  <2>3. /\ Len(t) \in Nat /\ DOMAIN t = 1 .. Len(t)
        /\ \A j \in 1 .. Len(t) : Content(log, t[j]) \in Records
    <3>0. PICK R : R = 1 .. n
      OBVIOUS
    <3>1. t \in Seq(R)
      BY <2>2, <3>0
    <3>2. Len(t) \in Nat /\ DOMAIN t = 1 .. Len(t) /\ \A j \in 1 .. Len(t) : t[j] \in R
      BY <3>1
    <3>3. QED
      BY <1>13, <3>0, <3>2
  <2>4. h[k] = [j \in 1 .. Len(t) |-> Content(log, t[j])]
    BY <2>2, <2>3
  <2>5. QED
    BY <2>3, <2>4
<1>16. h[0] = <<>>
  <2>1. 0 \in 0 .. n /\ DOMAIN g[0] = {}
    BY <1>2, <1>9
  <2>2. h[0] = [j \in {} |-> Content(log, g[0][j])]
    BY <1>14, <2>1
  <2>3. QED
    BY <2>2
<1>17. ASSUME NEW k \in 1 .. n
       PROVE  h[k] = IF Dropped(log, k) THEN h[k - 1] ELSE Append(h[k - 1], Content(log, k))
  <2>1. k \in 0 .. n /\ k - 1 \in 0 .. n
    BY <1>2
  <2>2. PICK t : t = g[k - 1]
    OBVIOUS
  <2>3. t \in Seq(1 .. n) /\ h[k - 1] = [j \in DOMAIN t |-> Content(log, t[j])]
    BY <1>12, <1>14, <2>1, <2>2
  <2>4. CASE Dropped(log, k)
    <3>1. g[k] = t
      BY <1>9, <2>2, <2>4
    <3>2. QED
      BY <1>14, <2>1, <2>3, <2>4, <3>1
  <2>5. CASE ~Dropped(log, k)
    <3>1. PICK u : u = Append(t, k)
      OBVIOUS
    <3>2. g[k] = u
      BY <1>9, <2>2, <2>5, <3>1
    <3>3. h[k] = [j \in DOMAIN u |-> Content(log, u[j])]
      BY <1>14, <2>1, <3>2
    <3>4. /\ Len(t) \in Nat /\ DOMAIN t = 1 .. Len(t) /\ DOMAIN u = 1 .. Len(t) + 1
          /\ u[Len(t) + 1] = k /\ \A j \in 1 .. Len(t) : u[j] = t[j]
      BY <2>3, <3>1
    <3>5. PICK v : v = h[k - 1]
      OBVIOUS
    <3>6. v \in Seq(Records) /\ Len(v) = Len(t) /\ Content(log, k) \in Records
      BY <1>13, <1>15, <2>1, <2>3, <3>4, <3>5
    <3>7. PICK w : w = Append(v, Content(log, k))
      OBVIOUS
    <3>8. /\ w \in Seq(Records) /\ DOMAIN w = 1 .. Len(t) + 1
          /\ w[Len(t) + 1] = Content(log, k) /\ \A j \in 1 .. Len(t) : w[j] = v[j]
      BY <3>4, <3>6, <3>7
    <3>9. \A j \in 1 .. Len(t) + 1 : w[j] = Content(log, u[j])
      BY <2>3, <3>4, <3>5, <3>8
    <3>10. w = [j \in 1 .. Len(t) + 1 |-> Content(log, u[j])]
      BY <3>8, <3>9
    <3>11. QED
      BY <2>5, <3>3, <3>4, <3>5, <3>7, <3>10
  <2>6. QED
    BY <2>4, <2>5
<1>18. Compacted(log) = h[n]
  <2>1. n \in 0 .. n
    BY <1>2
  <2>2. Compacted(log) = [k \in DOMAIN g[n] |-> Content(log, g[n][k])]
    BY <1>3, <1>5, <1>9 DEF Compacted
  <2>3. QED
    BY <1>14, <2>1, <2>2
<1>19. h \in [0 .. n -> Seq(Records)]
  BY <1>14, <1>15
<1>20. Chain(log, h)
  BY <1>1, <1>16, <1>17, <1>18, <1>19 DEF Chain
<1>21. QED
  BY <1>20

-----------------------------------------------------------------------------
(* The server's states, and that two of them differ in their peaks only. *)
State(s) ==
    s = [users |-> s.users, accounts |-> s.accounts, peaks |-> s.peaks, price |-> s.price,
         paused |-> s.paused, clock |-> s.clock, ok |-> s.ok]

Alike(a, b) ==
    /\ a.users = b.users /\ a.accounts = b.accounts /\ a.price = b.price
    /\ a.paused = b.paused /\ a.clock = b.clock /\ a.ok = b.ok

(* What a record of each kind does. *)
LEMMA UserEffect ==
  ASSUME NEW s, State(s), NEW rec \in Users
  PROVE  /\ State(Effect(s, rec)) /\ rec.kind = "user"
         /\ Effect(s, rec).users = Set(s.users, rec.id, rec)
         /\ Effect(s, rec).accounts = IF rec.admin \/ rec.id \in DOMAIN s.accounts THEN s.accounts
                                      ELSE Set(s.accounts, rec.id, NewAccount)
         /\ Effect(s, rec).price = s.price /\ Effect(s, rec).paused = s.paused
         /\ Effect(s, rec).clock = s.clock /\ Effect(s, rec).ok = s.ok
<1>1. rec.kind = "user"
  BY DEF Users
<1>2. Effect(s, rec) = WithUser(s, rec)
  BY <1>1 DEF Effect
<1>3. QED
  BY <1>1, <1>2 DEF WithUser, State

LEMMA TradeEffect ==
  ASSUME NEW s, State(s), NEW rec \in Trades
  PROVE  /\ State(Effect(s, rec)) /\ rec.kind = "trade"
         /\ Effect(s, rec).users = s.users
         /\ Effect(s, rec).accounts
               = IF rec.id \notin DOMAIN s.accounts THEN s.accounts
                 ELSE [s.accounts EXCEPT ![rec.id] =
                          [cash |-> @.cash - rec.price, shares |-> @.shares + 1]]
         /\ Effect(s, rec).price = s.price /\ Effect(s, rec).paused = s.paused
         /\ Effect(s, rec).clock = s.clock
         /\ Effect(s, rec).ok = IF rec.id \in DOMAIN s.accounts THEN s.ok ELSE FALSE
<1>1. rec.kind = "trade"
  BY DEF Trades
<1>2. Effect(s, rec) = WithTrade(s, rec)
  BY <1>1 DEF Effect
<1>3. CASE rec.id \in DOMAIN s.accounts
  BY <1>1, <1>2, <1>3 DEF WithTrade, State
<1>4. CASE rec.id \notin DOMAIN s.accounts
  BY <1>1, <1>2, <1>4 DEF WithTrade, State
<1>5. QED
  BY <1>3, <1>4

LEMMA PricesEffect ==
  ASSUME NEW s, State(s), NEW rec \in Prices
  PROVE  /\ State(Effect(s, rec)) /\ rec.kind = "prices"
         /\ Effect(s, rec).users = s.users /\ Effect(s, rec).accounts = s.accounts
         /\ Effect(s, rec).price = rec.price /\ Effect(s, rec).paused = s.paused
         /\ Effect(s, rec).clock = s.clock /\ Effect(s, rec).ok = s.ok
<1>1. rec.kind = "prices"
  BY DEF Prices
<1>2. Effect(s, rec) = WithPrices(s, rec)
  BY <1>1 DEF Effect
<1>3. PICK p : WithPrices(s, rec) = [s EXCEPT !.price = rec.price, !.peaks = p]
  BY DEF WithPrices
<1>4. QED
  BY <1>1, <1>2, <1>3 DEF State

LEMMA ClockEffect ==
  ASSUME NEW s, State(s), NEW rec \in Clocks
  PROVE  /\ State(Effect(s, rec)) /\ rec.kind = "clock"
         /\ Effect(s, rec).users = s.users /\ Effect(s, rec).accounts = s.accounts
         /\ Effect(s, rec).price = s.price /\ Effect(s, rec).paused = s.paused
         /\ Effect(s, rec).clock = rec.value /\ Effect(s, rec).ok = s.ok
<1>1. rec.kind = "clock"
  BY DEF Clocks
<1>2. Effect(s, rec) = [s EXCEPT !.clock = rec.value]
  BY <1>1 DEF Effect
<1>3. QED
  BY <1>1, <1>2 DEF State

LEMMA PauseEffect ==
  ASSUME NEW s, State(s), NEW rec \in Pauses
  PROVE  /\ State(Effect(s, rec)) /\ rec.kind = "pause"
         /\ Effect(s, rec).users = s.users /\ Effect(s, rec).accounts = s.accounts
         /\ Effect(s, rec).price = s.price
         /\ Effect(s, rec).paused = IF rec.on THEN s.paused \cup {rec.id} ELSE s.paused \ {rec.id}
         /\ Effect(s, rec).clock = s.clock /\ Effect(s, rec).ok = s.ok
<1>1. rec.kind = "pause"
  BY DEF Pauses
<1>2. Effect(s, rec) = [s EXCEPT !.paused = IF rec.on THEN @ \cup {rec.id} ELSE @ \ {rec.id}]
  BY <1>1 DEF Effect
<1>3. QED
  BY <1>1, <1>2 DEF State

LEMMA ResetEffect ==
  ASSUME NEW s, State(s), NEW rec \in Resets
  PROVE  /\ State(Effect(s, rec)) /\ rec.kind = "reset"
         /\ Effect(s, rec).users = IF rec.everything
                                   THEN [u \in DOMAIN s.users \ Teams(s) |-> s.users[u]]
                                   ELSE s.users
         /\ Effect(s, rec).accounts
               = [u \in Teams(s) \cap DOMAIN Effect(s, rec).users |-> NewAccount]
         /\ Effect(s, rec).price = Opening /\ Effect(s, rec).paused = {}
         /\ Effect(s, rec).clock = 0 /\ Effect(s, rec).ok = s.ok
<1>1. rec.kind = "reset"
  BY DEF Resets
<1>2. Effect(s, rec) = WithReset(s, rec)
  BY <1>1 DEF Effect
<1>3. QED
  BY <1>1, <1>2 DEF WithReset, State, Fresh

LEMMA Untouched ==
  ASSUME NEW s, State(s), NEW rec \in Records, rec \notin Resets
  PROVE  /\ rec \notin Users  => Effect(s, rec).users = s.users
         /\ rec \notin Users /\ rec \notin Trades => Effect(s, rec).accounts = s.accounts
         /\ rec \notin Trades => Effect(s, rec).ok = s.ok
         /\ rec \notin Prices => Effect(s, rec).price = s.price
         /\ rec \notin Clocks => Effect(s, rec).clock = s.clock
         /\ rec \notin Pauses => Effect(s, rec).paused = s.paused
<1>1. CASE rec \in Users
  BY <1>1, UserEffect
<1>2. CASE rec \in Trades
  BY <1>2, TradeEffect
<1>3. CASE rec \in Prices
  BY <1>3, PricesEffect
<1>4. CASE rec \in Clocks
  BY <1>4, ClockEffect
<1>5. CASE rec \in Pauses
  BY <1>5, PauseEffect
<1>6. QED
  BY <1>1, <1>2, <1>3, <1>4, <1>5 DEF Records

LEMMA EffectState ==
  ASSUME NEW s, State(s), NEW rec \in Records
  PROVE  State(Effect(s, rec))
BY UserEffect, TradeEffect, PricesEffect, ClockEffect, PauseEffect, ResetEffect DEF Records

(* The peaks have no part in anything else. *)
LEMMA EffectAlike ==
  ASSUME NEW a, NEW b, State(a), State(b), Alike(a, b), NEW rec \in Records
  PROVE  Alike(Effect(a, rec), Effect(b, rec))
<1>0. /\ a.users = b.users /\ a.accounts = b.accounts /\ a.price = b.price
      /\ a.paused = b.paused /\ a.clock = b.clock /\ a.ok = b.ok
  BY DEF Alike
<1>1. CASE rec \in Users
  <2>1. /\ Effect(a, rec).price = a.price /\ Effect(a, rec).paused = a.paused
        /\ Effect(a, rec).clock = a.clock /\ Effect(a, rec).ok = a.ok
        /\ Effect(a, rec).users = Set(a.users, rec.id, rec)
        /\ Effect(a, rec).accounts = IF rec.admin \/ rec.id \in DOMAIN a.accounts
                                      THEN a.accounts
                                      ELSE Set(a.accounts, rec.id, NewAccount)
    BY <1>1, UserEffect
  <2>2. /\ Effect(b, rec).price = b.price /\ Effect(b, rec).paused = b.paused
        /\ Effect(b, rec).clock = b.clock /\ Effect(b, rec).ok = b.ok
        /\ Effect(b, rec).users = Set(b.users, rec.id, rec)
        /\ Effect(b, rec).accounts = IF rec.admin \/ rec.id \in DOMAIN b.accounts
                                      THEN b.accounts
                                      ELSE Set(b.accounts, rec.id, NewAccount)
    BY <1>1, UserEffect
  <2>3. /\ Effect(a, rec).users = Effect(b, rec).users
        /\ Effect(a, rec).accounts = Effect(b, rec).accounts
    BY <1>0, <2>1, <2>2
  <2>4. QED
    BY <1>0, <2>1, <2>2, <2>3 DEF Alike
<1>2. CASE rec \in Trades
  <2>1. /\ Effect(a, rec).users = a.users /\ Effect(a, rec).price = a.price
        /\ Effect(a, rec).paused = a.paused /\ Effect(a, rec).clock = a.clock
        /\ Effect(a, rec).accounts
              = IF rec.id \notin DOMAIN a.accounts THEN a.accounts
                ELSE [a.accounts EXCEPT ![rec.id] =
                         [cash |-> @.cash - rec.price, shares |-> @.shares + 1]]
        /\ Effect(a, rec).ok = IF rec.id \in DOMAIN a.accounts THEN a.ok ELSE FALSE
    BY <1>2, TradeEffect
  <2>2. /\ Effect(b, rec).users = b.users /\ Effect(b, rec).price = b.price
        /\ Effect(b, rec).paused = b.paused /\ Effect(b, rec).clock = b.clock
        /\ Effect(b, rec).accounts
              = IF rec.id \notin DOMAIN b.accounts THEN b.accounts
                ELSE [b.accounts EXCEPT ![rec.id] =
                         [cash |-> @.cash - rec.price, shares |-> @.shares + 1]]
        /\ Effect(b, rec).ok = IF rec.id \in DOMAIN b.accounts THEN b.ok ELSE FALSE
    BY <1>2, TradeEffect
  <2>3. Effect(a, rec).accounts = Effect(b, rec).accounts
    BY <1>0, <2>1, <2>2
  <2>4. Effect(a, rec).ok = Effect(b, rec).ok
    BY <1>0, <2>1, <2>2
  <2>5. QED
    BY <1>0, <2>1, <2>2, <2>3, <2>4 DEF Alike
<1>3. CASE rec \in Prices
  <2>1. /\ Effect(a, rec).users = a.users /\ Effect(a, rec).accounts = a.accounts
        /\ Effect(a, rec).paused = a.paused /\ Effect(a, rec).clock = a.clock
        /\ Effect(a, rec).ok = a.ok
        /\ Effect(a, rec).price = rec.price
    BY <1>3, PricesEffect
  <2>2. /\ Effect(b, rec).users = b.users /\ Effect(b, rec).accounts = b.accounts
        /\ Effect(b, rec).paused = b.paused /\ Effect(b, rec).clock = b.clock
        /\ Effect(b, rec).ok = b.ok
        /\ Effect(b, rec).price = rec.price
    BY <1>3, PricesEffect
  <2>3. Effect(a, rec).price = Effect(b, rec).price
    BY <1>0, <2>1, <2>2
  <2>4. QED
    BY <1>0, <2>1, <2>2, <2>3 DEF Alike
<1>4. CASE rec \in Clocks
  <2>1. /\ Effect(a, rec).users = a.users /\ Effect(a, rec).accounts = a.accounts
        /\ Effect(a, rec).price = a.price /\ Effect(a, rec).paused = a.paused
        /\ Effect(a, rec).ok = a.ok
        /\ Effect(a, rec).clock = rec.value
    BY <1>4, ClockEffect
  <2>2. /\ Effect(b, rec).users = b.users /\ Effect(b, rec).accounts = b.accounts
        /\ Effect(b, rec).price = b.price /\ Effect(b, rec).paused = b.paused
        /\ Effect(b, rec).ok = b.ok
        /\ Effect(b, rec).clock = rec.value
    BY <1>4, ClockEffect
  <2>3. Effect(a, rec).clock = Effect(b, rec).clock
    BY <1>0, <2>1, <2>2
  <2>4. QED
    BY <1>0, <2>1, <2>2, <2>3 DEF Alike
<1>5. CASE rec \in Pauses
  <2>1. /\ Effect(a, rec).users = a.users /\ Effect(a, rec).accounts = a.accounts
        /\ Effect(a, rec).price = a.price /\ Effect(a, rec).clock = a.clock
        /\ Effect(a, rec).ok = a.ok
        /\ Effect(a, rec).paused = IF rec.on THEN a.paused \cup {rec.id} ELSE a.paused \ {rec.id}
    BY <1>5, PauseEffect
  <2>2. /\ Effect(b, rec).users = b.users /\ Effect(b, rec).accounts = b.accounts
        /\ Effect(b, rec).price = b.price /\ Effect(b, rec).clock = b.clock
        /\ Effect(b, rec).ok = b.ok
        /\ Effect(b, rec).paused = IF rec.on THEN b.paused \cup {rec.id} ELSE b.paused \ {rec.id}
    BY <1>5, PauseEffect
  <2>3. Effect(a, rec).paused = Effect(b, rec).paused
    BY <1>0, <2>1, <2>2
  <2>4. QED
    BY <1>0, <2>1, <2>2, <2>3 DEF Alike
<1>6. CASE rec \in Resets
  <2>1. Teams(a) = Teams(b)
    BY <1>0 DEF Teams
  <2>2. /\ Effect(a, rec).users = IF rec.everything
                                   THEN [u \in DOMAIN a.users \ Teams(a) |-> a.users[u]]
                                   ELSE a.users
        /\ Effect(a, rec).accounts
              = [u \in Teams(a) \cap DOMAIN Effect(a, rec).users |-> NewAccount]
    BY <1>6, ResetEffect
  <2>3. /\ Effect(b, rec).users = IF rec.everything
                                   THEN [u \in DOMAIN b.users \ Teams(b) |-> b.users[u]]
                                   ELSE b.users
        /\ Effect(b, rec).accounts
              = [u \in Teams(b) \cap DOMAIN Effect(b, rec).users |-> NewAccount]
    BY <1>6, ResetEffect
  <2>4. Effect(a, rec).users = Effect(b, rec).users
    BY <1>0, <2>1, <2>2, <2>3
  <2>5. Effect(a, rec).accounts = Effect(b, rec).accounts
    BY <2>1, <2>2, <2>3, <2>4
  <2>6. /\ Effect(a, rec).price = Opening /\ Effect(a, rec).paused = {}
        /\ Effect(a, rec).clock = 0 /\ Effect(a, rec).ok = a.ok
    BY <1>6, ResetEffect
  <2>7. /\ Effect(b, rec).price = Opening /\ Effect(b, rec).paused = {}
        /\ Effect(b, rec).clock = 0 /\ Effect(b, rec).ok = b.ok
    BY <1>6, ResetEffect
  <2>8. QED
    BY <1>0, <2>4, <2>5, <2>6, <2>7 DEF Alike
<1>7. QED
  BY <1>1, <1>2, <1>3, <1>4, <1>5, <1>6 DEF Records

LEMMA RebuiltSteps ==
  /\ Rebuilt(<<>>) = Fresh /\ State(Fresh)
  /\ \A s \in Seq(Records), x \in Records : Rebuilt(Append(s, x)) = Effect(Rebuilt(s), x)
<1>1. \A s : Rebuilt(s) = Outcome(Fresh, s)
  BY DEF Rebuilt, Outcome
<1>2. /\ Outcome(Fresh, <<>>) = Fresh
      /\ \A s \in Seq(Records), x \in Records :
            Outcome(Fresh, Append(s, x)) = Effect(Outcome(Fresh, s), x)
  BY EffectSteps
<1>3. State(Fresh)
  BY DEF State, Fresh
<1>4. QED
  BY <1>1, <1>2, <1>3

LEMMA RebuiltState ==
  \A l \in Seq(Records) : State(Rebuilt(l))
<1> DEFINE S == {l \in Seq(Records) : State(Rebuilt(l))}
<1>1. <<>> \in S
  BY RebuiltSteps
<1>2. \A s \in Seq(Records), x \in Records : s \in S => Append(s, x) \in S
  BY RebuiltSteps, EffectState
<1> HIDE DEF S
<1>3. \A l \in Seq(Records) : l \in S
  BY <1>1, <1>2, Elements
<1>4. QED
  BY <1>3 DEF S

-----------------------------------------------------------------------------
(* The newest record of a key. *)
Places(l, g) == {i \in DOMAIN l : Group(l[i]) = g}
Has(l, g)    == Places(l, g) # {}
NewestOf(l, g)   == l[Max(Places(l, g))]

LEMMA LastGrows ==
  ASSUME NEW g
  PROVE  /\ ~Has(<<>>, g)
         /\ \A l \in Seq(Records), x \in Records :
               /\ Has(Append(l, x), g) <=> (Has(l, g) \/ Group(x) = g)
               /\ Group(x) = g => NewestOf(Append(l, x), g) = x
               /\ Group(x) # g => (Has(l, g) => NewestOf(Append(l, x), g) = NewestOf(l, g))
<1>1. ~Has(<<>>, g)
  BY DEF Has, Places
<1>2. ASSUME NEW l \in Seq(Records), NEW x \in Records
      PROVE  /\ Has(Append(l, x), g) <=> (Has(l, g) \/ Group(x) = g)
             /\ Group(x) = g => NewestOf(Append(l, x), g) = x
             /\ Group(x) # g => (Has(l, g) => NewestOf(Append(l, x), g) = NewestOf(l, g))
  <2>1. PICK t : t = Append(l, x)
    OBVIOUS
  <2>2. PICK n : n = Len(l)
    OBVIOUS
  <2>3. /\ n \in Nat /\ DOMAIN l = 1 .. n /\ DOMAIN t = 1 .. n + 1 /\ t[n + 1] = x
        /\ \A i \in 1 .. n : t[i] = l[i]
    BY <2>1, <2>2
  <2>4. CASE Group(x) = g
    <3>1. Places(t, g) \in SUBSET (1 .. n + 1) /\ n + 1 \in Places(t, g)
      BY <2>3, <2>4 DEF Places
    <3>2. Max(Places(t, g)) = n + 1
      BY <2>3, <3>1, Largest
    <3>3. QED
      BY <2>1, <2>3, <2>4, <3>1, <3>2 DEF Has, NewestOf
  <2>5. CASE Group(x) # g
    <3>1. Places(t, g) = Places(l, g) /\ Places(l, g) \in SUBSET (1 .. n)
      BY <2>3, <2>5 DEF Places
    <3>2. Has(t, g) <=> Has(l, g)
      BY <3>1 DEF Has
    <3>3. ASSUME Has(l, g) PROVE NewestOf(t, g) = NewestOf(l, g)
      <4>1. PICK m \in Places(l, g) : \A y \in Places(l, g) : m >= y
        BY <2>3, <3>1, <3>3, Greatest DEF Has
      <4>2. Max(Places(l, g)) \in Places(l, g)
        BY <4>1 DEF Max
      <4>3. QED
        BY <2>3, <3>1, <4>2 DEF NewestOf
    <3>4. QED
      BY <2>1, <2>5, <3>2, <3>3
  <2>6. QED
    BY <2>4, <2>5
<1>3. QED
  BY <1>1, <1>2

(* Whose the keys are. *)
LEMMA Keys ==
  ASSUME NEW x \in Records
  PROVE  /\ x \in Users  => \A u : Group(x) = <<"user", u>> <=> x.id = u
         /\ x \in Pauses => \A c : Group(x) = <<"pause", c>> <=> x.id = c
         /\ x \notin Users  => \A u : Group(x) # <<"user", u>>
         /\ x \notin Pauses => \A c : Group(x) # <<"pause", c>>
         /\ x \in Prices <=> Group(x) = <<"prices">>
         /\ x \in Clocks <=> Group(x) = <<"clock">>
         /\ x \in Trades <=> Group(x) = <<"trade">>
         /\ x \in Resets <=> Group(x) = <<"reset">>
<1>1. CASE x \in Users
  BY <1>1 DEF Group, Users, Prices, Clocks, Trades, Resets, Pauses
<1>2. CASE x \in Pauses
  BY <1>2 DEF Group, Users, Prices, Clocks, Trades, Resets, Pauses
<1>3. CASE x \in Prices
  BY <1>3 DEF Group, Users, Prices, Clocks, Trades, Resets, Pauses
<1>4. CASE x \in Clocks
  BY <1>4 DEF Group, Users, Prices, Clocks, Trades, Resets, Pauses
<1>5. CASE x \in Trades
  BY <1>5 DEF Group, Users, Prices, Clocks, Trades, Resets, Pauses
<1>6. CASE x \in Resets
  BY <1>6 DEF Group, Users, Prices, Clocks, Trades, Resets, Pauses
<1>7. QED
  BY <1>1, <1>2, <1>3, <1>4, <1>5, <1>6 DEF Records

-----------------------------------------------------------------------------
(* What the state says of its log: a user is its newest record, ... *)
UsersTold(l) ==
    /\ \A u \in DOMAIN Rebuilt(l).users :
          Has(l, <<"user", u>>) /\ Rebuilt(l).users[u] = NewestOf(l, <<"user", u>>)
    /\ Rebuilt(l).users = [u \in DOMAIN Rebuilt(l).users |-> Rebuilt(l).users[u]]
    /\ Rebuilt(l).clock \in Nat /\ Rebuilt(l).price \in Price

LEMMA UsersAreTold ==
  \A l \in Seq(Records) : UsersTold(l)
<1> DEFINE S == {l \in Seq(Records) : UsersTold(l)}
<1>1. <<>> \in S
  <2>1. UsersTold(<<>>)
    BY RebuiltSteps, CompactionAssumption DEF UsersTold, Fresh
  <2>2. QED
    BY <2>1
<1>2. ASSUME NEW l \in Seq(Records), NEW x \in Records, l \in S PROVE Append(l, x) \in S
  <2>1. PICK t : t = Append(l, x)
    OBVIOUS
  <2>2. PICK a : a = Rebuilt(l)
    OBVIOUS
  <2>3. PICK b : b = Rebuilt(t)
    OBVIOUS
  <2>4. t \in Seq(Records) /\ b = Effect(a, x) /\ State(a)
    BY <2>1, <2>2, <2>3, RebuiltSteps, RebuiltState
  <2>5. /\ \A u \in DOMAIN a.users :
              Has(l, <<"user", u>>) /\ a.users[u] = NewestOf(l, <<"user", u>>)
        /\ a.users = [u \in DOMAIN a.users |-> a.users[u]]
        /\ a.clock \in Nat /\ a.price \in Price
    BY <1>2, <2>2 DEF UsersTold
  <2>6. \A u : /\ Has(t, <<"user", u>>) <=> (Has(l, <<"user", u>>) \/ Group(x) = <<"user", u>>)
               /\ Group(x) = <<"user", u>> => NewestOf(t, <<"user", u>>) = x
               /\ Group(x) # <<"user", u>> =>
                     (Has(l, <<"user", u>>) =>
                         NewestOf(t, <<"user", u>>) = NewestOf(l, <<"user", u>>))
    BY <2>1, LastGrows
  <2>7. CASE x \in Users
    <3>1. \A u : Group(x) = <<"user", u>> <=> x.id = u
      BY <2>7, Keys
    <3>2. b.users = [u \in DOMAIN a.users \cup {x.id} |-> IF u = x.id THEN x ELSE a.users[u]]
      <4>1. Effect(a, x).users = Set(a.users, x.id, x)
        BY <2>4, <2>7, UserEffect
      <4>2. QED
        BY <2>4, <4>1 DEF Set
    <3>3. b.clock = a.clock /\ b.price = a.price
      BY <2>4, <2>7, UserEffect
    <3>4. ASSUME NEW u \in DOMAIN b.users
          PROVE  Has(t, <<"user", u>>) /\ b.users[u] = NewestOf(t, <<"user", u>>)
      <4>1. CASE u = x.id
        <5>1. Group(x) = <<"user", u>> /\ b.users[u] = x
          BY <3>1, <3>2, <3>4, <4>1
        <5>2. QED
          BY <2>6, <5>1
      <4>2. CASE u # x.id
        <5>1. Group(x) # <<"user", u>> /\ u \in DOMAIN a.users /\ b.users[u] = a.users[u]
          BY <3>1, <3>2, <3>4, <4>2
        <5>2. Has(l, <<"user", u>>) /\ a.users[u] = NewestOf(l, <<"user", u>>)
          BY <2>5, <5>1
        <5>3. QED
          BY <2>6, <5>1, <5>2
      <4>3. QED
        BY <4>1, <4>2
    <3>5. b.users = [u \in DOMAIN b.users |-> b.users[u]]
      BY <3>2
    <3>6. UsersTold(t)
      BY <2>3, <2>5, <3>3, <3>4, <3>5 DEF UsersTold
    <3>7. QED
      BY <2>1, <2>4, <3>6
  <2>8. CASE x \notin Users
    <3>1. \A u : Group(x) # <<"user", u>>
      BY <2>8, Keys
    <3>2. \A u : /\ Has(l, <<"user", u>>) => Has(t, <<"user", u>>)
                 /\ Has(l, <<"user", u>>) => NewestOf(t, <<"user", u>>) = NewestOf(l, <<"user", u>>)
      BY <2>6, <3>1
    <3>3. /\ DOMAIN b.users \subseteq DOMAIN a.users
          /\ \A u \in DOMAIN b.users : b.users[u] = a.users[u]
          /\ b.users = [u \in DOMAIN b.users |-> b.users[u]]
      <4>1. CASE x \in Resets
        <5>1. CASE x.everything
          <6>1. b.users = [u \in DOMAIN a.users \ Teams(a) |-> a.users[u]]
            BY <2>4, <4>1, <5>1, ResetEffect
          <6>2. PICK d : d = DOMAIN a.users \ Teams(a)
            OBVIOUS
          <6>3. d \subseteq DOMAIN a.users /\ b.users = [u \in d |-> a.users[u]]
            BY <6>1, <6>2
          <6>4. QED
            BY <6>3
        <5>2. CASE ~x.everything
          BY <2>4, <2>5, <4>1, <5>2, ResetEffect
        <5>3. QED
          BY <5>1, <5>2
      <4>2. CASE x \notin Resets
        <5>1. b.users = a.users
          BY <2>4, <2>8, <4>2, Untouched
        <5>2. QED
          BY <2>5, <5>1
      <4>3. QED
        BY <4>1, <4>2
    <3>4. b.clock \in Nat /\ b.price \in Price
      <4>1. CASE x \in Trades
        BY <2>4, <2>5, <4>1, TradeEffect
      <4>2. CASE x \in Prices
        <5>1. x.price \in Price
          BY <4>2 DEF Prices
        <5>2. QED
          BY <2>4, <2>5, <4>2, <5>1, PricesEffect
      <4>3. CASE x \in Clocks
        <5>1. x.value \in Nat
          BY <4>3 DEF Clocks
        <5>2. QED
          BY <2>4, <2>5, <4>3, <5>1, ClockEffect
      <4>4. CASE x \in Pauses
        BY <2>4, <2>5, <4>4, PauseEffect
      <4>5. CASE x \in Resets
        <5>1. b.clock = 0 /\ b.price = Opening
          BY <2>4, <4>5, ResetEffect
        <5>2. QED
          BY <5>1, CompactionAssumption
      <4>6. QED
        BY <2>8, <4>1, <4>2, <4>3, <4>4, <4>5 DEF Records
    <3>5. UsersTold(t)
      BY <2>3, <2>5, <3>2, <3>3, <3>4 DEF UsersTold
    <3>6. QED
      BY <2>1, <2>4, <3>5
  <2>9. QED
    BY <2>7, <2>8
<1> HIDE DEF S
<1>3. \A l \in Seq(Records) : l \in S
  BY <1>1, <1>2, Elements
<1>4. QED
  BY <1>3 DEF S

(* ... and in a log without a reset everything but the accounts is in the  *)
(* newest record of its key.                                               *)
Plain(l) == ~Has(l, <<"reset">>)

NewestTold(l) ==
    /\ \A u : u \in DOMAIN Rebuilt(l).users <=> Has(l, <<"user", u>>)
    /\ Rebuilt(l).price = IF Has(l, <<"prices">>) THEN NewestOf(l, <<"prices">>).price ELSE Opening
    /\ Rebuilt(l).clock = IF Has(l, <<"clock">>) THEN NewestOf(l, <<"clock">>).value ELSE 0
    /\ \A c : c \in Rebuilt(l).paused <=> Has(l, <<"pause", c>>) /\ NewestOf(l, <<"pause", c>>).on

LEMMA NewestIsTold ==
  \A l \in Seq(Records) : Plain(l) => NewestTold(l)
<1> DEFINE S == {l \in Seq(Records) : Plain(l) => NewestTold(l)}
<1>1. <<>> \in S
  <2>1. \A g : ~Has(<<>>, g)
    BY LastGrows
  <2>2. NewestTold(<<>>)
    BY <2>1, RebuiltSteps DEF NewestTold, Fresh
  <2>3. QED
    BY <2>2
<1>2. ASSUME NEW l \in Seq(Records), NEW x \in Records, l \in S PROVE Append(l, x) \in S
  <2>1. PICK t : t = Append(l, x)
    OBVIOUS
  <2>2. PICK a : a = Rebuilt(l)
    OBVIOUS
  <2>3. PICK b : b = Rebuilt(t)
    OBVIOUS
  <2>4. t \in Seq(Records) /\ b = Effect(a, x) /\ State(a)
    BY <2>1, <2>2, <2>3, RebuiltSteps, RebuiltState
  <2> SUFFICES ASSUME Plain(t) PROVE NewestTold(t)
    BY <2>1, <2>4
  <2>5. \A g : /\ Has(t, g) <=> (Has(l, g) \/ Group(x) = g)
               /\ Group(x) = g => NewestOf(t, g) = x
               /\ Group(x) # g => (Has(l, g) => NewestOf(t, g) = NewestOf(l, g))
    BY <2>1, LastGrows
  <2>6. x \notin Resets /\ Plain(l)
    BY <2>5, Keys DEF Plain
  <2>7. /\ \A u : u \in DOMAIN a.users <=> Has(l, <<"user", u>>)
        /\ a.price = IF Has(l, <<"prices">>) THEN NewestOf(l, <<"prices">>).price ELSE Opening
        /\ a.clock = IF Has(l, <<"clock">>) THEN NewestOf(l, <<"clock">>).value ELSE 0
        /\ \A c : c \in a.paused <=> Has(l, <<"pause", c>>) /\ NewestOf(l, <<"pause", c>>).on
    BY <1>2, <2>2, <2>6 DEF NewestTold
  <2>8. \A u : u \in DOMAIN b.users <=> Has(t, <<"user", u>>)
    <3>1. CASE x \in Users
      <4>1. \A u : Group(x) = <<"user", u>> <=> x.id = u
        BY <3>1, Keys
      <4>2. DOMAIN b.users = DOMAIN a.users \cup {x.id}
        <5>1. Effect(a, x).users = Set(a.users, x.id, x)
          BY <2>4, <3>1, UserEffect
        <5>2. QED
          BY <2>4, <5>1 DEF Set
      <4>3. QED
        BY <2>5, <2>7, <4>1, <4>2
    <3>2. CASE x \notin Users
      <4>1. \A u : Group(x) # <<"user", u>>
        BY <3>2, Keys
      <4>2. b.users = a.users
        BY <2>4, <2>6, <3>2, Untouched
      <4>3. QED
        BY <2>5, <2>7, <4>1, <4>2
    <3>3. QED
      BY <3>1, <3>2
  <2>9. b.price = IF Has(t, <<"prices">>) THEN NewestOf(t, <<"prices">>).price ELSE Opening
    <3>1. CASE x \in Prices
      <4>1. Group(x) = <<"prices">> /\ b.price = x.price
        BY <2>4, <3>1, Keys, PricesEffect
      <4>2. QED
        BY <2>5, <4>1
    <3>2. CASE x \notin Prices
      <4>1. Group(x) # <<"prices">>
        BY <3>2, Keys
      <4>2. b.price = a.price
        BY <2>4, <2>6, <3>2, Untouched
      <4>3. QED
        BY <2>5, <2>7, <4>1, <4>2
    <3>3. QED
      BY <3>1, <3>2
  <2>10. b.clock = IF Has(t, <<"clock">>) THEN NewestOf(t, <<"clock">>).value ELSE 0
    <3>1. CASE x \in Clocks
      <4>1. Group(x) = <<"clock">> /\ b.clock = x.value
        BY <2>4, <3>1, Keys, ClockEffect
      <4>2. QED
        BY <2>5, <4>1
    <3>2. CASE x \notin Clocks
      <4>1. Group(x) # <<"clock">>
        BY <3>2, Keys
      <4>2. b.clock = a.clock
        BY <2>4, <2>6, <3>2, Untouched
      <4>3. QED
        BY <2>5, <2>7, <4>1, <4>2
    <3>3. QED
      BY <3>1, <3>2
  <2>11. \A c : c \in b.paused <=> Has(t, <<"pause", c>>) /\ NewestOf(t, <<"pause", c>>).on
    <3>1. CASE x \in Pauses
      <4>1. \A c : Group(x) = <<"pause", c>> <=> x.id = c
        BY <3>1, Keys
      <4>2. b.paused = IF x.on THEN a.paused \cup {x.id} ELSE a.paused \ {x.id}
        BY <2>4, <3>1, PauseEffect
      <4>3. ASSUME NEW c
            PROVE  c \in b.paused <=>
                      Has(t, <<"pause", c>>) /\ NewestOf(t, <<"pause", c>>).on
        <5>1. CASE x.id = c
          <6>1. Has(t, <<"pause", c>>) /\ NewestOf(t, <<"pause", c>>) = x
            BY <2>5, <4>1, <5>1
          <6>2. c \in b.paused <=> x.on
            BY <4>2, <5>1
          <6>3. QED
            BY <6>1, <6>2
        <5>2. CASE x.id # c
          <6>1. /\ Has(t, <<"pause", c>>) <=> Has(l, <<"pause", c>>)
                /\ Has(l, <<"pause", c>>) =>
                      NewestOf(t, <<"pause", c>>) = NewestOf(l, <<"pause", c>>)
            BY <2>5, <4>1, <5>2
          <6>2. c \in b.paused <=> c \in a.paused
            BY <4>2, <5>2
          <6>3. QED
            BY <2>7, <6>1, <6>2
        <5>3. QED
          BY <5>1, <5>2
      <4>4. QED
        BY <4>3
    <3>2. CASE x \notin Pauses
      <4>1. \A c : Group(x) # <<"pause", c>>
        BY <3>2, Keys
      <4>2. b.paused = a.paused
        BY <2>4, <2>6, <3>2, Untouched
      <4>3. ASSUME NEW c
            PROVE  c \in b.paused <=>
                      Has(t, <<"pause", c>>) /\ NewestOf(t, <<"pause", c>>).on
        <5>1. /\ Has(t, <<"pause", c>>) <=> Has(l, <<"pause", c>>)
              /\ Has(l, <<"pause", c>>) => NewestOf(t, <<"pause", c>>) = NewestOf(l, <<"pause", c>>)
          BY <2>5, <4>1
        <5>2. QED
          BY <2>7, <4>2, <5>1
      <4>4. QED
        BY <4>3
    <3>3. QED
      BY <3>1, <3>2
  <2>12. QED
    BY <2>3, <2>8, <2>9, <2>10, <2>11 DEF NewestTold
<1> HIDE DEF S
<1>3. \A l \in Seq(Records) : l \in S
  BY <1>1, <1>2, Elements
<1>4. QED
  BY <1>3 DEF S

-----------------------------------------------------------------------------
(* What compaction does with a key. *)
LEMMA KindsAgree ==
  ASSUME NEW a \in Records, NEW b \in Records, Group(a) = Group(b)
  PROVE  a.kind = b.kind
BY DEF Group

LEMMA WhatDrops ==
  ASSUME NEW log \in Seq(Records), NEW i \in DOMAIN log, NEW g, g = Group(log[i])
  PROVE  /\ i \in Places(log, g)
         /\ Content(log, i) \in Records /\ Group(Content(log, i)) = g
         /\ Latest(log[i].kind) = 1 =>
               /\ Content(log, i) = NewestOf(log, g)
               /\ Dropped(log, i) <=> \E j \in Places(log, g) : j < i
         /\ Latest(log[i].kind) # 1 =>
               /\ Content(log, i) = log[i]
               /\ i = Max(Places(log, g)) => ~Dropped(log, i)
         /\ Latest(log[i].kind) = 0 => ~Dropped(log, i)
<1>1. Peers(log, i) = Places(log, g)
  BY DEF Peers, Places
<1>2. PICK m : m = Max(Places(log, g))
  OBVIOUS
<1>3. m \in Places(log, g) /\ \A j \in Places(log, g) : m >= j
  BY <1>1, <1>2, NewestPeer
<1>4. \A j \in DOMAIN log : log[j] \in Records
  OBVIOUS
<1>5. i \in Places(log, g) /\ m \in DOMAIN log /\ Group(log[m]) = g
  BY <1>3 DEF Places
<1>6. Content(log, i) = IF Latest(log[i].kind) = 1 THEN log[m] ELSE log[i]
  BY <1>1, <1>2 DEF Content
<1>7. Content(log, i) \in Records /\ Group(Content(log, i)) = g
  BY <1>4, <1>5, <1>6
<1>8. PICK keep : keep = Latest(log[i].kind)
  OBVIOUS
<1>9. Dropped(log, i) <=> \/ keep = 1 /\ \E j \in Places(log, g) : j < i
                          \/ /\ keep > 1
                             /\ Cardinality({j \in Places(log, g) : j > i}) >= keep
  BY <1>1, <1>8 DEF Dropped
<1>10. ASSUME keep # 1, i = m PROVE ~Dropped(log, i)
  <2>1. {j \in Places(log, g) : j > i} = {}
    <3>1. \A j \in Places(log, g) : j \in Nat
      BY DEF Places
    <3>2. QED
      BY <1>3, <1>10, <3>1
  <2>2. Cardinality({j \in Places(log, g) : j > i}) = 0
    BY <2>1, FS_EmptySet
  <2>3. keep \in Nat
    <3>1. log[i].kind \in {"user", "pause", "clock", "prices", "trade", "reset"}
      BY DEF Records, Users, Trades, Prices, Clocks, Pauses, Resets
    <3>2. QED
      BY <1>8, <3>1, CompactionAssumption DEF Latest
  <2>4. QED
    BY <1>9, <1>10, <2>2, <2>3
<1>11. keep = 0 => ~Dropped(log, i)
  BY <1>9
<1>12. Latest(log[i].kind) = 1 => (Dropped(log, i) <=> \E j \in Places(log, g) : j < i)
  BY <1>8, <1>9
<1>13. QED
  BY <1>2, <1>5, <1>6, <1>7, <1>8, <1>10, <1>11, <1>12 DEF NewestOf

LEMMA ChainSteps ==
  ASSUME NEW log \in Seq(Records), NEW h, Chain(log, h), NEW k \in 1 .. Len(log), NEW g
  PROVE  /\ Dropped(log, k) => h[k] = h[k - 1]
         /\ ~Dropped(log, k) =>
               /\ Has(h[k], g) <=> (Has(h[k - 1], g) \/ Group(log[k]) = g)
               /\ Group(log[k]) = g => NewestOf(h[k], g) = Content(log, k)
               /\ Group(log[k]) # g =>
                     (Has(h[k - 1], g) => NewestOf(h[k], g) = NewestOf(h[k - 1], g))
<1>1. h[k - 1] \in Seq(Records) /\ k \in DOMAIN log
  <2>1. k - 1 \in 0 .. Len(log)
    OBVIOUS
  <2>2. QED
    BY <2>1 DEF Chain
<1>2. h[k] = IF Dropped(log, k) THEN h[k - 1] ELSE Append(h[k - 1], Content(log, k))
  BY DEF Chain
<1>3. Content(log, k) \in Records /\ Group(Content(log, k)) = Group(log[k])
  BY <1>1, WhatDrops
<1>4. PICK l : l = h[k - 1]
  OBVIOUS
<1>5. PICK x : x = Content(log, k)
  OBVIOUS
<1>6. l \in Seq(Records) /\ x \in Records /\ Group(x) = Group(log[k])
  BY <1>1, <1>3, <1>4, <1>5
<1>7. /\ Has(Append(l, x), g) <=> (Has(l, g) \/ Group(x) = g)
      /\ Group(x) = g => NewestOf(Append(l, x), g) = x
      /\ Group(x) # g => (Has(l, g) => NewestOf(Append(l, x), g) = NewestOf(l, g))
  BY <1>6, LastGrows
<1>8. CASE Dropped(log, k)
  BY <1>2, <1>8
<1>9. CASE ~Dropped(log, k)
  <2>1. h[k] = Append(l, x)
    BY <1>2, <1>4, <1>5, <1>9
  <2>2. QED
    BY <1>4, <1>5, <1>6, <1>7, <1>9, <2>1
<1>10. QED
  BY <1>8, <1>9

LEMMA OtherKey ==
  ASSUME NEW log \in Seq(Records), NEW h, Chain(log, h), NEW k \in 1 .. Len(log), NEW g,
         Group(log[k]) # g
  PROVE  /\ Has(h[k], g) <=> Has(h[k - 1], g)
         /\ Has(h[k - 1], g) => NewestOf(h[k], g) = NewestOf(h[k - 1], g)
<1>1. Dropped(log, k) => h[k] = h[k - 1]
  BY ChainSteps
<1>2. ~Dropped(log, k) =>
         /\ Has(h[k], g) <=> (Has(h[k - 1], g) \/ Group(log[k]) = g)
         /\ Group(log[k]) = g => NewestOf(h[k], g) = Content(log, k)
         /\ Group(log[k]) # g => (Has(h[k - 1], g) => NewestOf(h[k], g) = NewestOf(h[k - 1], g))
  BY ChainSteps
<1>3. QED
  BY <1>1, <1>2

(* No key appears that was not there. *)
LEMMA NoNewKey ==
  ASSUME NEW log \in Seq(Records), NEW h, Chain(log, h), NEW g, NEW k \in 0 .. Len(log),
         Has(h[k], g)
  PROVE  \E j \in Places(log, g) : j <= k
<1> DEFINE N == {n \in Nat : n <= Len(log) /\ Has(h[n], g) => \E j \in Places(log, g) : j <= n}
<1>1. 0 \in N
  <2>1. ~Has(h[0], g)
    BY LastGrows DEF Chain
  <2>2. QED
    BY <2>1
<1>2. ASSUME NEW n \in Nat, n \in N PROVE n + 1 \in N
  <2> SUFFICES ASSUME n + 1 <= Len(log), Has(h[n + 1], g)
               PROVE  \E j \in Places(log, g) : j <= n + 1
    OBVIOUS
  <2>1. /\ n + 1 \in 1 .. Len(log) /\ (n + 1) - 1 = n /\ n <= Len(log)
        /\ n + 1 \in DOMAIN log
    OBVIOUS
  <2>2. CASE Group(log[n + 1]) = g
    BY <2>1, <2>2 DEF Places
  <2>3. CASE Group(log[n + 1]) # g
    <3>1. Has(h[n], g)
      BY <2>1, <2>3, ChainSteps
    <3>2. PICK j \in Places(log, g) : j <= n
      BY <1>2, <2>1, <3>1
    <3>3. j \in Nat
      BY DEF Places
    <3>4. j <= n + 1
      BY <3>2, <3>3
    <3>5. QED
      BY <3>4
  <2>4. QED
    BY <2>2, <2>3
<1> HIDE DEF N
<1>3. k \in N
  BY <1>1, <1>2, Numbers
<1>4. QED
  BY <1>3 DEF N

(* Of a key that is kept once the newest content stands where the first    *)
(* record was, ...                                                         *)
LEMMA KeptOnce ==
  ASSUME NEW log \in Seq(Records), NEW h, Chain(log, h),
         NEW i \in DOMAIN log, Latest(log[i].kind) = 1, NEW g, g = Group(log[i]),
         NEW k \in 0 .. Len(log), \E j \in Places(log, g) : j <= k
  PROVE  Has(h[k], g) /\ NewestOf(h[k], g) = NewestOf(log, g)
<1> DEFINE Good(n) == Has(h[n], g) /\ NewestOf(h[n], g) = NewestOf(log, g)
           N == {n \in Nat : n <= Len(log) /\ (\E j \in Places(log, g) : j <= n) => Good(n)}
<1>0. \A j \in Places(log, g) : j \in 1 .. Len(log)
  BY DEF Places
<1>1. 0 \in N
  BY <1>0
<1>2. ASSUME NEW n \in Nat, n \in N PROVE n + 1 \in N
  <2> SUFFICES ASSUME n + 1 <= Len(log), NEW j \in Places(log, g), j <= n + 1
               PROVE  Good(n + 1)
    OBVIOUS
  <2>1. /\ n + 1 \in 1 .. Len(log) /\ (n + 1) - 1 = n /\ n <= Len(log)
        /\ n + 1 \in DOMAIN log
    OBVIOUS
  <2>2. CASE \E p \in Places(log, g) : p <= n
    <3>1. Good(n)
      BY <1>2, <2>1, <2>2
    <3>2. CASE Group(log[n + 1]) = g
      <4>1. log[n + 1].kind = log[i].kind
        BY <2>1, <3>2, KindsAgree
      <4>2. PICK p \in Places(log, g) : p <= n
        BY <2>2
      <4>3. p < n + 1
        BY <1>0, <4>2
      <4>4. Dropped(log, n + 1)
        BY <2>1, <3>2, <4>1, <4>3, WhatDrops
      <4>5. h[n + 1] = h[n]
        BY <2>1, <4>4, ChainSteps
      <4>6. QED
        BY <3>1, <4>5
    <3>3. CASE Group(log[n + 1]) # g
      <4>1. PICK k1 : k1 = n + 1
        OBVIOUS
      <4>2. k1 \in 1 .. Len(log) /\ k1 - 1 = n /\ Group(log[k1]) # g
        BY <2>1, <3>3, <4>1
      <4>3. /\ Has(h[k1], g) <=> Has(h[k1 - 1], g)
            /\ Has(h[k1 - 1], g) => NewestOf(h[k1], g) = NewestOf(h[k1 - 1], g)
        BY <4>2, OtherKey
      <4>4. QED
        BY <3>1, <4>1, <4>2, <4>3
    <3>4. QED
      BY <3>2, <3>3
  <2>3. CASE ~ \E p \in Places(log, g) : p <= n
    <3>1. j = n + 1
      BY <1>0, <2>3
    <3>2. Group(log[n + 1]) = g
      BY <3>1 DEF Places
    <3>3. log[n + 1].kind = log[i].kind
      BY <2>1, <3>2, KindsAgree
    <3>4. \A p \in Places(log, g) : ~(p < n + 1)
      BY <1>0, <2>3
    <3>5. ~Dropped(log, n + 1) /\ Content(log, n + 1) = NewestOf(log, g)
      BY <2>1, <3>2, <3>3, <3>4, WhatDrops
    <3>6. QED
      BY <2>1, <3>2, <3>5, ChainSteps
  <2>4. QED
    BY <2>2, <2>3
<1> HIDE DEF N
<1>3. k \in N
  BY <1>1, <1>2, Numbers
<1>4. QED
  BY <1>3 DEF N

(* ... and of every other the newest record is where it was. *)
LEMMA KeptLast ==
  ASSUME NEW log \in Seq(Records), NEW h, Chain(log, h),
         NEW i \in DOMAIN log, Latest(log[i].kind) # 1, NEW g, g = Group(log[i]),
         NEW k \in 0 .. Len(log), \A j \in Places(log, g) : j <= k
  PROVE  Has(h[k], g) /\ NewestOf(h[k], g) = NewestOf(log, g)
<1> DEFINE Good(n) == Has(h[n], g) /\ NewestOf(h[n], g) = NewestOf(log, g)
           N == {n \in Nat : n <= Len(log) /\ (\A j \in Places(log, g) : j <= n) => Good(n)}
<1>0. /\ \A j \in Places(log, g) : j \in 1 .. Len(log)
      /\ i \in Places(log, g)
  BY DEF Places
<1>1. 0 \in N
  BY <1>0
<1>2. ASSUME NEW n \in Nat, n \in N PROVE n + 1 \in N
  <2> SUFFICES ASSUME n + 1 <= Len(log), \A j \in Places(log, g) : j <= n + 1
               PROVE  Good(n + 1)
    OBVIOUS
  <2>1. /\ n + 1 \in 1 .. Len(log) /\ (n + 1) - 1 = n /\ n <= Len(log)
        /\ n + 1 \in DOMAIN log
    OBVIOUS
  <2>2. CASE Group(log[n + 1]) # g
    <3>1. \A j \in Places(log, g) : j <= n
      <4> SUFFICES ASSUME NEW j \in Places(log, g) PROVE j <= n
        OBVIOUS
      <4>1. j # n + 1 /\ j \in Nat
        BY <1>0, <2>2 DEF Places
      <4>2. QED
        BY <4>1
    <3>2. Good(n)
      BY <1>2, <2>1, <3>1
    <3>3. PICK k1 : k1 = n + 1
      OBVIOUS
    <3>4. k1 \in 1 .. Len(log) /\ k1 - 1 = n /\ Group(log[k1]) # g
      BY <2>1, <2>2, <3>3
    <3>5. /\ Has(h[k1], g) <=> Has(h[k1 - 1], g)
          /\ Has(h[k1 - 1], g) => NewestOf(h[k1], g) = NewestOf(h[k1 - 1], g)
      BY <3>4, OtherKey
    <3>6. QED
      BY <3>2, <3>3, <3>4, <3>5
  <2>3. CASE Group(log[n + 1]) = g
    <3>1. log[n + 1].kind = log[i].kind
      BY <2>1, <2>3, KindsAgree
    <3>2. n + 1 \in Places(log, g)
      BY <2>1, <2>3 DEF Places
    <3>3. Max(Places(log, g)) = n + 1
      <4>1. Places(log, g) \in SUBSET (1 .. n + 1)
        BY <1>0
      <4>2. QED
        BY <3>2, <4>1, Largest
    <3>4. ~Dropped(log, n + 1) /\ Content(log, n + 1) = log[n + 1]
      BY <2>1, <2>3, <3>1, <3>3, WhatDrops
    <3>5. NewestOf(log, g) = log[n + 1]
      BY <3>3 DEF NewestOf
    <3>6. QED
      BY <2>1, <2>3, <3>4, <3>5, ChainSteps
  <2>4. QED
    BY <2>2, <2>3
<1> HIDE DEF N
<1>3. k \in N
  BY <1>1, <1>2, Numbers
<1>4. QED
  BY <1>3 DEF N

(* So the newest records stay. *)
LEMMA NewestKept ==
  ASSUME NEW log \in Seq(Records), NEW g
  PROVE  /\ Has(Compacted(log), g) <=> Has(log, g)
         /\ Has(log, g) => NewestOf(Compacted(log), g) = NewestOf(log, g)
         /\ Compacted(log) \in Seq(Records)
<1>1. PICK h : Chain(log, h)
  BY CompactedIs
<1>2. PICK n : n = Len(log)
  OBVIOUS
<1>3. n \in 0 .. Len(log) /\ Compacted(log) = h[n] /\ h[n] \in Seq(Records)
  BY <1>1, <1>2 DEF Chain
<1>4. Has(h[n], g) => Has(log, g)
  BY <1>1, <1>3, NoNewKey DEF Has
<1>5. ASSUME Has(log, g) PROVE Has(h[n], g) /\ NewestOf(h[n], g) = NewestOf(log, g)
  <2>1. PICK i \in Places(log, g) : TRUE
    BY <1>5 DEF Has
  <2>2. i \in DOMAIN log /\ g = Group(log[i]) /\ i <= n
    BY <1>2, <2>1 DEF Places
  <2>3. \A j \in Places(log, g) : j <= n
    BY <1>2 DEF Places
  <2>4. CASE Latest(log[i].kind) = 1
    BY <1>1, <1>3, <2>1, <2>2, <2>4, KeptOnce
  <2>5. CASE Latest(log[i].kind) # 1
    BY <1>1, <1>3, <2>2, <2>3, <2>5, KeptLast
  <2>6. QED
    BY <2>4, <2>5
<1>6. QED
  BY <1>3, <1>4, <1>5

-----------------------------------------------------------------------------
(* A log, record by record. *)
Upto(l, k) == SubSeq(l, 1, k)

LEMMA UptoIs ==
  ASSUME NEW R, NEW l \in Seq(R)
  PROVE  /\ Upto(l, 0) = <<>> /\ Upto(l, Len(l)) = l
         /\ \A k \in 0 .. Len(l) : Upto(l, k) \in Seq(R) /\ Len(Upto(l, k)) = k
         /\ \A k \in 1 .. Len(l) : l[k] \in R /\ Upto(l, k) = Append(Upto(l, k - 1), l[k])
         /\ \A x \in R : \A k \in 0 .. Len(l) : Upto(Append(l, x), k) = Upto(l, k)
<1>1. Upto(l, 0) = <<>>
  BY DEF Upto
<1>2. Upto(l, Len(l)) = l
  BY DEF Upto
<1>3. ASSUME NEW k \in 0 .. Len(l) PROVE Upto(l, k) \in Seq(R) /\ Len(Upto(l, k)) = k
  BY DEF Upto
<1>4. ASSUME NEW k \in 1 .. Len(l)
      PROVE  l[k] \in R /\ Upto(l, k) = Append(Upto(l, k - 1), l[k])
  BY DEF Upto
<1>5. ASSUME NEW x \in R, NEW k \in 0 .. Len(l) PROVE Upto(Append(l, x), k) = Upto(l, k)
  BY DEF Upto
<1>6. QED
  BY <1>1, <1>2, <1>3, <1>4, <1>5

LEMMA AmongSame ==
  ASSUME NEW R, NEW S, NEW T, \A x \in R : x \in S <=> x \in T, NEW s \in Seq(R)
  PROVE  Among(s, S) = Among(s, T)
<1> DEFINE Q == {q \in Seq(R) : Among(q, S) = Among(q, T)}
<1>1. <<>> \in Q
  <2>1. Among(<<>>, S) = <<>> /\ Among(<<>>, T) = <<>>
    BY AmongGrows
  <2>2. <<>> \in Seq(R)
    OBVIOUS
  <2>3. QED
    BY <2>1, <2>2
<1>2. ASSUME NEW q \in Seq(R), NEW x \in R, q \in Q PROVE Append(q, x) \in Q
  <2>1. \A q1 \in Seq(R), y \in R :
           Among(Append(q1, y), S)
              = IF y \in S THEN Append(Among(q1, S), y) ELSE Among(q1, S)
    BY AmongGrows
  <2>2. \A q1 \in Seq(R), y \in R :
           Among(Append(q1, y), T)
              = IF y \in T THEN Append(Among(q1, T), y) ELSE Among(q1, T)
    BY AmongGrows
  <2>3. Among(q, S) = Among(q, T) /\ (x \in S <=> x \in T)
    BY <1>2
  <2>4. Append(q, x) \in Seq(R)
    OBVIOUS
  <2>5. QED
    BY <2>1, <2>2, <2>3, <2>4
<1> HIDE DEF Q
<1>3. s \in Q
  BY <1>1, <1>2, Elements
<1>4. QED
  BY <1>3 DEF Q

LEMMA FactsAre ==
  ASSUME NEW l \in Seq(Records)
  PROVE  Facts(l) = Among(l, Trades \cup Resets)
<1>1. PICK S : S = {rec \in ToSet(l) : rec.kind \in {"trade", "reset"}}
  OBVIOUS
<1>2. PICK R : R = ToSet(l)
  OBVIOUS
<1>3. l \in Seq(R) /\ R \subseteq Records
  BY <1>2 DEF ToSet
<1>4. \A x \in R : x \in S <=> x \in Trades \cup Resets
  <2>1. \A x \in Records : x \in Trades \cup Resets <=> x.kind \in {"trade", "reset"}
    BY DEF Records, Users, Trades, Prices, Clocks, Pauses, Resets
  <2>2. QED
    BY <1>1, <1>2, <1>3, <2>1
<1>5. Among(l, S) = Among(l, Trades \cup Resets)
  BY <1>3, <1>4, AmongSame
<1>6. QED
  BY <1>1, <1>5 DEF Facts

(* A trade or a reset is never dropped, and never replaced. *)
LEMMA FactsStay ==
  ASSUME NEW log \in Seq(Records), NEW k \in DOMAIN log
  PROVE  /\ log[k] \in Trades \cup Resets => ~Dropped(log, k) /\ Content(log, k) = log[k]
         /\ log[k] \notin Trades \cup Resets => Content(log, k) \notin Trades \cup Resets
         /\ Content(log, k) \in Records /\ Group(Content(log, k)) = Group(log[k])
<1>1. log[k] \in Records
  OBVIOUS
<1>2. Content(log, k) \in Records /\ Group(Content(log, k)) = Group(log[k])
  BY WhatDrops
<1>3. \A x \in Records : x \in Trades \cup Resets <=> Group(x) \in {<<"trade">>, <<"reset">>}
  BY Keys
<1>4. ASSUME log[k] \in Trades \cup Resets PROVE ~Dropped(log, k) /\ Content(log, k) = log[k]
  <2>1. Latest(log[k].kind) = 0
    BY <1>4 DEF Trades, Resets, Latest
  <2>2. QED
    BY <2>1, WhatDrops
<1>5. QED
  BY <1>1, <1>2, <1>3, <1>4

LEMMA CompactedFacts ==
  ASSUME NEW log \in Seq(Records)
  PROVE  Facts(Compacted(log)) = Facts(log)
<1>1. PICK h : Chain(log, h)
  BY CompactedIs
<1>2. PICK S : S = Trades \cup Resets
  OBVIOUS
<1>3. PICK n : n = Len(log)
  OBVIOUS
<1>4. /\ n \in Nat /\ DOMAIN log = 1 .. n /\ h[0] = <<>> /\ Compacted(log) = h[n]
      /\ \A k \in 0 .. n : h[k] \in Seq(Records)
      /\ \A k \in 1 .. n :
            h[k] = IF Dropped(log, k) THEN h[k - 1] ELSE Append(h[k - 1], Content(log, k))
  BY <1>1, <1>3 DEF Chain
<1>5. /\ Upto(log, 0) = <<>> /\ Upto(log, n) = log
      /\ \A k \in 0 .. n : Upto(log, k) \in Seq(Records)
      /\ \A k \in 1 .. n : log[k] \in Records /\ Upto(log, k) = Append(Upto(log, k - 1), log[k])
  BY <1>3, UptoIs
<1> DEFINE N == {k \in Nat : k <= n => Among(h[k], S) = Among(Upto(log, k), S)}
<1>6. 0 \in N
  BY <1>4, <1>5
<1>7. ASSUME NEW m \in Nat, m \in N PROVE m + 1 \in N
  <2> SUFFICES ASSUME m + 1 <= n PROVE Among(h[m + 1], S) = Among(Upto(log, m + 1), S)
    OBVIOUS
  <2>1. PICK k : k = m + 1
    OBVIOUS
  <2>2. k \in 1 .. n /\ k - 1 = m /\ m \in 0 .. n /\ Among(h[m], S) = Among(Upto(log, m), S)
    BY <1>4, <1>7, <2>1
  <2>3. PICK a : a = Upto(log, m)
    OBVIOUS
  <2>4. PICK b : b = h[m]
    OBVIOUS
  <2>5. /\ a \in Seq(Records) /\ b \in Seq(Records) /\ log[k] \in Records
        /\ Upto(log, k) = Append(a, log[k])
        /\ h[k] = IF Dropped(log, k) THEN b ELSE Append(b, Content(log, k))
    BY <1>4, <1>5, <2>2, <2>3, <2>4
  <2>6. \A q1 \in Seq(Records), y \in Records :
           Among(Append(q1, y), S)
              = IF y \in S THEN Append(Among(q1, S), y) ELSE Among(q1, S)
    BY AmongGrows
  <2>7. PICK x : x = Content(log, k)
    OBVIOUS
  <2>8. /\ x \in Records
        /\ log[k] \in S => ~Dropped(log, k) /\ x = log[k]
        /\ log[k] \notin S => x \notin S
    BY <1>2, <1>4, <2>2, <2>7, FactsStay
  <2>9. CASE log[k] \in S
    <3>1. Among(Append(a, log[k]), S) = Append(Among(a, S), log[k])
      BY <2>5, <2>6, <2>9
    <3>2. x = log[k] /\ h[k] = Append(b, x)
      BY <2>5, <2>7, <2>8, <2>9
    <3>3. Among(Append(b, x), S) = Append(Among(b, S), x)
      BY <2>5, <2>6, <2>9, <3>2
    <3>4. Among(a, S) = Among(b, S)
      BY <2>2, <2>3, <2>4
    <3>5. QED
      BY <2>1, <2>5, <3>1, <3>2, <3>3, <3>4
  <2>10. CASE log[k] \notin S
    <3>1. Among(Append(a, log[k]), S) = Among(a, S)
      BY <2>5, <2>6, <2>10
    <3>2. Among(Append(b, x), S) = Among(b, S)
      BY <2>5, <2>6, <2>8, <2>10
    <3>3. h[k] = b \/ h[k] = Append(b, x)
      BY <2>5, <2>7
    <3>4. QED
      BY <2>1, <2>2, <2>3, <2>4, <2>5, <3>1, <3>2, <3>3
  <2>11. QED
    BY <2>9, <2>10
<1> HIDE DEF N
<1>8. n \in N
  BY <1>4, <1>6, <1>7, Numbers
<1>9. Among(Compacted(log), S) = Among(log, S)
  BY <1>4, <1>5, <1>8 DEF N
<1>10. Compacted(log) \in Seq(Records)
  BY <1>4
<1>11. QED
  BY <1>2, <1>9, <1>10, FactsAre

LEMMA NewestIs ==
  ASSUME NEW l \in Seq(Records), NEW x
  PROVE  x \in Newest(l) <=> \E g : Has(l, g) /\ x = NewestOf(l, g)
<1>1. \A i \in DOMAIN l : Peers(l, i) = Places(l, Group(l[i]))
  BY DEF Peers, Places
<1>2. \A i \in DOMAIN l : Has(l, Group(l[i]))
  BY DEF Has, Places
<1>3. ASSUME x \in Newest(l) PROVE \E g : Has(l, g) /\ x = NewestOf(l, g)
  <2>1. PICK i \in DOMAIN l : x = l[Max(Peers(l, i))]
    BY <1>3 DEF Newest
  <2>2. Has(l, Group(l[i])) /\ x = NewestOf(l, Group(l[i]))
    BY <1>1, <1>2, <2>1 DEF NewestOf
  <2>3. QED
    BY <2>2
<1>4. ASSUME NEW g, Has(l, g), x = NewestOf(l, g) PROVE x \in Newest(l)
  <2>1. PICK i \in Places(l, g) : TRUE
    BY <1>4 DEF Has
  <2>2. i \in DOMAIN l /\ Group(l[i]) = g
    BY DEF Places
  <2>3. x = l[Max(Peers(l, i))]
    BY <1>1, <1>4, <2>2 DEF NewestOf
  <2>4. QED
    BY <2>2, <2>3 DEF Newest
<1>5. QED
  BY <1>3, <1>4

LEMMA CompactedNewest ==
  ASSUME NEW log \in Seq(Records)
  PROVE  Newest(Compacted(log)) = Newest(log)
<1>1. Compacted(log) \in Seq(Records)
  BY NewestKept
<1>2. \A g : /\ Has(Compacted(log), g) <=> Has(log, g)
             /\ Has(log, g) => NewestOf(Compacted(log), g) = NewestOf(log, g)
  BY NewestKept
<1>3. \A x : x \in Newest(Compacted(log)) <=> x \in Newest(log)
  BY <1>1, <1>2, NewestIs
<1>4. QED
  BY <1>3

-----------------------------------------------------------------------------
(* A key's records in a prefix, and the newest of them. *)
LEMMA PlacesUpto ==
  ASSUME NEW l \in Seq(Records), NEW k \in 0 .. Len(l), NEW g
  PROVE  Has(Upto(l, k), g) <=> \E j \in Places(l, g) : j <= k
<1>1. PICK n : n = Len(l)
  OBVIOUS
<1>2. n \in Nat /\ DOMAIN l = 1 .. n /\ k \in 0 .. n
  BY <1>1
<1>3. PICK p : p = Upto(l, k)
  OBVIOUS
<1>4. DOMAIN p = 1 .. k /\ \A j \in 1 .. k : p[j] = l[j]
  BY <1>3 DEF Upto
<1>5. ASSUME Has(p, g) PROVE \E j \in Places(l, g) : j <= k
  <2>1. PICK j \in 1 .. k : Group(p[j]) = g
    BY <1>4, <1>5 DEF Has, Places
  <2>2. j \in Places(l, g) /\ j <= k
    BY <1>2, <1>4, <2>1 DEF Places
  <2>3. QED
    BY <2>2
<1>6. ASSUME NEW j \in Places(l, g), j <= k PROVE Has(p, g)
  <2>1. j \in 1 .. k /\ Group(l[j]) = g
    BY <1>2, <1>6 DEF Places
  <2>2. QED
    BY <1>4, <2>1 DEF Has, Places
<1>7. QED
  BY <1>3, <1>5, <1>6

LEMMA NewestIsThere ==
  ASSUME NEW l \in Seq(Records), NEW g, Has(l, g)
  PROVE  \E i \in DOMAIN l : /\ NewestOf(l, g) = l[i] /\ Group(l[i]) = g /\ l[i] \in Records
<1>1. PICK i \in Places(l, g) : TRUE
  BY DEF Has
<1>2. i \in DOMAIN l /\ Peers(l, i) = Places(l, g)
  BY DEF Places, Peers
<1>3. Max(Places(l, g)) \in Places(l, g)
  BY <1>2, NewestPeer
<1>4. PICK m : m = Max(Places(l, g))
  OBVIOUS
<1>5. m \in DOMAIN l /\ Group(l[m]) = g /\ l[m] \in Records /\ NewestOf(l, g) = l[m]
  BY <1>3, <1>4 DEF Places, NewestOf
<1>6. QED
  BY <1>5

(* No team became the organiser; then every user is a team. *)
Unpromoted(l) == \A i \in DOMAIN l : l[i].kind = "user" => ~l[i].admin

LEMMA UnpromotedGrows ==
  /\ Unpromoted(<<>>)
  /\ \A l \in Seq(Records), x \in Records :
        Unpromoted(Append(l, x)) <=> Unpromoted(l) /\ (x \in Users => ~x.admin)
<1>1. Unpromoted(<<>>)
  BY DEF Unpromoted
<1>2. ASSUME NEW l \in Seq(Records), NEW x \in Records
      PROVE  Unpromoted(Append(l, x)) <=> Unpromoted(l) /\ (x \in Users => ~x.admin)
  <2>1. x \in Users <=> x.kind = "user"
    BY DEF Records, Users, Trades, Prices, Clocks, Pauses, Resets
  <2>2. PICK t : t = Append(l, x)
    OBVIOUS
  <2>3. PICK n : n = Len(l)
    OBVIOUS
  <2>4. /\ n \in Nat /\ DOMAIN l = 1 .. n /\ DOMAIN t = 1 .. n + 1 /\ t[n + 1] = x
        /\ \A i \in 1 .. n : t[i] = l[i]
    BY <2>2, <2>3
  <2>5. Unpromoted(t) <=> Unpromoted(l) /\ (x.kind = "user" => ~x.admin)
    BY <2>4 DEF Unpromoted
  <2>6. QED
    BY <2>1, <2>2, <2>5
<1>3. QED
  BY <1>1, <1>2

TeamsOnly(l) ==
    /\ \A u \in DOMAIN Rebuilt(l).users : ~Rebuilt(l).users[u].admin
    /\ Teams(Rebuilt(l)) = DOMAIN Rebuilt(l).users
    /\ DOMAIN Rebuilt(l).accounts = DOMAIN Rebuilt(l).users

LEMMA TeamsAre ==
  ASSUME NEW l \in Seq(Records), Unpromoted(l)
  PROVE  /\ \A u \in DOMAIN Rebuilt(l).users : ~Rebuilt(l).users[u].admin
         /\ Teams(Rebuilt(l)) = DOMAIN Rebuilt(l).users
<1>1. ASSUME NEW u \in DOMAIN Rebuilt(l).users PROVE ~Rebuilt(l).users[u].admin
  <2>1. Has(l, <<"user", u>>) /\ Rebuilt(l).users[u] = NewestOf(l, <<"user", u>>)
    BY UsersAreTold DEF UsersTold
  <2>2. PICK i \in DOMAIN l : /\ NewestOf(l, <<"user", u>>) = l[i]
                              /\ Group(l[i]) = <<"user", u>> /\ l[i] \in Records
    BY <2>1, NewestIsThere
  <2>3. l[i] \in Users
    BY <2>2, Keys
  <2>4. l[i].kind = "user"
    BY <2>3 DEF Users
  <2>5. QED
    BY <2>1, <2>2, <2>4 DEF Unpromoted
<1>2. QED
  BY <1>1 DEF Teams

LEMMA TeamsHaveAccounts ==
  \A l \in Seq(Records) : Unpromoted(l) => TeamsOnly(l)
<1> DEFINE S == {l \in Seq(Records) : Unpromoted(l) => TeamsOnly(l)}
<1>1. <<>> \in S
  <2>1. TeamsOnly(<<>>)
    BY RebuiltSteps DEF TeamsOnly, Fresh, Teams
  <2>2. QED
    BY <2>1
<1>2. ASSUME NEW l \in Seq(Records), NEW x \in Records, l \in S PROVE Append(l, x) \in S
  <2>1. PICK t : t = Append(l, x)
    OBVIOUS
  <2>2. PICK a : a = Rebuilt(l)
    OBVIOUS
  <2>3. PICK b : b = Rebuilt(t)
    OBVIOUS
  <2>4. t \in Seq(Records) /\ b = Effect(a, x) /\ State(a)
    BY <2>1, <2>2, <2>3, RebuiltSteps, RebuiltState
  <2> SUFFICES ASSUME Unpromoted(t) PROVE TeamsOnly(t)
    BY <2>1, <2>4
  <2>5. Unpromoted(l) /\ (x \in Users => ~x.admin)
    BY <2>1, UnpromotedGrows
  <2>6. Teams(a) = DOMAIN a.users /\ DOMAIN a.accounts = DOMAIN a.users
    BY <1>2, <2>2, <2>5 DEF TeamsOnly
  <2>7. DOMAIN b.accounts = DOMAIN b.users
    <3>1. CASE x \in Users
      <4>1. /\ b.users = Set(a.users, x.id, x)
            /\ b.accounts = IF x.id \in DOMAIN a.accounts THEN a.accounts
                            ELSE Set(a.accounts, x.id, NewAccount)
        BY <2>4, <2>5, <3>1, UserEffect
      <4>2. DOMAIN b.users = DOMAIN a.users \cup {x.id}
        BY <4>1 DEF Set
      <4>3. DOMAIN b.accounts = DOMAIN a.accounts \cup {x.id}
        BY <4>1 DEF Set
      <4>4. QED
        BY <2>6, <4>2, <4>3
    <3>2. CASE x \in Trades
      <4>1. /\ b.users = a.users
            /\ b.accounts = IF x.id \notin DOMAIN a.accounts THEN a.accounts
                            ELSE [a.accounts EXCEPT ![x.id] =
                                     [cash |-> @.cash - x.price, shares |-> @.shares + 1]]
        BY <2>4, <3>2, TradeEffect
      <4>2. DOMAIN b.accounts = DOMAIN a.accounts
        BY <4>1
      <4>3. QED
        BY <2>6, <4>1, <4>2
    <3>3. CASE x \in Resets
      <4>1. /\ b.users = IF x.everything THEN [u \in DOMAIN a.users \ Teams(a) |-> a.users[u]]
                         ELSE a.users
            /\ b.accounts = [u \in Teams(a) \cap DOMAIN b.users |-> NewAccount]
        BY <2>4, <3>3, ResetEffect
      <4>2. DOMAIN b.users \subseteq DOMAIN a.users
        BY <4>1
      <4>3. DOMAIN b.accounts = Teams(a) \cap DOMAIN b.users
        BY <4>1
      <4>4. QED
        BY <2>6, <4>2, <4>3
    <3>4. CASE x \notin Users /\ x \notin Trades /\ x \notin Resets
      <4>1. b.users = a.users /\ b.accounts = a.accounts
        BY <2>4, <3>4, Untouched
      <4>2. QED
        BY <2>6, <4>1
    <3>5. QED
      BY <3>1, <3>2, <3>3, <3>4
  <2>8. TeamsOnly(t)
    BY <2>3, <2>4, <2>7, TeamsAre DEF TeamsOnly
  <2>9. QED
    BY <2>8
<1> HIDE DEF S
<1>3. \A l \in Seq(Records) : l \in S
  BY <1>1, <1>2, Elements
<1>4. QED
  BY <1>3 DEF S

-----------------------------------------------------------------------------
(* What every log is like: a user with a record keeps it while there are   *)
(* more, the organiser stays the organiser, and trades find their account. *)
Known(l, i)   == l[i].id \in DOMAIN Rebuilt(Upto(l, i - 1)).users
NoRevival(l)  == \A i \in 1 .. Len(l) :
                    l[i] \in Users /\ Has(Upto(l, i - 1), Group(l[i])) => Known(l, i)
AdminsLast(l) == \A i \in DOMAIN l :
                    l[i] \in Users /\ l[i].admin => NewestOf(l, Group(l[i])).admin
Sound(l) ==
    l \in Seq(Records) /\ NoRevival(l) /\ AdminsLast(l) /\ (Unpromoted(l) => Rebuilt(l).ok)

(* The records that may come next. *)
Allowed(l, x) ==
    /\ x \in Records
    /\ x \in Users /\ Has(l, Group(x)) => x.id \in Teams(Rebuilt(l))
    /\ x \in Trades => x.id \in Teams(Rebuilt(l))

LEMMA NoRevivalGrows ==
  ASSUME NEW l \in Seq(Records), NoRevival(l), NEW x \in Records,
         x \in Users /\ Has(l, Group(x)) => x.id \in DOMAIN Rebuilt(l).users
  PROVE  NoRevival(Append(l, x))
<1>1. PICK t : t = Append(l, x)
  OBVIOUS
<1>2. PICK n : n = Len(l)
  OBVIOUS
<1>3. /\ n \in Nat /\ Len(t) = n + 1 /\ t[n + 1] = x /\ t \in Seq(Records)
      /\ \A i \in 1 .. n : t[i] = l[i]
  BY <1>1, <1>2
<1>4. Upto(l, n) = l /\ \A k \in 0 .. n : Upto(t, k) = Upto(l, k)
  BY <1>1, <1>2, UptoIs
<1>5. ASSUME NEW i \in 1 .. n + 1, t[i] \in Users, Has(Upto(t, i - 1), Group(t[i]))
      PROVE  Known(t, i)
  <2>0. i - 1 \in 0 .. n
    BY <1>3
  <2>1. CASE i = n + 1
    <3>1. Upto(t, i - 1) = l /\ t[i] = x
      BY <1>3, <1>4, <2>0, <2>1
    <3>2. QED
      BY <1>5, <3>1 DEF Known
  <2>2. CASE i # n + 1
    <3>1. i \in 1 .. n
      BY <1>3, <2>2
    <3>2. Upto(t, i - 1) = Upto(l, i - 1) /\ t[i] = l[i]
      BY <1>3, <1>4, <2>0, <3>1
    <3>3. Known(l, i)
      BY <1>2, <1>5, <3>1, <3>2 DEF NoRevival
    <3>4. QED
      BY <3>2, <3>3 DEF Known
  <2>3. QED
    BY <2>1, <2>2
<1>6. NoRevival(t)
  BY <1>3, <1>5 DEF NoRevival
<1>7. QED
  BY <1>1, <1>6

LEMMA AdminsLastGrows ==
  ASSUME NEW l \in Seq(Records), AdminsLast(l), NEW x \in Records,
         x \in Users /\ Has(l, Group(x)) => ~NewestOf(l, Group(x)).admin
  PROVE  AdminsLast(Append(l, x))
<1>1. PICK t : t = Append(l, x)
  OBVIOUS
<1>2. PICK n : n = Len(l)
  OBVIOUS
<1>3. /\ n \in Nat /\ DOMAIN l = 1 .. n /\ DOMAIN t = 1 .. n + 1 /\ t[n + 1] = x
      /\ \A i \in 1 .. n : t[i] = l[i]
  BY <1>1, <1>2
<1>4. \A g : /\ Group(x) = g => NewestOf(t, g) = x
             /\ Group(x) # g => (Has(l, g) => NewestOf(t, g) = NewestOf(l, g))
  BY <1>1, LastGrows
<1>5. ASSUME NEW i \in 1 .. n + 1, t[i] \in Users, t[i].admin
      PROVE  NewestOf(t, Group(t[i])).admin
  <2>1. CASE i = n + 1
    <3>1. t[i] = x
      BY <1>3, <2>1
    <3>2. NewestOf(t, Group(t[i])) = x
      BY <1>4, <3>1
    <3>3. QED
      BY <1>5, <3>1, <3>2
  <2>2. CASE i # n + 1
    <3>1. i \in 1 .. n /\ t[i] = l[i]
      BY <1>3, <2>2
    <3>2. NewestOf(l, Group(l[i])).admin
      BY <1>3, <1>5, <3>1 DEF AdminsLast
    <3>3. Has(l, Group(l[i]))
      BY <1>3, <3>1 DEF Has, Places
    <3>4. Group(x) # Group(l[i])
      <4> SUFFICES ASSUME Group(x) = Group(l[i]) PROVE FALSE
        OBVIOUS
      <4>1. \E u : Group(l[i]) = <<"user", u>>
        BY <1>5, <3>1 DEF Users, Group
      <4>2. x \in Users
        BY <4>1, Keys
      <4>3. QED
        BY <3>2, <3>3, <4>2
    <3>5. QED
      BY <1>4, <3>1, <3>2, <3>3, <3>4
  <2>3. QED
    BY <2>1, <2>2
<1>6. AdminsLast(t)
  BY <1>3, <1>5 DEF AdminsLast
<1>7. QED
  BY <1>1, <1>6

(* A record that may come leaves the log sound. *)
LEMMA SoundGrows ==
  ASSUME NEW l, Sound(l), NEW x, Allowed(l, x)
  PROVE  Sound(Append(l, x))
<1>0. l \in Seq(Records) /\ x \in Records
  BY DEF Sound, Allowed
<1>1. PICK t : t = Append(l, x)
  OBVIOUS
<1>2. PICK a : a = Rebuilt(l)
  OBVIOUS
<1>3. t \in Seq(Records) /\ Rebuilt(t) = Effect(a, x) /\ State(a)
  BY <1>0, <1>1, <1>2, RebuiltSteps, RebuiltState
<1>4. ASSUME x \in Users, Has(l, Group(x))
      PROVE  x.id \in DOMAIN a.users /\ ~NewestOf(l, Group(x)).admin
  <2>1. x.id \in DOMAIN a.users /\ ~a.users[x.id].admin
    BY <1>2, <1>4 DEF Allowed, Teams
  <2>2. a.users[x.id] = NewestOf(l, <<"user", x.id>>)
    BY <1>0, <1>2, <2>1, UsersAreTold DEF UsersTold
  <2>3. Group(x) = <<"user", x.id>>
    BY <1>4 DEF Users, Group
  <2>4. QED
    BY <2>1, <2>2, <2>3
<1>5. NoRevival(t)
  BY <1>0, <1>1, <1>2, <1>4, NoRevivalGrows DEF Sound
<1>6. AdminsLast(t)
  BY <1>0, <1>1, <1>4, AdminsLastGrows DEF Sound
<1>7. ASSUME Unpromoted(t) PROVE Rebuilt(t).ok
  <2>1. Unpromoted(l)
    BY <1>0, <1>1, <1>7, UnpromotedGrows
  <2>2. a.ok /\ Teams(a) = DOMAIN a.accounts
    BY <1>0, <1>2, <2>1, TeamsHaveAccounts DEF Sound, TeamsOnly
  <2>3. CASE x \in Trades
    <3>1. x.id \in DOMAIN a.accounts
      BY <1>2, <2>2, <2>3 DEF Allowed
    <3>2. Effect(a, x).ok = IF x.id \in DOMAIN a.accounts THEN a.ok ELSE FALSE
      BY <1>3, <2>3, TradeEffect
    <3>3. QED
      BY <1>3, <2>2, <3>1, <3>2
  <2>4. CASE x \in Resets
    <3>1. Effect(a, x).ok = a.ok
      BY <1>3, <2>4, ResetEffect
    <3>2. QED
      BY <1>3, <2>2, <3>1
  <2>5. CASE x \notin Trades /\ x \notin Resets
    <3>1. Effect(a, x).ok = a.ok
      BY <1>0, <1>3, <2>5, Untouched
    <3>2. QED
      BY <1>3, <2>2, <3>1
  <2>6. QED
    BY <2>3, <2>4, <2>5
<1>8. Sound(t)
  BY <1>3, <1>5, <1>6, <1>7 DEF Sound
<1>9. QED
  BY <1>1, <1>8

-----------------------------------------------------------------------------
(* What stands in the new file was in the old one. *)
LEMMA ContentIs ==
  ASSUME NEW log \in Seq(Records), NEW k \in DOMAIN log
  PROVE  /\ \E m \in DOMAIN log : Content(log, k) = log[m]
         /\ Content(log, k) \in Records /\ Group(Content(log, k)) = Group(log[k])
         /\ log[k] \in Users => /\ Content(log, k) = NewestOf(log, Group(log[k]))
                                /\ Content(log, k) \in Users
                                /\ Content(log, k).id = log[k].id
                                /\ Dropped(log, k) <=>
                                      \E j \in Places(log, Group(log[k])) : j < k
<1>1. PICK g : g = Group(log[k])
  OBVIOUS
<1>2. k \in Places(log, g) /\ Content(log, k) \in Records /\ Group(Content(log, k)) = g
  BY <1>1, WhatDrops
<1>3. PICK i \in DOMAIN log : NewestOf(log, g) = log[i]
  BY <1>2, NewestIsThere DEF Has
<1>4. Latest(log[k].kind) = 1 => Content(log, k) = NewestOf(log, g)
  BY <1>1, WhatDrops
<1>5. Latest(log[k].kind) # 1 => Content(log, k) = log[k]
  BY <1>1, WhatDrops
<1>6. \E m \in DOMAIN log : Content(log, k) = log[m]
  BY <1>3, <1>4, <1>5
<1>7. ASSUME log[k] \in Users
      PROVE  /\ Content(log, k) = NewestOf(log, g) /\ Content(log, k) \in Users
             /\ Content(log, k).id = log[k].id
             /\ Dropped(log, k) <=> \E j \in Places(log, g) : j < k
  <2>1. Latest(log[k].kind) = 1 /\ g = <<"user", log[k].id>>
    BY <1>1, <1>7 DEF Latest, Users, Group
  <2>2. Dropped(log, k) <=> \E j \in Places(log, g) : j < k
    BY <1>1, <2>1, WhatDrops
  <2>3. Content(log, k) \in Users
    BY <1>2, <2>1, Keys
  <2>4. Content(log, k).id = log[k].id
    BY <1>2, <2>1, <2>3, Keys
  <2>5. QED
    BY <1>4, <2>1, <2>2, <2>3, <2>4
<1>8. QED
  BY <1>1, <1>2, <1>6, <1>7

LEMMA ChainContents ==
  ASSUME NEW log \in Seq(Records), NEW h, Chain(log, h), NEW k \in 0 .. Len(log)
  PROVE  \A i \in DOMAIN h[k] : \E j \in DOMAIN log : h[k][i] = Content(log, j)
<1> DEFINE From(s) == \A i \in DOMAIN s : \E j \in DOMAIN log : s[i] = Content(log, j)
           N == {n \in Nat : n <= Len(log) => From(h[n])}
<1>1. 0 \in N
  BY DEF Chain
<1>2. ASSUME NEW n \in Nat, n \in N PROVE n + 1 \in N
  <2> SUFFICES ASSUME n + 1 <= Len(log) PROVE From(h[n + 1])
    OBVIOUS
  <2>1. PICK m : m = n + 1
    OBVIOUS
  <2>2. m \in 1 .. Len(log) /\ m - 1 = n /\ n \in 0 .. Len(log) /\ m \in DOMAIN log
    BY <2>1
  <2>3. PICK s : s = h[n]
    OBVIOUS
  <2>4. s \in Seq(Records) /\ From(s)
    BY <1>2, <2>2, <2>3 DEF Chain
  <2>5. h[m] = s \/ h[m] = Append(s, Content(log, m))
    BY <2>2, <2>3 DEF Chain
  <2>6. PICK x : x = Content(log, m)
    OBVIOUS
  <2>7. PICK t : t = Append(s, x)
    OBVIOUS
  <2>8. /\ DOMAIN s = 1 .. Len(s) /\ DOMAIN t = 1 .. Len(s) + 1 /\ t[Len(s) + 1] = x
        /\ Len(s) \in Nat /\ \A i \in 1 .. Len(s) : t[i] = s[i]
    BY <2>4, <2>7
  <2>9. From(t)
    BY <2>2, <2>4, <2>6, <2>8
  <2>10. QED
    BY <2>1, <2>4, <2>5, <2>6, <2>7, <2>9
<1> HIDE DEF N
<1>3. k \in N
  BY <1>1, <1>2, Numbers
<1>4. QED
  BY <1>3 DEF N

LEMMA ChainUnpromoted ==
  ASSUME NEW log \in Seq(Records), NEW h, Chain(log, h), NEW k \in 0 .. Len(log),
         Unpromoted(log)
  PROVE  Unpromoted(h[k])
<1> SUFFICES ASSUME NEW i \in DOMAIN h[k], h[k][i].kind = "user" PROVE ~h[k][i].admin
  BY DEF Unpromoted
<1>1. PICK j \in DOMAIN log : h[k][i] = Content(log, j)
  BY ChainContents
<1>2. PICK m \in DOMAIN log : Content(log, j) = log[m]
  BY ContentIs
<1>3. QED
  BY <1>1, <1>2 DEF Unpromoted

LEMMA CompactedUnpromoted ==
  ASSUME NEW log, Sound(log)
  PROVE  Unpromoted(Compacted(log)) <=> Unpromoted(log)
<1>0. log \in Seq(Records)
  BY DEF Sound
<1>1. PICK h : Chain(log, h)
  BY <1>0, CompactedIs
<1>2. Len(log) \in 0 .. Len(log) /\ Compacted(log) = h[Len(log)]
  BY <1>0, <1>1 DEF Chain
<1>3. Unpromoted(log) => Unpromoted(Compacted(log))
  BY <1>0, <1>1, <1>2, ChainUnpromoted
<1>4. ASSUME Unpromoted(Compacted(log)), NEW i \in DOMAIN log, log[i].kind = "user", log[i].admin
      PROVE  FALSE
  <2>1. log[i] \in Users
    BY <1>0, <1>4 DEF Records, Users, Trades, Prices, Clocks, Pauses, Resets
  <2>2. PICK g : g = Group(log[i])
    OBVIOUS
  <2>3. g = <<"user", log[i].id>>
    BY <2>1, <2>2 DEF Group, Users
  <2>4. NewestOf(log, g).admin
    BY <1>4, <2>1, <2>2 DEF Sound, AdminsLast
  <2>5. Has(log, g)
    BY <2>2 DEF Has, Places
  <2>6. PICK c : c = Compacted(log)
    OBVIOUS
  <2>7. Has(c, g) /\ NewestOf(c, g) = NewestOf(log, g) /\ c \in Seq(Records)
    BY <1>0, <2>5, <2>6, NewestKept
  <2>8. PICK m \in DOMAIN c : NewestOf(c, g) = c[m] /\ Group(c[m]) = g /\ c[m] \in Records
    BY <2>7, NewestIsThere
  <2>9. c[m] \in Users
    BY <2>3, <2>8, Keys
  <2>10. c[m].kind = "user"
    BY <2>9 DEF Users
  <2>11. QED
    BY <1>4, <2>4, <2>6, <2>7, <2>8, <2>10 DEF Unpromoted
<1>5. QED
  BY <1>3, <1>4 DEF Unpromoted

(* A user has one record in the new file, its newest. *)
LEMMA CompactedNoRevival ==
  ASSUME NEW log \in Seq(Records)
  PROVE  NoRevival(Compacted(log))
<1>1. PICK h : Chain(log, h)
  BY CompactedIs
<1> DEFINE N == {n \in Nat : n <= Len(log) => NoRevival(h[n])}
<1>2. 0 \in N
  <2>1. NoRevival(<<>>)
    BY DEF NoRevival
  <2>2. QED
    BY <1>1, <2>1 DEF Chain
<1>3. ASSUME NEW n \in Nat, n \in N PROVE n + 1 \in N
  <2> SUFFICES ASSUME n + 1 <= Len(log) PROVE NoRevival(h[n + 1])
    OBVIOUS
  <2>1. PICK m : m = n + 1
    OBVIOUS
  <2>2. m \in 1 .. Len(log) /\ m - 1 = n /\ n \in 0 .. Len(log) /\ m \in DOMAIN log
    BY <2>1
  <2>3. PICK s : s = h[n]
    OBVIOUS
  <2>4. s \in Seq(Records) /\ NoRevival(s)
    BY <1>1, <1>3, <2>2, <2>3 DEF Chain
  <2>5. CASE Dropped(log, m)
    <3>1. h[m] = s
      BY <1>1, <2>2, <2>3, <2>5 DEF Chain
    <3>2. QED
      BY <2>1, <2>4, <3>1
  <2>6. CASE ~Dropped(log, m)
    <3>1. PICK x : x = Content(log, m)
      OBVIOUS
    <3>2. h[m] = Append(s, x)
      BY <1>1, <2>2, <2>3, <2>6, <3>1 DEF Chain
    <3>3. x \in Records /\ Group(x) = Group(log[m])
      BY <2>2, <3>1, ContentIs
    <3>4. ASSUME x \in Users PROVE ~Has(s, Group(x))
      <4>1. log[m] \in Users
        <5>1. \E u : Group(log[m]) = <<"user", u>>
          BY <3>3, <3>4 DEF Group, Users
        <5>2. log[m] \in Records
          BY <2>2
        <5>3. QED
          BY <5>1, <5>2, Keys
      <4>2. ~ \E j \in Places(log, Group(log[m])) : j < m
        BY <2>2, <2>6, <4>1, ContentIs
      <4>3. Has(s, Group(x)) => \E j \in Places(log, Group(log[m])) : j <= n
        BY <1>1, <2>2, <2>3, <3>3, NoNewKey
      <4>4. \A j \in Places(log, Group(log[m])) : j \in Nat
        BY DEF Places
      <4>5. \A j \in Nat : j <= n => j < m
        BY <2>1
      <4>6. QED
        BY <4>2, <4>3, <4>4, <4>5
    <3>5. NoRevival(Append(s, x))
      BY <2>4, <3>3, <3>4, NoRevivalGrows
    <3>6. QED
      BY <2>1, <3>2, <3>5
  <2>7. QED
    BY <2>5, <2>6
<1> HIDE DEF N
<1>4. Len(log) \in N
  BY <1>2, <1>3, Numbers
<1>5. QED
  BY <1>1, <1>4 DEF N, Chain

LEMMA CompactedAdminsLast ==
  ASSUME NEW log \in Seq(Records)
  PROVE  AdminsLast(Compacted(log))
<1>1. PICK c : c = Compacted(log)
  OBVIOUS
<1>2. c \in Seq(Records)
  BY <1>1, NewestKept
<1>3. ASSUME NEW i \in DOMAIN c, c[i] \in Users PROVE NewestOf(c, Group(c[i])) = c[i]
  <2>1. PICK h : Chain(log, h)
    BY CompactedIs
  <2>2. Len(log) \in 0 .. Len(log) /\ c = h[Len(log)]
    BY <1>1, <2>1 DEF Chain
  <2>3. PICK j \in DOMAIN log : c[i] = Content(log, j)
    BY <1>3, <2>1, <2>2, ChainContents
  <2>4. Group(c[i]) = Group(log[j]) /\ log[j] \in Records
    BY <2>3, ContentIs
  <2>5. log[j] \in Users
    <3>1. \E u : Group(log[j]) = <<"user", u>>
      BY <1>3, <2>4 DEF Group, Users
    <3>2. QED
      BY <2>4, <3>1, Keys
  <2>6. c[i] = NewestOf(log, Group(c[i]))
    BY <2>3, <2>4, <2>5, ContentIs
  <2>7. Has(log, Group(c[i]))
    BY <2>4 DEF Has, Places
  <2>8. NewestOf(c, Group(c[i])) = NewestOf(log, Group(c[i]))
    BY <1>1, <2>7, NewestKept
  <2>9. QED
    BY <2>6, <2>8
<1>4. AdminsLast(c)
  BY <1>3 DEF AdminsLast
<1>5. QED
  BY <1>1, <1>4

-----------------------------------------------------------------------------
(* The old file and the new rebuild the same accounts, whatever was dropped. *)
Match(a, b) == DOMAIN a.users = DOMAIN b.users /\ a.accounts = b.accounts /\ a.ok = b.ok

LEMMA MatchSkip ==
  ASSUME NEW a, NEW b, State(a), Match(a, b), DOMAIN a.accounts = DOMAIN a.users,
         NEW x \in Records, x \notin Trades, x \notin Resets,
         x \in Users => x.id \in DOMAIN a.users
  PROVE  Match(Effect(a, x), b)
<1>1. CASE x \in Users
  <2>1. /\ Effect(a, x).users = Set(a.users, x.id, x)
        /\ Effect(a, x).accounts = IF x.admin \/ x.id \in DOMAIN a.accounts THEN a.accounts
                                   ELSE Set(a.accounts, x.id, NewAccount)
        /\ Effect(a, x).ok = a.ok
    BY <1>1, UserEffect
  <2>2. DOMAIN Effect(a, x).users = DOMAIN a.users
    BY <1>1, <2>1 DEF Set
  <2>3. Effect(a, x).accounts = a.accounts
    BY <1>1, <2>1
  <2>4. QED
    BY <2>1, <2>2, <2>3 DEF Match
<1>2. CASE x \notin Users
  <2>1. Effect(a, x).users = a.users /\ Effect(a, x).accounts = a.accounts
        /\ Effect(a, x).ok = a.ok
    BY <1>2, Untouched
  <2>2. QED
    BY <2>1 DEF Match
<1>3. QED
  BY <1>1, <1>2

LEMMA MatchStep ==
  ASSUME NEW a, NEW b, State(a), State(b), Match(a, b),
         Teams(a) = DOMAIN a.users, Teams(b) = DOMAIN b.users,
         NEW x \in Records, NEW y \in Records, Group(x) = Group(y),
         x \in Users => y \in Users /\ y.id = x.id /\ ~x.admin /\ ~y.admin,
         x \in Trades \cup Resets => y = x
  PROVE  Match(Effect(a, x), Effect(b, y))
<1>0. DOMAIN a.users = DOMAIN b.users /\ a.accounts = b.accounts /\ a.ok = b.ok
  BY DEF Match
<1>1. CASE x \in Users
  <2>1. y \in Users /\ y.id = x.id /\ ~x.admin /\ ~y.admin
    BY <1>1
  <2>2. /\ Effect(a, x).users = Set(a.users, x.id, x)
        /\ Effect(a, x).accounts = IF x.admin \/ x.id \in DOMAIN a.accounts THEN a.accounts
                                   ELSE Set(a.accounts, x.id, NewAccount)
        /\ Effect(a, x).ok = a.ok
    BY <1>1, UserEffect
  <2>3. /\ Effect(b, y).users = Set(b.users, y.id, y)
        /\ Effect(b, y).accounts = IF y.admin \/ y.id \in DOMAIN b.accounts THEN b.accounts
                                   ELSE Set(b.accounts, y.id, NewAccount)
        /\ Effect(b, y).ok = b.ok
    BY <2>1, UserEffect
  <2>4. DOMAIN Effect(a, x).users = DOMAIN Effect(b, y).users
    BY <1>0, <2>1, <2>2, <2>3 DEF Set
  <2>5. Effect(a, x).accounts = Effect(b, y).accounts
    BY <1>0, <2>1, <2>2, <2>3
  <2>6. QED
    BY <1>0, <2>2, <2>3, <2>4, <2>5 DEF Match
<1>2. CASE x \in Trades
  <2>1. y = x
    BY <1>2
  <2>2. /\ Effect(a, x).users = a.users
        /\ Effect(a, x).accounts
              = IF x.id \notin DOMAIN a.accounts THEN a.accounts
                ELSE [a.accounts EXCEPT ![x.id] =
                         [cash |-> @.cash - x.price, shares |-> @.shares + 1]]
        /\ Effect(a, x).ok = IF x.id \in DOMAIN a.accounts THEN a.ok ELSE FALSE
    BY <1>2, TradeEffect
  <2>3. /\ Effect(b, x).users = b.users
        /\ Effect(b, x).accounts
              = IF x.id \notin DOMAIN b.accounts THEN b.accounts
                ELSE [b.accounts EXCEPT ![x.id] =
                         [cash |-> @.cash - x.price, shares |-> @.shares + 1]]
        /\ Effect(b, x).ok = IF x.id \in DOMAIN b.accounts THEN b.ok ELSE FALSE
    BY <1>2, TradeEffect
  <2>4. Effect(a, x).accounts = Effect(b, x).accounts
    BY <1>0, <2>2, <2>3
  <2>5. Effect(a, x).ok = Effect(b, x).ok
    BY <1>0, <2>2, <2>3
  <2>6. QED
    BY <1>0, <2>1, <2>2, <2>3, <2>4, <2>5 DEF Match
<1>3. CASE x \in Resets
  <2>1. y = x
    BY <1>3
  <2>2. /\ Effect(a, x).users = IF x.everything
                                THEN [u \in DOMAIN a.users \ Teams(a) |-> a.users[u]] ELSE a.users
        /\ Effect(a, x).accounts = [u \in Teams(a) \cap DOMAIN Effect(a, x).users |-> NewAccount]
        /\ Effect(a, x).ok = a.ok
    BY <1>3, ResetEffect
  <2>3. /\ Effect(b, x).users = IF x.everything
                                THEN [u \in DOMAIN b.users \ Teams(b) |-> b.users[u]] ELSE b.users
        /\ Effect(b, x).accounts = [u \in Teams(b) \cap DOMAIN Effect(b, x).users |-> NewAccount]
        /\ Effect(b, x).ok = b.ok
    BY <1>3, ResetEffect
  <2>4. Teams(a) = Teams(b)
    BY <1>0
  <2>5. DOMAIN Effect(a, x).users = DOMAIN Effect(b, x).users
    <3>1. CASE x.everything
      <4>1. DOMAIN Effect(a, x).users = DOMAIN a.users \ Teams(a)
        BY <2>2, <3>1
      <4>2. DOMAIN Effect(b, x).users = DOMAIN b.users \ Teams(b)
        BY <2>3, <3>1
      <4>3. QED
        BY <1>0, <2>4, <4>1, <4>2
    <3>2. CASE ~x.everything
      BY <1>0, <2>2, <2>3, <3>2
    <3>3. QED
      BY <3>1, <3>2
  <2>6. Effect(a, x).accounts = Effect(b, x).accounts
    BY <2>2, <2>3, <2>4, <2>5
  <2>7. QED
    BY <1>0, <2>1, <2>2, <2>3, <2>5, <2>6 DEF Match
<1>4. CASE x \notin Users /\ x \notin Trades /\ x \notin Resets
  <2>1. y \notin Users /\ y \notin Trades /\ y \notin Resets
    <3>1. y \notin Users
      <4>1. \A u : Group(x) # <<"user", u>>
        BY <1>4, Keys
      <4>2. y \in Users => \E u : Group(y) = <<"user", u>>
        BY DEF Group, Users
      <4>3. QED
        BY <4>1, <4>2
    <3>2. y \notin Trades /\ y \notin Resets
      BY <1>4, Keys
    <3>3. QED
      BY <3>1, <3>2
  <2>2. /\ Effect(a, x).users = a.users /\ Effect(a, x).accounts = a.accounts
        /\ Effect(a, x).ok = a.ok
    BY <1>4, Untouched
  <2>3. /\ Effect(b, y).users = b.users /\ Effect(b, y).accounts = b.accounts
        /\ Effect(b, y).ok = b.ok
    BY <2>1, Untouched
  <2>4. QED
    BY <1>0, <2>2, <2>3 DEF Match
<1>5. QED
  BY <1>1, <1>2, <1>3, <1>4


LEMMA UptoUnpromoted ==
  ASSUME NEW l \in Seq(Records), NEW k \in 0 .. Len(l), Unpromoted(l)
  PROVE  Unpromoted(Upto(l, k))
<1>1. PICK p : p = Upto(l, k)
  OBVIOUS
<1>2. DOMAIN p \subseteq DOMAIN l /\ \A i \in DOMAIN p : p[i] = l[i]
  BY <1>1 DEF Upto
<1>3. Unpromoted(p)
  BY <1>2 DEF Unpromoted
<1>4. QED
  BY <1>1, <1>3

LEMMA CompactedMatch ==
  ASSUME NEW log, Sound(log), Unpromoted(log)
  PROVE  Match(Rebuilt(log), Rebuilt(Compacted(log)))
<1>0. log \in Seq(Records) /\ NoRevival(log)
  BY DEF Sound
<1>1. PICK h : Chain(log, h)
  BY <1>0, CompactedIs
<1>2. PICK n : n = Len(log)
  OBVIOUS
<1>3. /\ n \in Nat /\ DOMAIN log = 1 .. n /\ h[0] = <<>> /\ Compacted(log) = h[n]
      /\ \A k \in 0 .. n : h[k] \in Seq(Records) /\ Unpromoted(h[k])
  <2>1. \A k \in 0 .. n : Unpromoted(h[k])
    BY <1>0, <1>1, <1>2, ChainUnpromoted
  <2>2. QED
    BY <1>0, <1>1, <1>2, <2>1 DEF Chain
<1>4. /\ Upto(log, 0) = <<>> /\ Upto(log, n) = log
      /\ \A k \in 0 .. n : Upto(log, k) \in Seq(Records) /\ Unpromoted(Upto(log, k))
  BY <1>0, <1>2, UptoIs, UptoUnpromoted
<1> DEFINE N == {k \in Nat : k <= n => Match(Rebuilt(Upto(log, k)), Rebuilt(h[k]))}
<1>5. 0 \in N
  BY <1>3, <1>4 DEF Match
<1>6. ASSUME NEW m \in Nat, m \in N PROVE m + 1 \in N
  <2> SUFFICES ASSUME m + 1 <= n PROVE Match(Rebuilt(Upto(log, m + 1)), Rebuilt(h[m + 1]))
    OBVIOUS
  <2>1. PICK k : k = m + 1
    OBVIOUS
  <2>2. k \in 1 .. Len(log) /\ k \in 1 .. n /\ k - 1 = m /\ m \in 0 .. n /\ k \in DOMAIN log
    BY <1>2, <1>3, <2>1
  <2>3. PICK p : p = Upto(log, m)
    OBVIOUS
  <2>4. PICK q : q = h[m]
    OBVIOUS
  <2>5. PICK x : x = log[k]
    OBVIOUS
  <2>6. PICK y : y = Content(log, k)
    OBVIOUS
  <2>7. p \in Seq(Records) /\ q \in Seq(Records) /\ Unpromoted(p) /\ Unpromoted(q)
    BY <1>3, <1>4, <2>2, <2>3, <2>4
  <2>8. x \in Records /\ Upto(log, k) = Append(p, x)
    <3>1. log[k] \in Records /\ Upto(log, k) = Append(Upto(log, k - 1), log[k])
      BY <1>0, <2>2, UptoIs
    <3>2. QED
      BY <2>2, <2>3, <2>5, <3>1
  <2>9. y \in Records /\ Group(x) = Group(y)
    BY <1>0, <2>2, <2>5, <2>6, ContentIs
  <2>10. PICK a : a = Rebuilt(p)
    OBVIOUS
  <2>11. PICK b : b = Rebuilt(q)
    OBVIOUS
  <2>12. State(a) /\ State(b) /\ Rebuilt(Upto(log, k)) = Effect(a, x)
    BY <2>7, <2>8, <2>10, <2>11, RebuiltSteps, RebuiltState
  <2>13. /\ Teams(a) = DOMAIN a.users /\ DOMAIN a.accounts = DOMAIN a.users
         /\ Teams(b) = DOMAIN b.users
    BY <2>7, <2>10, <2>11, TeamsHaveAccounts DEF TeamsOnly
  <2>14. Match(a, b)
    <3>1. m <= n
      BY <2>2
    <3>2. QED
      BY <1>6, <2>3, <2>4, <2>10, <2>11, <3>1
  <2>15. CASE Dropped(log, k)
    <3>1. h[k] = q
      BY <1>1, <2>2, <2>4, <2>15 DEF Chain
    <3>2. x \notin Trades /\ x \notin Resets
      BY <1>0, <2>2, <2>5, <2>15, FactsStay
    <3>3. ASSUME x \in Users PROVE x.id \in DOMAIN a.users
      <4>1. PICK j \in Places(log, Group(x)) : j < k
        BY <1>0, <2>2, <2>5, <2>15, <3>3, ContentIs
      <4>2. j <= m
        BY <2>1, <2>2, <4>1 DEF Places
      <4>3. Has(p, Group(x))
        BY <1>0, <1>2, <2>2, <2>3, <4>1, <4>2, PlacesUpto
      <4>4. Known(log, k)
        BY <1>0, <2>2, <2>3, <2>5, <3>3, <4>3 DEF NoRevival
      <4>5. QED
        BY <2>2, <2>3, <2>5, <2>10, <4>4 DEF Known
    <3>4. Match(Effect(a, x), b)
      BY <2>8, <2>12, <2>13, <2>14, <3>2, <3>3, MatchSkip
    <3>5. QED
      BY <2>1, <2>11, <2>12, <3>1, <3>4
  <2>16. CASE ~Dropped(log, k)
    <3>1. h[k] = Append(q, y)
      BY <1>1, <2>2, <2>4, <2>6, <2>16 DEF Chain
    <3>2. Rebuilt(h[k]) = Effect(b, y)
      BY <2>7, <2>9, <2>11, <3>1, RebuiltSteps
    <3>3. x \in Users => y \in Users /\ y.id = x.id /\ ~x.admin /\ ~y.admin
      <4> SUFFICES ASSUME x \in Users
                   PROVE  y \in Users /\ y.id = x.id /\ ~x.admin /\ ~y.admin
        OBVIOUS
      <4>1. y \in Users /\ y.id = x.id
        BY <1>0, <2>2, <2>5, <2>6, ContentIs
      <4>2. PICK i \in DOMAIN log : y = log[i]
        BY <1>0, <2>2, <2>6, ContentIs
      <4>3. x.kind = "user" /\ y.kind = "user"
        BY <4>1 DEF Users
      <4>4. QED
        BY <2>2, <2>5, <4>1, <4>2, <4>3 DEF Unpromoted
    <3>4. x \in Trades \cup Resets => y = x
      BY <1>0, <2>2, <2>5, <2>6, FactsStay
    <3>5. Match(Effect(a, x), Effect(b, y))
      BY <2>8, <2>9, <2>12, <2>13, <2>14, <3>3, <3>4, MatchStep
    <3>6. QED
      BY <2>1, <2>12, <3>2, <3>5
  <2>17. QED
    BY <2>15, <2>16
<1> HIDE DEF N
<1>7. n \in N
  BY <1>3, <1>5, <1>6, Numbers
<1>8. QED
  BY <1>3, <1>4, <1>7 DEF N

(* The new file is as sound as the old one, ... *)
LEMMA CompactedSound ==
  ASSUME NEW log, Sound(log)
  PROVE  Sound(Compacted(log))
<1>1. log \in Seq(Records) /\ (Unpromoted(log) => Rebuilt(log).ok)
  BY DEF Sound
<1>2. Compacted(log) \in Seq(Records)
  BY <1>1, NewestKept
<1>3. NoRevival(Compacted(log)) /\ AdminsLast(Compacted(log))
  BY <1>1, CompactedNoRevival, CompactedAdminsLast
<1>4. ASSUME Unpromoted(Compacted(log)) PROVE Rebuilt(Compacted(log)).ok
  <2>1. Unpromoted(log)
    BY <1>4, CompactedUnpromoted
  <2>2. Match(Rebuilt(log), Rebuilt(Compacted(log)))
    BY <2>1, CompactedMatch
  <2>3. QED
    BY <1>1, <2>1, <2>2 DEF Match
<1>5. QED
  BY <1>2, <1>3, <1>4 DEF Sound

(* ... and after no reset it rebuilds the same state. *)
LEMMA CompactedAlike ==
  ASSUME NEW log, Sound(log), Unpromoted(log), Plain(log)
  PROVE  Alike(Rebuilt(log), Rebuilt(Compacted(log)))
<1>0. PICK c : c = Compacted(log)
  OBVIOUS
<1>1. /\ log \in Seq(Records) /\ c \in Seq(Records)
      /\ \A g : /\ Has(c, g) <=> Has(log, g)
                /\ Has(log, g) => NewestOf(c, g) = NewestOf(log, g)
  BY <1>0, NewestKept DEF Sound
<1>2. Plain(c)
  BY <1>1 DEF Plain
<1>3. PICK a : a = Rebuilt(log)
  OBVIOUS
<1>4. PICK b : b = Rebuilt(c)
  OBVIOUS
<1>5. DOMAIN a.users = DOMAIN b.users /\ a.accounts = b.accounts /\ a.ok = b.ok
  BY <1>0, <1>3, <1>4, CompactedMatch DEF Match
<1>6. /\ \A u \in DOMAIN a.users : Has(log, <<"user", u>>)
                                   /\ a.users[u] = NewestOf(log, <<"user", u>>)
      /\ a.users = [u \in DOMAIN a.users |-> a.users[u]]
  BY <1>1, <1>3, UsersAreTold DEF UsersTold
<1>7. /\ \A u \in DOMAIN b.users : Has(c, <<"user", u>>)
                                   /\ b.users[u] = NewestOf(c, <<"user", u>>)
      /\ b.users = [u \in DOMAIN b.users |-> b.users[u]]
  BY <1>1, <1>4, UsersAreTold DEF UsersTold
<1>8. a.users = b.users
  <2>1. ASSUME NEW u \in DOMAIN a.users PROVE a.users[u] = b.users[u]
    <3>1. PICK g : g = <<"user", u>>
      OBVIOUS
    <3>2. Has(log, g) /\ a.users[u] = NewestOf(log, g)
      BY <1>6, <3>1
    <3>3. b.users[u] = NewestOf(c, g)
      BY <1>5, <1>7, <3>1
    <3>4. NewestOf(c, g) = NewestOf(log, g)
      BY <1>1, <3>2
    <3>5. QED
      BY <3>2, <3>3, <3>4
  <2>2. QED
    BY <1>5, <1>6, <1>7, <2>1
<1>9. /\ a.price = IF Has(log, <<"prices">>) THEN NewestOf(log, <<"prices">>).price ELSE Opening
      /\ a.clock = IF Has(log, <<"clock">>) THEN NewestOf(log, <<"clock">>).value ELSE 0
      /\ \A s : s \in a.paused <=> Has(log, <<"pause", s>>) /\ NewestOf(log, <<"pause", s>>).on
  BY <1>1, <1>3, NewestIsTold DEF NewestTold
<1>10. /\ b.price = IF Has(c, <<"prices">>) THEN NewestOf(c, <<"prices">>).price ELSE Opening
       /\ b.clock = IF Has(c, <<"clock">>) THEN NewestOf(c, <<"clock">>).value ELSE 0
       /\ \A s : s \in b.paused <=> Has(c, <<"pause", s>>) /\ NewestOf(c, <<"pause", s>>).on
  BY <1>1, <1>2, <1>4, NewestIsTold DEF NewestTold
<1>11. a.price = b.price /\ a.clock = b.clock
  BY <1>1, <1>9, <1>10
<1>12. a.paused = b.paused
  <2>1. \A s : s \in a.paused <=> s \in b.paused
    BY <1>1, <1>9, <1>10
  <2>2. QED
    BY <2>1
<1>13. QED
  BY <1>0, <1>3, <1>4, <1>5, <1>8, <1>11, <1>12 DEF Alike

-----------------------------------------------------------------------------
(* Records that come while the server is up do the same to its state and   *)
(* to what the log rebuilds.                                               *)
LEMMA OutcomeSteps ==
  ASSUME NEW a
  PROVE  /\ Outcome(a, <<>>) = a
         /\ \A s \in Seq(Records), x \in Records :
               Outcome(a, Append(s, x)) = Effect(Outcome(a, s), x)
BY EffectSteps

LEMMA TogetherGrow ==
  ASSUME NEW s, State(s), NEW l \in Seq(Records), Alike(s, Rebuilt(l))
  PROVE  \A recs \in Seq(Records) :
            /\ l \o recs \in Seq(Records) /\ State(Outcome(s, recs))
            /\ Alike(Outcome(s, recs), Rebuilt(l \o recs))
<1>0. /\ Outcome(s, <<>>) = s
      /\ \A q \in Seq(Records), y \in Records :
            Outcome(s, Append(q, y)) = Effect(Outcome(s, q), y)
  BY OutcomeSteps
<1> DEFINE S == {r \in Seq(Records) : /\ l \o r \in Seq(Records) /\ State(Outcome(s, r))
                                      /\ Alike(Outcome(s, r), Rebuilt(l \o r))}
<1>1. <<>> \in S
  <2>1. Outcome(s, <<>>) = s
    BY EffectSteps
  <2>2. l \o <<>> = l /\ <<>> \in Seq(Records)
    OBVIOUS
  <2>3. QED
    BY <2>1, <2>2
<1>2. ASSUME NEW r \in Seq(Records), NEW x \in Records, r \in S PROVE Append(r, x) \in S
  <2>1. Outcome(s, Append(r, x)) = Effect(Outcome(s, r), x)
    BY <1>0
  <2>2. /\ l \o r \in Seq(Records) /\ State(Outcome(s, r))
        /\ Alike(Outcome(s, r), Rebuilt(l \o r))
    BY <1>2
  <2>3. l \o Append(r, x) = Append(l \o r, x) /\ Append(r, x) \in Seq(Records)
    OBVIOUS
  <2>4. PICK a : a = Outcome(s, r)
    OBVIOUS
  <2>5. PICK m : m = l \o r
    OBVIOUS
  <2>6. m \in Seq(Records) /\ State(a) /\ Alike(a, Rebuilt(m)) /\ State(Rebuilt(m))
    BY <2>2, <2>4, <2>5, RebuiltState
  <2>7. Append(m, x) \in Seq(Records) /\ Rebuilt(Append(m, x)) = Effect(Rebuilt(m), x)
    BY <2>6, RebuiltSteps
  <2>8. State(Effect(a, x)) /\ Alike(Effect(a, x), Effect(Rebuilt(m), x))
    BY <2>6, EffectState, EffectAlike
  <2>9. QED
    BY <2>1, <2>3, <2>4, <2>5, <2>7, <2>8
<1> HIDE DEF S
<1>3. \A r \in Seq(Records) : r \in S
  BY <1>1, <1>2, Elements
<1>4. QED
  BY <1>3 DEF S


-----------------------------------------------------------------------------
(* The inductive invariant.  The log is sound; the server's state is the   *)
(* one its log rebuilds, until a compaction makes that the new file's, and *)
(* even then if there was no reset and no new organiser; the new file is,  *)
(* so far, what it is to be.                                               *)
Faithful == State(live) /\ Alike(live, Rebuilt(file))

SoFar == /\ Len(tmp) \in Nat /\ Len(tmp) <= Len(Compacted(file))
         /\ tmp = SubSeq(Compacted(file), 1, Len(tmp))

CInv ==
    /\ Sound(file)
    /\ phase = "up" => Faithful
    /\ Plain(file) /\ Unpromoted(file) => Faithful
    /\ phase = "compacting" => SoFar

LEMMA AlikeLaws ==
  ASSUME NEW a, NEW b, NEW c
  PROVE  /\ Alike(a, a)
         /\ Alike(a, b) /\ Alike(b, c) => Alike(a, c)
         /\ Alike(a, b) => Teams(a) = Teams(b)
BY DEF Alike, Teams

LEMMA MembersAreTeams ==
  ASSUME NEW l \in Seq(Records)
  PROVE  DOMAIN Rebuilt(l).users \subseteq Team
<1> SUFFICES ASSUME NEW u \in DOMAIN Rebuilt(l).users PROVE u \in Team
  OBVIOUS
<1>1. Has(l, <<"user", u>>)
  BY UsersAreTold DEF UsersTold
<1>2. PICK i \in DOMAIN l : Group(l[i]) = <<"user", u>> /\ l[i] \in Records
  BY <1>1, NewestIsThere
<1>3. l[i] \in Users /\ l[i].id = u
  BY <1>2, Keys
<1>4. QED
  BY <1>3 DEF Users

LEMMA InitCInv ==
  CompactionInit => CInv
<1> SUFFICES ASSUME CompactionInit PROVE CInv
  OBVIOUS
<1>1. file = <<>> /\ live = Fresh /\ phase = "up" /\ file \in Seq(Records)
  BY DEF CompactionInit
<1>2. NoRevival(file) /\ AdminsLast(file)
  BY <1>1 DEF NoRevival, AdminsLast
<1>3. Rebuilt(file) = Fresh /\ State(Fresh) /\ Fresh.ok
  BY <1>1, RebuiltSteps DEF Fresh
<1>4. Sound(file)
  BY <1>1, <1>2, <1>3 DEF Sound
<1>5. Faithful
  BY <1>1, <1>3, AlikeLaws DEF Faithful
<1>6. QED
  BY <1>1, <1>4, <1>5 DEF CInv

(* What happens while the server is up is in the log and in the state. *)
LEMMA HappensKeeps ==
  ASSUME CInv, NEW recs \in Seq(Records), Happens(recs), Sound(file \o recs)
  PROVE  CInv'
<1>1. /\ phase = "up" /\ phase' = "up" /\ file' = file \o recs
      /\ live' = Outcome(live, recs)
  BY DEF Happens, Outcome
<1>2. State(live) /\ Alike(live, Rebuilt(file)) /\ file \in Seq(Records)
  BY <1>1 DEF CInv, Faithful, Sound
<1>3. State(Outcome(live, recs)) /\ Alike(Outcome(live, recs), Rebuilt(file \o recs))
  BY <1>2, TogetherGrow
<1>4. Sound(file') /\ State(live') /\ Alike(live', Rebuilt(file'))
  BY <1>1, <1>3
<1>5. QED
  BY <1>1, <1>4 DEF CInv, Faithful

LEMMA OneHappens ==
  ASSUME CInv, NEW x, Happens(<<x>>), Allowed(file, x)
  PROVE  CInv'
<1>1. Sound(file) /\ file \in Seq(Records) /\ x \in Records
  BY DEF CInv, Sound, Allowed
<1>2. <<x>> \in Seq(Records) /\ file \o <<x>> = Append(file, x)
  BY <1>1
<1>3. Sound(file \o <<x>>)
  BY <1>1, <1>2, SoundGrows
<1>4. QED
  BY <1>2, <1>3, HappensKeeps

(* While the server is up its teams are those of the log. *)
LEMMA TeamsInLog ==
  ASSUME CInv, phase = "up"
  PROVE  /\ Teams(live) = Teams(Rebuilt(file)) /\ Teams(live) \subseteq Team
         /\ live.clock \in Nat /\ live.price \in Price
<1>1. file \in Seq(Records) /\ Alike(live, Rebuilt(file))
  BY DEF CInv, Sound, Faithful
<1>2. Rebuilt(file).clock \in Nat /\ Rebuilt(file).price \in Price
  BY <1>1, UsersAreTold DEF UsersTold
<1>3. DOMAIN Rebuilt(file).users \subseteq Team
  BY <1>1, MembersAreTeams
<1>4. QED
  BY <1>1, <1>2, <1>3 DEF Alike, Teams

LEMMA SignupKeeps ==
  ASSUME CInv, NEW u \in Team, Signup(u)
  PROVE  CInv'
<1>1. PICK x : x = User(u, "new", FALSE)
  OBVIOUS
<1>2. x \in Users /\ x \in Records /\ x \notin Trades /\ Group(x) = <<"user", u>>
  BY <1>1 DEF User, Users, Trades, Records, Group
<1>3. file \in Seq(Records)
  BY DEF CInv, Sound
<1>4. ~Has(file, <<"user", u>>)
  <2> SUFFICES ASSUME NEW i \in DOMAIN file, Group(file[i]) = <<"user", u>> PROVE FALSE
    BY DEF Has, Places
  <2>1. file[i] \in Records
    BY <1>3
  <2>2. file[i] \in Users /\ file[i].id = u
    BY <2>1, Keys
  <2>3. file[i].kind = "user"
    BY <2>2 DEF Users
  <2>4. QED
    BY <2>2, <2>3 DEF Signup
<1>5. Allowed(file, x)
  BY <1>2, <1>4 DEF Allowed
<1>6. Happens(<<x>>)
  BY <1>1 DEF Signup
<1>7. QED
  BY <1>5, <1>6, OneHappens

LEMMA TeamHappens ==
  ASSUME CInv, NEW u \in Teams(live), NEW status \in {"new", "warned"}, NEW admin \in BOOLEAN,
         Happens(<<User(u, status, admin)>>)
  PROVE  CInv'
<1>1. PICK x : x = User(u, status, admin)
  OBVIOUS
<1>2. phase = "up"
  BY DEF Happens
<1>3. u \in Team /\ u \in Teams(Rebuilt(file))
  BY <1>2, TeamsInLog
<1>4. x \in Users /\ x \in Records /\ x \notin Trades /\ x.id = u
  BY <1>1, <1>3 DEF User, Users, Trades, Records
<1>5. Allowed(file, x)
  BY <1>3, <1>4 DEF Allowed
<1>6. QED
  BY <1>1, <1>5, OneHappens

LEMMA TradeKeeps ==
  ASSUME CInv, NEW u \in Team, Trade(u)
  PROVE  CInv'
<1>1. PICK x : x = [kind |-> "trade", id |-> u, price |-> live.price]
  OBVIOUS
<1>2. /\ phase = "up" /\ phase' = "up" /\ u \in Teams(live) /\ file' = Append(file, x)
      /\ \E p : live' = [WithTrade(live, x) EXCEPT !.peaks = p]
  BY <1>1 DEF Trade
<1>3. u \in Teams(Rebuilt(file)) /\ live.price \in Price
  BY <1>2, TeamsInLog
<1>4. x \in Trades /\ x \in Records /\ x \notin Users /\ x.id = u /\ x.kind = "trade"
  BY <1>1, <1>3 DEF Users, Trades, Records
<1>5. Allowed(file, x)
  BY <1>3, <1>4 DEF Allowed
<1>6. Sound(Append(file, x)) /\ file \in Seq(Records)
  BY <1>5, SoundGrows DEF CInv, Sound
<1>7. State(live) /\ Alike(live, Rebuilt(file)) /\ State(Rebuilt(file))
  BY <1>2, <1>6, RebuiltState DEF CInv, Faithful
<1>8. PICK a : a = Effect(live, x)
  OBVIOUS
<1>9. a = WithTrade(live, x)
  BY <1>4, <1>8 DEF Effect
<1>10. State(a) /\ Alike(a, Rebuilt(Append(file, x)))
  <2>1. State(a) /\ Alike(a, Effect(Rebuilt(file), x))
    BY <1>4, <1>7, <1>8, EffectState, EffectAlike
  <2>2. Rebuilt(Append(file, x)) = Effect(Rebuilt(file), x)
    BY <1>4, <1>6, RebuiltSteps
  <2>3. QED
    BY <2>1, <2>2
<1>11. PICK p : live' = [a EXCEPT !.peaks = p]
  BY <1>2, <1>9
<1>12. State(live') /\ Alike(live', a)
  BY <1>10, <1>11 DEF State, Alike
<1>13. Alike(live', Rebuilt(file'))
  BY <1>2, <1>10, <1>12, AlikeLaws
<1>14. QED
  BY <1>2, <1>6, <1>12, <1>13 DEF CInv, Faithful


(* A reset: what it writes after its own record is about teams it kept. *)
Cleared(T) == {User(u, "new", FALSE) : u \in T}

LEMMA ClearedUsers ==
  ASSUME NEW T \in SUBSET Team
  PROVE  Cleared(T) \subseteq Users /\ Cleared(T) \subseteq Records
<1>1. ASSUME NEW x \in Cleared(T) PROVE x \in Users
  <2>1. PICK u \in T : x = User(u, "new", FALSE)
    BY DEF Cleared
  <2>2. u \in Team
    OBVIOUS
  <2>3. QED
    BY <2>1, <2>2 DEF User, Users
<1>2. QED
  BY <1>1 DEF Records

LEMMA ClearedAllowed ==
  ASSUME NEW l, Sound(l), NEW T \in SUBSET Team, T \subseteq Teams(Rebuilt(l))
  PROVE  \A r \in Seq(Cleared(T)) : Sound(l \o r)
<1> DEFINE S == {r \in Seq(Cleared(T)) : Sound(l \o r) /\ T \subseteq Teams(Rebuilt(l \o r))}
<1>0. l \in Seq(Records) /\ Cleared(T) \subseteq Users /\ Cleared(T) \subseteq Records
  BY ClearedUsers DEF Sound
<1>1. <<>> \in S
  <2>1. l \o <<>> = l /\ <<>> \in Seq(Cleared(T))
    BY <1>0
  <2>2. QED
    BY <2>1
<1>2. ASSUME NEW r \in Seq(Cleared(T)), NEW x \in Cleared(T), r \in S PROVE Append(r, x) \in S
  <2>1. r \in Seq(Records) /\ x \in Users /\ x \in Records /\ x \notin Trades
    BY <1>0 DEF Users, Trades
  <2>2. PICK m : m = l \o r
    OBVIOUS
  <2>3. l \o Append(r, x) = Append(m, x) /\ Append(r, x) \in Seq(Cleared(T))
    BY <1>0, <2>1, <2>2
  <2>4. Sound(m) /\ T \subseteq Teams(Rebuilt(m)) /\ m \in Seq(Records)
    BY <1>2, <2>2 DEF Sound
  <2>5. x.id \in T /\ ~x.admin
    BY DEF Cleared, User
  <2>6. Sound(Append(m, x))
    <3>1. Allowed(m, x)
      BY <2>1, <2>4, <2>5 DEF Allowed
    <3>2. QED
      BY <2>4, <3>1, SoundGrows
  <2>7. T \subseteq Teams(Rebuilt(Append(m, x)))
    <3>1. PICK a : a = Rebuilt(m)
      OBVIOUS
    <3>2. PICK b : b = Rebuilt(Append(m, x))
      OBVIOUS
    <3>3. b = Effect(a, x) /\ State(a)
      BY <2>1, <2>4, <3>1, <3>2, RebuiltSteps, RebuiltState
    <3>4. b.users = Set(a.users, x.id, x)
      BY <2>1, <3>3, UserEffect
    <3>5. b.users = [u \in DOMAIN a.users \cup {x.id} |-> IF u = x.id THEN x ELSE a.users[u]]
      BY <3>4 DEF Set
    <3>6. ASSUME NEW u \in T PROVE u \in Teams(b)
      <4>1. u \in DOMAIN a.users /\ ~a.users[u].admin
        BY <2>4, <3>1, <3>6 DEF Teams
      <4>2. u \in DOMAIN b.users /\ b.users[u] = IF u = x.id THEN x ELSE a.users[u]
        BY <3>5, <4>1
      <4>3. ~b.users[u].admin
        BY <2>5, <4>1, <4>2
      <4>4. QED
        BY <4>2, <4>3 DEF Teams
    <3>7. QED
      BY <3>2, <3>6
  <2>8. QED
    BY <2>3, <2>6, <2>7
<1> HIDE DEF S
<1>3. \A r \in Seq(Cleared(T)) : r \in S
  BY <1>1, <1>2, Elements
<1>4. QED
  BY <1>3 DEF S

LEMMA ClearedSequences ==
  ASSUME NEW T \in SUBSET Team, NEW r \in SetToSeqs(Cleared(T))
  PROVE  r \in Seq(Cleared(T))
<1>1. IsFiniteSet(T)
  BY CompactionAssumption, FS_Subset
<1>2. PICK U : U = Cleared(T)
  OBVIOUS
<1>3. PICK f : f = [u \in T |-> User(u, "new", FALSE)]
  OBVIOUS
<1>4. f \in Surjection(T, U)
  BY <1>2, <1>3 DEF Surjection, Cleared
<1>5. IsFiniteSet(U)
  BY <1>1, <1>4, FS_Surjection
<1>6. Cardinality(U) \in Nat
  BY <1>5, FS_CardinalityType
<1>7. r \in [1 .. Cardinality(U) -> U]
  BY <1>2 DEF SetToSeqs
<1>8. QED
  BY <1>2, <1>6, <1>7

LEMMA ResetKeeps ==
  ASSUME CInv, ResetEvent
  PROVE  CInv'
<1>1. PICK all \in BOOLEAN :
         \E updates \in SetToSeqs({User(u, "new", FALSE) : u \in IF all THEN {} ELSE Teams(live)}) :
            Happens(<<[kind |-> "reset", everything |-> all]>> \o updates
                      \o <<[kind |-> "clock", value |-> 0]>>)
  BY DEF ResetEvent
<1>2. PICK T : T = IF all THEN {} ELSE Teams(live)
  OBVIOUS
<1>3. PICK updates \in SetToSeqs(Cleared(T)) :
         Happens(<<[kind |-> "reset", everything |-> all]>> \o updates
                   \o <<[kind |-> "clock", value |-> 0]>>)
  BY <1>1, <1>2 DEF Cleared
<1>4. PICK x : x = [kind |-> "reset", everything |-> all]
  OBVIOUS
<1>5. PICK y : y = [kind |-> "clock", value |-> 0]
  OBVIOUS
<1>6. /\ x \in Resets /\ x \in Records /\ x \notin Users /\ x \notin Trades
      /\ x.everything = all
  BY <1>4 DEF Records, Users, Trades, Resets
<1>7. y \in Records /\ y \notin Users /\ y \notin Trades
  BY <1>5 DEF Records, Users, Trades, Clocks
<1>8. phase = "up" /\ Sound(file) /\ file \in Seq(Records)
  BY <1>3 DEF Happens, CInv, Sound
<1>9. T \in SUBSET Team /\ (~all => T = Teams(Rebuilt(file))) /\ (all => T = {})
  BY <1>2, <1>8, TeamsInLog
<1>10. updates \in Seq(Cleared(T)) /\ Cleared(T) \subseteq Records
  <2>1. updates \in Seq(Cleared(T))
    BY <1>9, ClearedSequences
  <2>2. Cleared(T) \subseteq Records
    BY <1>9, ClearedUsers
  <2>3. QED
    BY <2>1, <2>2
<1>11. Sound(Append(file, x))
  <2>1. Allowed(file, x)
    BY <1>6 DEF Allowed
  <2>2. QED
    BY <1>8, <2>1, SoundGrows
<1>12. T \subseteq Teams(Rebuilt(Append(file, x)))
  <2>1. CASE all
    BY <1>9, <2>1
  <2>2. CASE ~all
    <3>1. Rebuilt(Append(file, x)) = Effect(Rebuilt(file), x) /\ State(Rebuilt(file))
      BY <1>6, <1>8, RebuiltSteps, RebuiltState
    <3>2. Effect(Rebuilt(file), x).users = Rebuilt(file).users
      BY <1>6, <2>2, <3>1, ResetEffect
    <3>3. QED
      BY <1>9, <2>2, <3>1, <3>2 DEF Teams
  <2>3. QED
    BY <2>1, <2>2
<1>13. PICK m : m = Append(file, x) \o updates
  OBVIOUS
<1>14. Sound(m) /\ m \in Seq(Records)
  BY <1>9, <1>10, <1>11, <1>12, <1>13, ClearedAllowed DEF Sound
<1>15. Sound(Append(m, y))
  <2>1. Allowed(m, y)
    BY <1>7 DEF Allowed
  <2>2. QED
    BY <1>14, <2>1, SoundGrows
<1>16. PICK recs : recs = <<x>> \o updates \o <<y>>
  OBVIOUS
<1>17. recs \in Seq(Records) /\ file \o recs = Append(m, y)
  <2>1. updates \in Seq(Records)
    BY <1>10
  <2>2. recs \in Seq(Records)
    BY <1>6, <1>7, <1>16, <2>1
  <2>3. file \o recs = Append(m, y)
    BY <1>6, <1>7, <1>8, <1>13, <1>16, <2>1
  <2>4. QED
    BY <2>2, <2>3
<1>18. Happens(recs)
  BY <1>3, <1>4, <1>5, <1>16
<1>19. QED
  BY <1>15, <1>17, <1>18, HappensKeeps

(* A start: tidying the log, however often it is cut short, and replaying it. *)
LEMMA TidyKeeps ==
  ASSUME CInv, StopServer \/ Begin \/ Write \/ Rename \/ Restore
  PROVE  CInv'
<1>0. file \in Seq(Records)
  BY DEF CInv, Sound
<1>1. PICK c : c = Compacted(file)
  OBVIOUS
<1>2. c \in Seq(Records) /\ Len(c) \in Nat
  BY <1>0, <1>1, NewestKept
<1>3. CASE StopServer
  BY <1>3 DEF StopServer, CInv, Faithful
<1>4. CASE Begin
  <2>1. tmp' = <<>> /\ file' = file /\ live' = live /\ phase' # "up"
    BY <1>4 DEF Begin
  <2>2. SubSeq(c, 1, 0) = <<>> /\ Len(<<>>) = 0
    BY <1>2
  <2>3. SoFar'
    BY <1>1, <1>2, <2>1, <2>2 DEF SoFar
  <2>4. QED
    BY <2>1, <2>3 DEF CInv, Faithful
<1>5. CASE Write
  <2>1. /\ phase = "compacting" /\ phase' = "compacting" /\ file' = file /\ live' = live
        /\ Len(tmp) < Len(c) /\ tmp' = SubSeq(c, 1, Len(tmp) + 1)
    BY <1>1, <1>5 DEF Write
  <2>2. Len(tmp) \in Nat
    BY <2>1 DEF CInv, SoFar
  <2>3. PICK n : n = Len(tmp) + 1
    OBVIOUS
  <2>4. n \in Nat /\ n <= Len(c) /\ tmp' = SubSeq(c, 1, n)
    BY <1>2, <2>1, <2>2, <2>3
  <2>5. Len(SubSeq(c, 1, n)) = n
    BY <1>2, <2>4
  <2>6. SoFar'
    BY <1>1, <2>1, <2>4, <2>5 DEF SoFar
  <2>7. QED
    BY <2>1, <2>6 DEF CInv, Faithful
<1>6. CASE Rename
  <2>1. /\ phase = "compacting" /\ phase' = "ready" /\ file' = tmp /\ live' = live
        /\ Len(tmp) = Len(c)
    BY <1>1, <1>6 DEF Rename, Complete
  <2>2. tmp = SubSeq(c, 1, Len(c))
    BY <1>1, <2>1 DEF CInv, SoFar
  <2>3. file' = Compacted(file)
    BY <1>1, <1>2, <2>1, <2>2
  <2>4. Sound(file')
    BY <2>3, CompactedSound DEF CInv
  <2>5. ASSUME Plain(file'), Unpromoted(file') PROVE Faithful'
    <3>1. Plain(file)
      BY <1>0, <2>3, <2>5, NewestKept DEF Plain
    <3>2. Unpromoted(file)
      BY <2>3, <2>5, CompactedUnpromoted DEF CInv
    <3>3. Alike(Rebuilt(file), Rebuilt(Compacted(file)))
      BY <3>1, <3>2, CompactedAlike DEF CInv
    <3>4. State(live) /\ Alike(live, Rebuilt(file))
      BY <3>1, <3>2 DEF CInv, Faithful
    <3>5. Alike(live, Rebuilt(Compacted(file)))
      BY <3>3, <3>4, AlikeLaws
    <3>6. QED
      BY <2>1, <2>3, <3>4, <3>5 DEF Faithful
  <2>6. QED
    BY <2>1, <2>4, <2>5 DEF CInv
<1>7. CASE Restore
  <2>1. live' = Rebuilt(file) /\ file' = file /\ phase' = "up"
    BY <1>7 DEF Restore
  <2>2. State(Rebuilt(file)) /\ Alike(Rebuilt(file), Rebuilt(file))
    BY <1>0, RebuiltState, AlikeLaws
  <2>3. QED
    BY <2>1, <2>2 DEF CInv, Faithful
<1>8. QED
  BY <1>3, <1>4, <1>5, <1>6, <1>7

LEMMA NextCInv ==
  CInv /\ [CompactionNext]_compactionVars => CInv'
<1> SUFFICES ASSUME CInv, [CompactionNext]_compactionVars PROVE CInv'
  OBVIOUS
<1>1. ASSUME NEW u \in Team, Signup(u) PROVE CInv'
  BY <1>1, SignupKeeps
<1>2. ASSUME NEW u \in Team, UpdateUser(u) PROVE CInv'
  BY <1>2, TeamHappens DEF UpdateUser
<1>3. ASSUME NEW u \in Team, SeedAdmin(u) PROVE CInv'
  BY <1>3, TeamHappens DEF SeedAdmin
<1>4. ASSUME NEW u \in Team, Trade(u) PROVE CInv'
  BY <1>4, TradeKeeps
<1>5. ASSUME NEW s \in Company, SetPaused(s) PROVE CInv'
  <2>1. PICK x : x = [kind |-> "pause", id |-> s, on |-> s \notin live.paused]
    OBVIOUS
  <2>2. x \in Records /\ x \notin Users /\ x \notin Trades
    BY <2>1 DEF Records, Users, Trades, Pauses
  <2>3. Allowed(file, x) /\ Happens(<<x>>)
    BY <1>5, <2>1, <2>2 DEF Allowed, SetPaused
  <2>4. QED
    BY <2>3, OneHappens
<1>6. CASE SaveSim
  <2>1. PICK p \in Price : Happens(<<[kind |-> "prices", price |-> p]>>)
    BY <1>6 DEF SaveSim
  <2>2. PICK x : x = [kind |-> "prices", price |-> p]
    OBVIOUS
  <2>3. x \in Records /\ x \notin Users /\ x \notin Trades
    BY <2>2 DEF Records, Users, Trades, Prices
  <2>4. Allowed(file, x) /\ Happens(<<x>>)
    BY <2>1, <2>2, <2>3 DEF Allowed
  <2>5. QED
    BY <2>4, OneHappens
<1>7. CASE PersistClock
  <2>1. PICK x : x = [kind |-> "clock", value |-> live.clock + 1]
    OBVIOUS
  <2>2. Happens(<<x>>)
    BY <1>7, <2>1 DEF PersistClock
  <2>3. live.clock \in Nat
    BY <2>2, TeamsInLog DEF Happens
  <2>4. x \in Records /\ x \notin Users /\ x \notin Trades
    BY <2>1, <2>3 DEF Records, Users, Trades, Clocks
  <2>5. Allowed(file, x)
    BY <2>4 DEF Allowed
  <2>6. QED
    BY <2>2, <2>5, OneHappens
<1>8. CASE ResetEvent
  BY <1>8, ResetKeeps
<1>9. CASE StopServer \/ Begin \/ Write \/ Rename \/ Restore
  BY <1>9, TidyKeeps
<1>10. CASE UNCHANGED compactionVars
  BY <1>10 DEF compactionVars, CInv, Faithful, SoFar
<1>11. QED
  BY <1>1, <1>2, <1>3, <1>4, <1>5, <1>6, <1>7, <1>8, <1>9, <1>10 DEF CompactionNext

LEMMA CInvRestartKeeps ==
  CInv => RestartKeeps
<1> SUFFICES ASSUME CInv PROVE RestartKeeps
  OBVIOUS
<1>1. Sound(file) /\ file \in Seq(Records)
  BY DEF CInv, Sound
<1>2. ~Promoted <=> Unpromoted(file)
  BY DEF Promoted, Unpromoted
<1>3. StartsAgain
  BY <1>1, <1>2 DEF StartsAgain, Sound
<1>4. ASSUME ~Happened("reset"), ~Promoted PROVE RestartRebuilds
  <2>1. Plain(file)
    <3> SUFFICES ASSUME NEW i \in DOMAIN file, Group(file[i]) = <<"reset">> PROVE FALSE
      BY DEF Plain, Has, Places
    <3>1. file[i] \in Records
      BY <1>1
    <3>2. file[i].kind = "reset"
      BY <3>1, Keys DEF Resets
    <3>3. QED
      BY <1>4, <3>2 DEF Happened
  <2>2. State(live) /\ Alike(live, Rebuilt(file)) /\ State(Rebuilt(file))
    BY <1>1, <1>2, <1>4, <2>1, RebuiltState DEF CInv, Faithful
  <2>3. QED
    BY <2>2 DEF State, Alike, RestartRebuilds
<1>5. QED
  BY <1>3, <1>4 DEF RestartKeeps

(* RestartKeeps: for any number of teams, companies, records and restarts  *)
(* a server that stops starts again, and if the event was never reset and  *)
(* no team became the organiser it is back where it was, however its log   *)
(* was tidied in between (Compact, CompactRules, restore).                 *)
THEOREM RestartsAsItWas == CompactionSpec => []RestartKeeps
<1>1. CompactionInit => CInv
  BY InitCInv
<1>2. CInv /\ [CompactionNext]_compactionVars => CInv'
  BY NextCInv
<1>3. CInv => RestartKeeps
  BY CInvRestartKeeps
<1>4. QED
  BY <1>1, <1>2, <1>3, PTL DEF CompactionSpec

(* FactsKept: a compaction takes no trade and no reset out of the log, nor *)
(* changes their order, and the newest record of everything else stays,    *)
(* whatever the log holds (Compact, killed or not).                        *)
THEOREM NothingLost == CompactionSpec => FactsKept
<1> DEFINE Keeps == phase = "compacting" => /\ Facts(file') = Facts(file)
                                            /\ Newest(file') = Newest(file)
<1>1. CompactionInit => CInv
  BY InitCInv
<1>2. CInv /\ [CompactionNext]_compactionVars => CInv'
  BY NextCInv
<1>3. CInv /\ [CompactionNext]_compactionVars => [Keeps]_compactionVars
  <2> SUFFICES ASSUME CInv, [CompactionNext]_compactionVars, phase = "compacting"
               PROVE  Facts(file') = Facts(file) /\ Newest(file') = Newest(file)
    OBVIOUS
  <2>1. file \in Seq(Records) /\ SoFar
    BY DEF CInv, Sound
  <2>2. file' = file \/ file' = Compacted(file)
    <3>1. CASE Rename
      <4>1. PICK c : c = Compacted(file)
        OBVIOUS
      <4>2. c \in Seq(Records) /\ file' = tmp /\ Len(tmp) = Len(c)
        BY <2>1, <3>1, <4>1, NewestKept DEF Rename, Complete
      <4>3. tmp = SubSeq(c, 1, Len(c))
        BY <2>1, <4>1, <4>2 DEF SoFar
      <4>4. QED
        BY <4>1, <4>2, <4>3
    <3>2. CASE StopServer \/ Write
      BY <3>2 DEF StopServer, Write
    <3>3. CASE UNCHANGED compactionVars
      BY <3>3 DEF compactionVars
    <3>4. ~Begin /\ ~Restore /\ ~ResetEvent /\ ~SaveSim /\ ~PersistClock
      BY DEF Begin, Restore, ResetEvent, SaveSim, PersistClock, Happens
    <3>5. /\ \A u \in Team : ~Signup(u) /\ ~UpdateUser(u) /\ ~SeedAdmin(u) /\ ~Trade(u)
          /\ \A s \in Company : ~SetPaused(s)
      BY DEF Signup, UpdateUser, SeedAdmin, Trade, SetPaused, Happens
    <3>6. QED
      BY <3>1, <3>2, <3>3, <3>4, <3>5 DEF CompactionNext
  <2>3. QED
    BY <2>1, <2>2, CompactedFacts, CompactedNewest
<1>4. QED
  BY <1>1, <1>2, <1>3, PTL DEF CompactionSpec, FactsKept
=============================================================================
