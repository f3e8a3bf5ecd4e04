-------------------------- MODULE MigrationProofs --------------------------
(***************************************************************************)
(* What the startup migrations guarantee, for every pack, every kind of    *)
(* ledger, every set of replicas, records and other tenants, every crash.  *)
(***************************************************************************)
EXTENDS Migration, TLAPS

LEMMA SeqElement ==
    ASSUME NEW S, NEW s \in Seq(S)
    PROVE  /\ Len(s) \in Nat /\ DOMAIN s = 1 .. Len(s)
           /\ \A k \in DOMAIN s : s[k] \in S
OBVIOUS

LEMMA PlanType ==
    /\ Len(Plan) \in Nat /\ DOMAIN Plan = 1 .. Len(Plan)
    /\ \A n \in DOMAIN Plan :
          /\ Plan[n].id \in PlanIds /\ Plan[n].breaking \in BOOLEAN
          /\ Plan[n].fields \in Seq(Fields)
          /\ Len(Plan[n].fields) \in Nat
          /\ DOMAIN Plan[n].fields = 1 .. Len(Plan[n].fields)
          /\ \A k \in DOMAIN Plan[n].fields : Plan[n].fields[k] \in Fields
<1> DEFINE M == [id : Nat, breaking : BOOLEAN, fields : Seq(Fields)]
<1>1. Plan \in Seq(M)
  BY PlanAssumption
<1> HIDE DEF M
<1>2. Len(Plan) \in Nat /\ DOMAIN Plan = 1 .. Len(Plan) /\ \A n \in DOMAIN Plan : Plan[n] \in M
  BY <1>1, SeqElement
<1>3. \A n \in DOMAIN Plan : Plan[n].breaking \in BOOLEAN /\ Plan[n].fields \in Seq(Fields)
  BY <1>2 DEF M
<1> QED  BY <1>2, <1>3, SeqElement DEF PlanIds

(* What one write does to the fields of the records.                        *)
Vals == [Ids -> [Fields -> {"absent", "default", "user"}]]

LEMMA RowType ==
    ASSUME NEW v \in Vals, NEW i \in Ids, NEW row \in [Fields -> {"absent", "default", "user"}]
    PROVE  [v EXCEPT ![i] = row] \in Vals
<1> DEFINE T == [Fields -> {"absent", "default", "user"}]
<1>1. v \in [Ids -> T] /\ row \in T
  BY DEF Vals
<1> HIDE DEF T
<1>2. [v EXCEPT ![i] = row] \in [Ids -> T]
  BY <1>1
<1> QED  BY <1>2 DEF Vals, T

LEMMA FieldType ==
    ASSUME NEW v \in Vals, NEW i \in Ids, NEW f \in Fields, NEW x \in {"default", "user"}
    PROVE  [v EXCEPT ![i][f] = x] \in Vals
<1>1. [v[i] EXCEPT ![f] = x] \in [Fields -> {"absent", "default", "user"}]
  BY DEF Vals
<1>2. [v EXCEPT ![i][f] = x] = [v EXCEPT ![i] = [v[i] EXCEPT ![f] = x]]
  OBVIOUS
<1> QED  BY <1>1, <1>2, RowType

(* A write of one field changes that field of that record.                  *)
LEMMA FieldWrite ==
    ASSUME NEW v \in Vals, NEW x \in Ids, NEW g, NEW y, NEW i \in Ids, NEW f \in Fields
    PROVE  [v EXCEPT ![x][g] = y][i][f] = IF i = x /\ f = g THEN y ELSE v[i][f]
<1>1. v = [j \in Ids |-> v[j]] /\ v[x] = [h \in Fields |-> v[x][h]]
  BY DEF Vals
<1>2. [v EXCEPT ![x][g] = y][i] = IF i = x THEN [v[x] EXCEPT ![g] = y] ELSE v[i]
  BY <1>1
<1>3. [v[x] EXCEPT ![g] = y][f] = IF f = g THEN y ELSE v[x][f]
  BY <1>1
<1> QED  BY <1>2, <1>3

(* The states and steps of a startup stay within the plan: a replica never  *)
(* reads past the last migration or the last backfill of one.               *)
THEOREM TypeCorrect == Spec => []TypeOK
<1> USE DEF TypeOK, Applying
<1>1. Init => TypeOK
  <2> SUFFICES ASSUME Init PROVE TypeOK
    OBVIOUS
  <2>1. val \in [Ids -> [Fields -> {"absent", "default", "user"}]]
    BY DEF Init
  <2>2. 1 \in 1 .. Len(Plan) + 1
    BY PlanType
  <2>3. \A r \in Replicas : pc[r] = "down"
    BY DEF Init
  <2>4. /\ live \subseteq Ids /\ legacy \subseteq live
        /\ kind \in LedgerKinds /\ ledger \subseteq PlanIds /\ torn \in BOOLEAN
        /\ done \subseteq PlanIds /\ kept \subseteq PlanIds
        /\ other \in [Tenants -> {"idle", "truncate", "write"}]
        /\ obuf \in [Tenants -> SUBSET PlanIds]
    BY DEF Init
  <2>5. /\ pc \in [Replicas -> Applying \cup {"down", "next", "serving", "failed"}]
        /\ confirm \in [Replicas -> BOOLEAN]
        /\ known \in [Replicas -> SUBSET PlanIds]
        /\ at \in [Replicas -> 1 .. Len(Plan) + 1]
    BY <2>2 DEF Init
  <2>6. /\ fld \in [Replicas -> Nat \ {0}]
        /\ todo \in [Replicas -> SUBSET Ids]
        /\ buf \in [Replicas -> SUBSET PlanIds]
    BY DEF Init
  <2> QED  BY <2>1, <2>3, <2>4, <2>5, <2>6
<1>2. TypeOK /\ [Next]_vars => TypeOK'
  <2> SUFFICES ASSUME TypeOK, [Next]_vars PROVE TypeOK'
    OBVIOUS
  <2> USE DEF store, ledgers, tenants, local, Goto
  <2>0. ASSUME NEW r \in Replicas, NEW where \in {"down", "failed", "serving"}, Ends(r, where)
        PROVE  TypeOK'
    BY <2>0, PlanType DEF Ends
  <2>1. ASSUME NEW r \in Replicas, NEW conf \in BOOLEAN, Start(r, conf) PROVE TypeOK'
    <3>1. CASE Begins(r, conf)
      <4>1. Loaded \in SUBSET PlanIds /\ 1 \in 1 .. Len(Plan) + 1
        BY PlanType DEF Loaded, Scanned
      <4> QED  BY <3>1, <4>1 DEF Begins
    <3>2. CASE Ends(r, "serving") \/ Ends(r, "failed")
      BY <2>0, <3>2
    <3> QED  BY <2>1, <3>1, <3>2 DEF Start
  <2>2. ASSUME NEW r \in Replicas, RunOne(r) PROVE TypeOK'
    <3>1. CASE Ends(r, "serving")
      BY <2>0, <3>1
    <3>2. CASE at[r] <= Len(Plan) /\ RunsAt(r)
      <4>1. at[r] \in Nat /\ at[r] <= Len(Plan) /\ at[r] + 1 \in 1 .. Len(Plan) + 1
        BY <3>2, PlanType
      <4>2. \/ at' = [at EXCEPT ![r] = @ + 1] /\ UNCHANGED <<pc, fld>>
            \/ Goto(r, "query") /\ fld' = [fld EXCEPT ![r] = 1] /\ UNCHANGED at
        BY <3>2 DEF RunsAt
      <4>3. UNCHANGED <<store, ledgers, tenants, done, confirm, known, todo, buf>> /\ pc[r] = "next"
        BY <2>2, <3>2 DEF RunOne, RunsAt
      <4>4. CASE at' = [at EXCEPT ![r] = @ + 1] /\ UNCHANGED <<pc, fld>>
        <5>1. at' \in [Replicas -> 1 .. Len(Plan) + 1]
          BY <4>1, <4>4
        <5> QED  BY <4>3, <4>4, <5>1
      <4>5. CASE Goto(r, "query") /\ fld' = [fld EXCEPT ![r] = 1] /\ UNCHANGED at
        BY <4>1, <4>3, <4>5
      <4> QED  BY <4>2, <4>4, <4>5
    <3> QED  BY <2>2, <3>1, <3>2 DEF RunOne
  <2>3. ASSUME NEW r \in Replicas, Query(r) PROVE TypeOK'
    <3>1. {i \in Scanned(live) : val[i][Field(r)] = "absent"} \in SUBSET Ids
      BY DEF Scanned
    <3> QED  BY <2>3, <3>1 DEF Query
  <2>4. ASSUME NEW r \in Replicas, Fill(r) PROVE TypeOK'
    <3>1. Field(r) \in Fields
      BY <2>4, PlanType DEF Fill, Field
    <3>2. PICK i \in todo[r] :
             \/ Ends(r, "failed")
             \/ /\ val' = [val EXCEPT ![i][Field(r)] = "default"]
                /\ todo' = [todo EXCEPT ![r] = @ \ {i}]
                /\ UNCHANGED <<live, legacy, ledgers, tenants, done, pc, confirm, known, at, fld, buf>>
      BY <2>4 DEF Fill
    <3>3. CASE Ends(r, "failed")
      BY <2>0, <3>3
    <3>4. CASE /\ val' = [val EXCEPT ![i][Field(r)] = "default"]
               /\ todo' = [todo EXCEPT ![r] = @ \ {i}]
               /\ UNCHANGED <<live, legacy, ledgers, tenants, done, pc, confirm, known, at, fld, buf>>
      <4>1. val' \in [Ids -> [Fields -> {"absent", "default", "user"}]]
        <5>1. val \in Vals /\ i \in Ids
          BY <3>2 DEF Vals
        <5>2. [val EXCEPT ![i][Field(r)] = "default"] \in Vals
          BY <3>1, <5>1, FieldType, Zenon
        <5> QED  BY <3>4, <5>1, <5>2 DEF Vals
      <4>2. todo' \in [Replicas -> SUBSET Ids]
        <5>1. \A U \in SUBSET Ids : [todo EXCEPT ![r] = U] \in [Replicas -> SUBSET Ids]
          OBVIOUS
        <5>2. todo[r] \ {i} \in SUBSET Ids
          OBVIOUS
        <5> QED  BY <3>4, <5>1, <5>2, Zenon
      <4> QED  BY <3>4, <4>1, <4>2
    <3> QED  BY <3>2, <3>3, <3>4
  <2>5. ASSUME NEW r \in Replicas, FillDone(r) PROVE TypeOK'
    BY <2>5 DEF FillDone
  <2>6. ASSUME NEW r \in Replicas, Applied(r) PROVE TypeOK'
    <3>1. at[r] \in DOMAIN Plan
      BY <2>6, PlanType DEF Applied
    <3>2. Plan[at[r]].id \in PlanIds
      BY <3>1, PlanType
    <3> QED  BY <2>6, <3>2 DEF Applied
  <2>7. ASSUME NEW r \in Replicas, RecordInStore(r) PROVE TypeOK'
    <3>1. at[r] \in DOMAIN Plan /\ at[r] + 1 \in 1 .. Len(Plan) + 1
      BY <2>7, PlanType DEF RecordInStore
    <3>2. Plan[at[r]].id \in PlanIds
      BY <3>1, PlanType
    <3> QED  BY <2>7, <3>1, <3>2 DEF RecordInStore
  <2>8. ASSUME NEW r \in Replicas, ReadFile(r) \/ TruncateFile(r) PROVE TypeOK'
    BY <2>0, <2>8 DEF ReadFile, TruncateFile
  <2>9. ASSUME NEW r \in Replicas, WriteFile(r) PROVE TypeOK'
    <3>1. at[r] \in DOMAIN Plan /\ at[r] + 1 \in 1 .. Len(Plan) + 1
      BY <2>9, PlanType DEF WriteFile
    <3>2. Plan[at[r]].id \in PlanIds
      BY <3>1, PlanType
    <3> QED  BY <2>9, <3>1, <3>2 DEF WriteFile, WriteOver
  <2>10. ASSUME NEW r \in Replicas, Fails(r) \/ Crash(r) PROVE TypeOK'
    BY <2>0, <2>10 DEF Fails, Crash
  <2>11. ASSUME NEW i \in Ids, ClientCreate(i) \/ ClientDelete(i) PROVE TypeOK'
    <3>1. val \in Vals
      BY DEF Vals
    <3>2. \A v \in [Fields -> {"absent", "user"}] : v \in [Fields -> {"absent", "default", "user"}]
      OBVIOUS
    <3>3. \A v \in [Fields -> {"absent", "user"}] : [val EXCEPT ![i] = v] \in Vals
      BY <3>1, <3>2, RowType, Zenon
    <3>4. val' \in Vals
      <4>1. CASE ClientCreate(i)
        <5>1. PICK v \in [Fields -> {"absent", "user"}] : val' = [val EXCEPT ![i] = v]
          BY <4>1 DEF ClientCreate
        <5> QED  BY <3>3, <5>1, Zenon
      <4>2. CASE ClientDelete(i)
        BY <4>2, <3>1 DEF ClientDelete
      <4> QED  BY <2>11, <4>1, <4>2
    <3> QED  BY <2>11, <3>4 DEF ClientCreate, ClientDelete, Vals
  <2>12. ASSUME NEW i \in Ids, NEW f \in Fields, ClientUpdate(i, f) PROVE TypeOK'
    BY <2>12, FieldType DEF ClientUpdate, Vals
  <2>13. ASSUME NEW t \in Tenants,
                OtherReads(t) \/ OtherTruncates(t) \/ OtherWrites(t) \/ OtherDies(t)
         PROVE  TypeOK'
    <3>1. CASE OtherReads(t) \/ OtherDies(t)
      BY <3>1 DEF OtherReads, OtherDies
    <3>2. CASE OtherTruncates(t)
      BY <3>2 DEF OtherTruncates
    <3>3. CASE OtherWrites(t)
      BY <3>3 DEF OtherWrites, WriteOver
    <3> QED  BY <2>13, <3>1, <3>2, <3>3
  <2>14. CASE UNCHANGED vars
    BY <2>14 DEF vars
  <2> QED  BY <2>1, <2>2, <2>3, <2>4, <2>5, <2>6, <2>7, <2>8, <2>9, <2>10, <2>11, <2>12, <2>13, <2>14
           DEF Next, Migrate
<1> QED  BY <1>1, <1>2, PTL DEF Spec

-----------------------------------------------------------------------------

(* What a startup knows while it runs: the applied set it holds is settled  *)
(* (the one it is about to record excepted), and so is every migration it   *)
(* has passed.  Whatever is written to a ledger, by this tenant or another, *)
(* holds only ids whose backfills were completed.                           *)
Recording == {"record", "truncate", "write"}
Away      == {"down", "failed"}

Alone ==
    ~InStore => \A r, s \in Replicas : pc[r] \notin Away /\ pc[s] \notin Away => r = s

FileKind ==
    /\ \A r \in Replicas : pc[r] \in {"truncate", "write"} => kind = "file"
    /\ \A t \in Tenants : other[t] # "idle" => kind = "file"

DoneKeeps ==
    /\ ledger \subseteq done
    /\ \A r \in Replicas : buf[r] \subseteq done
    /\ \A t \in Tenants : obuf[t] \subseteq done
    /\ \A r \in Replicas : pc[r] \in Recording => Plan[at[r]].id \in done

KnownSettled ==
    \A r \in Busy : \A id \in known[r] :
        id \in Settled \/ (pc[r] \in Recording /\ id = Plan[at[r]].id)

PastSettled ==
    \A r \in Busy : \A n \in DOMAIN Plan : n < at[r] => Plan[n].id \in Settled

RunInv ==
    /\ Alone /\ FileKind /\ DoneKeeps
    /\ KnownSettled /\ PastSettled /\ GateHolds /\ ServingMigrated

(* The steps of the other tenants.                                          *)
Others(t) == OtherReads(t) \/ OtherTruncates(t) \/ OtherWrites(t) \/ OtherDies(t)

(* What is settled stays so: a store's record_applied is a transaction that *)
(* adds one key, and of a file only the completed backfills are asked.      *)
LEMMA SettledStep ==
    ASSUME TypeOK, FileKind, [Next]_vars
    PROVE  Settled \subseteq Settled' /\ done \subseteq done' /\ kind' = kind
<1> DEFINE P == Settled \subseteq Settled' /\ done \subseteq done' /\ kind' = kind
<1> USE DEF store, ledgers, tenants, local
<1>1. ASSUME NEW r \in Replicas, RecordInStore(r) PROVE P
  BY <1>1 DEF RecordInStore, Settled
<1>2. ASSUME NEW r \in Replicas, WriteFile(r) PROVE P
  BY <1>2 DEF WriteFile, FileKind, Settled
<1>3. ASSUME NEW t \in Tenants, Others(t) PROVE P
  BY <1>3 DEF Others, OtherReads, OtherTruncates, OtherWrites, OtherDies, FileKind, Settled
<1>4. ASSUME NEW r \in Replicas, Applied(r) PROVE P
  BY <1>4 DEF Applied, Settled
<1>5. ASSUME NEW r \in Replicas,
             \/ (\E conf \in BOOLEAN : Start(r, conf)) \/ RunOne(r) \/ Query(r) \/ Fill(r)
             \/ FillDone(r) \/ ReadFile(r) \/ TruncateFile(r) \/ Fails(r) \/ Crash(r)
      PROVE  P
  BY <1>5 DEF Start, Begins, RunOne, RunsAt, Query, Fill, FillDone, ReadFile, TruncateFile, Fails,
     Crash, Ends, Settled
<1>6. CASE UNCHANGED <<kind, ledger, done>>
  BY <1>6 DEF Settled
<1>7. ASSUME NEW i \in Ids, ClientCreate(i) \/ ClientDelete(i) \/ \E f \in Fields : ClientUpdate(i, f)
      PROVE  UNCHANGED <<kind, ledger, done>>
  BY <1>7 DEF ClientCreate, ClientDelete, ClientUpdate
<1> QED  BY <1>1, <1>2, <1>3, <1>4, <1>5, <1>6, <1>7 DEF Next, Migrate, Others, vars

(* Nobody writes an id whose backfills are not completed.                   *)
LEMMA DoneStep ==
    ASSUME TypeOK, FileKind, DoneKeeps, [Next]_vars
    PROVE  FileKind' /\ DoneKeeps'
<1> DEFINE P == FileKind' /\ DoneKeeps'
<1> USE DEF store, ledgers, tenants, local, Goto, Recording, TypeOK
<1>1. ASSUME NEW r \in Replicas, RecordInStore(r) PROVE P
  BY <1>1 DEF RecordInStore, FileKind, DoneKeeps
<1>2. ASSUME NEW r \in Replicas, WriteFile(r) PROVE P
  BY <1>2 DEF WriteFile, FileKind, DoneKeeps
<1>3. ASSUME NEW t \in Tenants, Others(t) PROVE P
  BY <1>3 DEF Others, OtherReads, OtherTruncates, OtherWrites, OtherDies, FileKind, DoneKeeps
<1>4. ASSUME NEW r \in Replicas, Applied(r) PROVE P
  BY <1>4 DEF Applied, FileKind, DoneKeeps
<1>5. ASSUME NEW r \in Replicas, NEW where \in {"down", "failed", "serving"}, Ends(r, where) PROVE P
  BY <1>5 DEF Ends, FileKind, DoneKeeps
<1>6. ASSUME NEW r \in Replicas, NEW conf \in BOOLEAN, Start(r, conf) PROVE P
  <2>1. CASE Begins(r, conf)
    BY <2>1 DEF Begins, FileKind, DoneKeeps
  <2> QED  BY <1>5, <1>6, <2>1 DEF Start
<1>7. ASSUME NEW r \in Replicas, RunOne(r) PROVE P
  <2>1. CASE pc[r] = "next" /\ RunsAt(r)
    <3>1. /\ UNCHANGED <<kind, ledger, done, buf, other, obuf>>
          /\ \A q \in Replicas \ {r} : pc'[q] = pc[q] /\ at'[q] = at[q]
          /\ pc'[r] \in {"next", "query"}
      BY <2>1 DEF RunsAt
    <3> QED  BY <3>1 DEF FileKind, DoneKeeps
  <2> QED  BY <1>5, <1>7, <2>1 DEF RunOne
<1>8. ASSUME NEW r \in Replicas, Query(r) \/ FillDone(r) PROVE P
  BY <1>8 DEF Query, FillDone, FileKind, DoneKeeps
<1>9. ASSUME NEW r \in Replicas, Fill(r) PROVE P
  <2>1. CASE UNCHANGED <<ledgers, tenants, done, pc, at, buf>>
    BY <2>1 DEF FileKind, DoneKeeps
  <2> QED  BY <1>5, <1>9, <2>1 DEF Fill
<1>10. ASSUME NEW r \in Replicas, ReadFile(r) \/ TruncateFile(r) PROVE P
  <2>1. CASE ReadFile(r) /\ ~torn
    BY <2>1 DEF ReadFile, FileKind, DoneKeeps
  <2>2. CASE TruncateFile(r)
    BY <2>2 DEF TruncateFile, FileKind, DoneKeeps
  <2> QED  BY <1>5, <1>10, <2>1, <2>2 DEF ReadFile
<1>11. ASSUME NEW r \in Replicas, Fails(r) \/ Crash(r) PROVE P
  BY <1>5, <1>11 DEF Fails, Crash
<1>12. CASE UNCHANGED <<ledgers, tenants, done, pc, at, buf>>
  BY <1>12 DEF FileKind, DoneKeeps
<1>13. ASSUME NEW i \in Ids, ClientCreate(i) \/ ClientDelete(i) \/ \E f \in Fields : ClientUpdate(i, f)
       PROVE  UNCHANGED <<ledgers, tenants, done, pc, at, buf>>
  BY <1>13 DEF ClientCreate, ClientDelete, ClientUpdate
<1> QED  BY <1>1, <1>2, <1>3, <1>4, <1>6, <1>7, <1>8, <1>9, <1>10, <1>11, <1>12, <1>13
         DEF Next, Migrate, Others, vars

(* A replica that only moves on, or out, keeps its invariant: nobody else's *)
(* step can take away what is settled.                                      *)
LEMMA Moves ==
    ASSUME TypeOK, RunInv, FileKind', DoneKeeps', NEW r \in Replicas,
           Settled \subseteq Settled', kind' = kind,
           \A q \in Replicas \ {r} : /\ pc'[q] = pc[q] /\ confirm'[q] = confirm[q]
                                     /\ known'[q] = known[q] /\ at'[q] = at[q],
           pc'[r] \notin Away => pc[r] \notin Away,
           pc'[r] = "serving" => pc[r] = "serving" \/ PlanIds \subseteq Settled',
           r \in Busy' => /\ r \in Busy /\ confirm'[r] = confirm[r]
                          /\ known'[r] = known[r] /\ at'[r] = at[r]
                          /\ (pc[r] \in Recording => pc'[r] \in Recording)
    PROVE  RunInv'
<1>1. Alone'
  BY DEF RunInv, Alone, InStore
<1>2. Busy' \subseteq Busy
  BY DEF Busy
<1>3. KnownSettled'
  BY <1>2 DEF RunInv, KnownSettled, Busy
<1>4. PastSettled' /\ GateHolds'
  <2>1. \A q \in Busy' : q \in Busy /\ at'[q] = at[q] /\ confirm'[q] = confirm[q]
    BY <1>2 DEF Busy
  <2> QED  BY <2>1 DEF RunInv, PastSettled, GateHolds
<1>5. ServingMigrated'
  BY DEF RunInv, ServingMigrated
<1> QED  BY <1>1, <1>3, <1>4, <1>5 DEF RunInv

LEMMA EndsInv ==
    ASSUME TypeOK, RunInv, FileKind', DoneKeeps', NEW r \in Replicas, pc[r] \notin Away,
           NEW where \in {"down", "failed", "serving"}, Ends(r, where),
           where = "serving" => PlanIds \subseteq Settled
    PROVE  RunInv'
<1>1. /\ pc' = [pc EXCEPT ![r] = where] /\ UNCHANGED <<kind, ledger, done>>
      /\ \A q \in Replicas \ {r} : /\ pc'[q] = pc[q] /\ confirm'[q] = confirm[q]
                                   /\ known'[q] = known[q] /\ at'[q] = at[q]
  BY DEF Ends, Goto, TypeOK, ledgers
<1>2. Settled' = Settled
  BY <1>1 DEF Settled
<1>3. pc'[r] = where /\ r \notin Busy'
  BY <1>1 DEF TypeOK, Busy, Applying
<1> QED  BY <1>1, <1>2, <1>3, Moves

(* Start: whoever begins to migrate has passed the gate.                    *)
LEMMA StartInv ==
    ASSUME TypeOK, TypeOK', RunInv, FileKind', DoneKeeps',
           NEW r \in Replicas, NEW conf \in BOOLEAN, Start(r, conf)
    PROVE  RunInv'
<1> USE DEF store, ledgers, tenants, local, Goto
<1>0. /\ pc[r] \in Away /\ UNCHANGED <<kind, ledger, done>>
      /\ InStore \/ \A s \in Replicas : pc[s] \in Away
      /\ pc'[r] \in {"serving", "failed", "next"}
      /\ \A q \in Replicas \ {r} :
            pc'[q] = pc[q] /\ known'[q] = known[q] /\ at'[q] = at[q] /\ confirm'[q] = confirm[q]
  BY DEF Start, Begins, Ends, TypeOK, Away
<1>00. Settled' = Settled
  BY <1>0 DEF Settled
<1>1. Alone'
  BY <1>0 DEF RunInv, Alone, InStore, Away
<1>2. CASE Begins(r, conf)
  <2>1. /\ GatePasses(Loaded, conf) /\ kind # "none"
        /\ known' = [known EXCEPT ![r] = Loaded]
        /\ at' = [at EXCEPT ![r] = 1] /\ confirm' = [confirm EXCEPT ![r] = conf]
        /\ pc' = [pc EXCEPT ![r] = "next"]
    <3>1. pc'[r] = "next"
      BY <1>2 DEF Begins, TypeOK
    <3> QED  BY <1>2, <3>1 DEF Start, Begins, Ends, TypeOK
  <2>2. Busy' \subseteq Busy \cup {r}
    BY <2>1 DEF Busy, TypeOK
  <2>3. Loaded \subseteq ledger /\ ledger \subseteq Settled
    BY DEF Loaded, Scanned, Settled, RunInv, DoneKeeps
  <2>4. KnownSettled'
    BY <1>0, <1>00, <2>1, <2>2, <2>3 DEF RunInv, KnownSettled, TypeOK
  <2>5. PastSettled'
    BY <1>0, <1>00, <2>1, <2>2, PlanType DEF RunInv, PastSettled, TypeOK
  <2>6. GateHolds'
    BY <1>0, <1>00, <2>1, <2>2, <2>3 DEF RunInv, GateHolds, GatePasses, TypeOK
  <2>7. ServingMigrated'
    BY <1>0, <1>00, <2>1 DEF RunInv, ServingMigrated, TypeOK
  <2> QED  BY <1>1, <2>4, <2>5, <2>6, <2>7 DEF RunInv
<1>3. CASE Ends(r, "serving") \/ Ends(r, "failed")
  <2>1. pc'[r] \in {"serving", "failed"} /\ (pc'[r] = "serving" => Plan = << >> \/ kind = "none")
    BY <1>3 DEF Start, Begins, Ends, TypeOK
  <2>2. r \notin Busy' /\ Busy' \subseteq Busy
    BY <1>0, <2>1 DEF Busy, Applying
  <2>3. KnownSettled' /\ PastSettled' /\ GateHolds'
    BY <1>0, <1>00, <2>2 DEF RunInv, KnownSettled, PastSettled, GateHolds, Busy
  <2>4. ServingMigrated'
    BY <1>0, <1>00, <2>1 DEF RunInv, ServingMigrated, PlanIds
  <2> QED  BY <1>1, <2>3, <2>4 DEF RunInv
<1> QED  BY <1>2, <1>3 DEF Start

(* run_one: what is skipped is settled, so at the end everything is.        *)
LEMMA RunOneInv ==
    ASSUME TypeOK, RunInv, FileKind', DoneKeeps', NEW r \in Replicas, RunOne(r)
    PROVE  RunInv'
<1> USE DEF store, ledgers, tenants, local, Goto
<1>0. r \in Busy /\ pc[r] = "next" /\ at[r] \in Nat
  BY PlanType DEF RunOne, Busy, TypeOK
<1>1. CASE at[r] > Len(Plan) /\ Ends(r, "serving")
  <2>1. PlanIds \subseteq Settled
    BY <1>0, <1>1, PlanType DEF RunInv, PastSettled, PlanIds
  <2> QED  BY <1>0, <1>1, <2>1, EndsInv DEF Away
<1>2. CASE at[r] <= Len(Plan) /\ RunsAt(r)
  <2>0. UNCHANGED <<kind, ledger, done, confirm, known>> /\ Settled' = Settled
    BY <1>2 DEF RunsAt, Settled
  <2>1. CASE Plan[at[r]].id \in known[r] \/ (Plan[at[r]].breaking /\ ~confirm[r])
    <3>1. at' = [at EXCEPT ![r] = @ + 1] /\ UNCHANGED pc
      BY <1>2, <2>1 DEF RunsAt
    <3>2. at[r] \in DOMAIN Plan
      BY <1>0, <1>2, PlanType DEF TypeOK
    <3>3. Plan[at[r]].id \in Settled
      <4>1. CASE Plan[at[r]].id \in known[r]
        BY <1>0, <4>1 DEF RunInv, KnownSettled, Recording
      <4>2. CASE Plan[at[r]].breaking /\ ~confirm[r]
        BY <1>0, <3>2, <4>2 DEF RunInv, GateHolds, Breaking
      <4> QED  BY <2>1, <4>1, <4>2
    <3>4. Busy' = Busy
      BY <3>1 DEF Busy
    <3>5. PastSettled'
      <4> SUFFICES ASSUME NEW q \in Busy, NEW n \in DOMAIN Plan, n < at'[q]
                   PROVE  Plan[n].id \in Settled
        BY <2>0, <3>4 DEF PastSettled
      <4>1. CASE q = r
        <5>1. n \in Nat /\ n <= at[r]
          BY <1>0, <3>1, <4>1, PlanType DEF TypeOK
        <5> QED  BY <1>0, <3>3, <4>1, <5>1 DEF RunInv, PastSettled
      <4>2. CASE q # r
        BY <3>1, <4>2 DEF RunInv, PastSettled, TypeOK, Busy
      <4> QED  BY <4>1, <4>2
    <3>6. KnownSettled'
      BY <1>0, <2>0, <3>1, <3>4 DEF RunInv, KnownSettled, TypeOK, Busy, Recording
    <3>7. Alone' /\ GateHolds' /\ ServingMigrated'
      BY <1>0, <2>0, <3>1, <3>4 DEF RunInv, Alone, InStore, GateHolds, ServingMigrated
    <3> QED  BY <3>5, <3>6, <3>7 DEF RunInv
  <2>2. CASE ~(Plan[at[r]].id \in known[r] \/ (Plan[at[r]].breaking /\ ~confirm[r]))
    <3>1. pc' = [pc EXCEPT ![r] = "query"] /\ UNCHANGED at
      BY <1>2, <2>2 DEF RunsAt
    <3> QED  BY <1>0, <2>0, <3>1, Moves DEF TypeOK, Busy, Applying, Away, Recording
  <2> QED  BY <2>1, <2>2
<1> QED  BY <1>1, <1>2 DEF RunOne

(* record_applied, in the store or in the file: the migration at hand is    *)
(* settled, and the loop goes on.                                           *)
LEMMA RecordInv ==
    ASSUME TypeOK, RunInv, FileKind', DoneKeeps', Settled \subseteq Settled',
           NEW r \in Replicas, RecordInStore(r) \/ WriteFile(r)
    PROVE  RunInv'
<1> USE DEF store, ledgers, tenants, local, Goto
<1>1. /\ UNCHANGED <<kind, confirm, known>> /\ pc[r] \in Recording
      /\ at' = [at EXCEPT ![r] = @ + 1]
      /\ pc' = [pc EXCEPT ![r] = "next"]
      /\ Plan[at[r]].id \in ledger' /\ done' = done
  BY DEF RecordInStore, WriteFile, Recording
<1>2. Busy' = Busy /\ r \in Busy /\ at[r] \in Nat
  BY <1>1, PlanType DEF Busy, Applying, TypeOK, Recording
<1>3. Alone'
  BY <1>1 DEF RunInv, Alone, InStore, Away, Recording, TypeOK
<1>4. Plan[at[r]].id \in Settled'
  BY <1>1 DEF Settled, RunInv, DoneKeeps
<1>5. KnownSettled'
  <2> SUFFICES ASSUME NEW q \in Busy, NEW id \in known[q]
               PROVE  id \in Settled' \/ (pc'[q] \in Recording /\ id = Plan[at'[q]].id)
    BY <1>1, <1>2 DEF KnownSettled
  <2>1. CASE q = r
    BY <1>4, <2>1 DEF RunInv, KnownSettled
  <2>2. CASE q # r
    BY <1>1, <2>2 DEF RunInv, KnownSettled, TypeOK, Busy
  <2> QED  BY <2>1, <2>2
<1>6. PastSettled'
  <2> SUFFICES ASSUME NEW q \in Busy, NEW n \in DOMAIN Plan, n < at'[q]
               PROVE  Plan[n].id \in Settled'
    BY <1>2 DEF PastSettled
  <2>1. CASE q = r
    <3>1. n \in Nat /\ n <= at[r]
      BY <1>1, <1>2, <2>1, PlanType DEF TypeOK
    <3> QED  BY <1>2, <1>4, <2>1, <3>1 DEF RunInv, PastSettled
  <2>2. CASE q # r
    BY <1>1, <2>2 DEF RunInv, PastSettled, TypeOK, Busy
  <2> QED  BY <2>1, <2>2
<1>7. GateHolds' /\ ServingMigrated'
  BY <1>1, <1>2 DEF RunInv, GateHolds, ServingMigrated, TypeOK
<1> QED  BY <1>3, <1>5, <1>6, <1>7 DEF RunInv

LEMMA AppliedInv ==
    ASSUME TypeOK, RunInv, FileKind', DoneKeeps', Settled \subseteq Settled',
           NEW r \in Replicas, Applied(r)
    PROVE  RunInv'
<1> USE DEF store, ledgers, tenants, local, Goto
<1>1. /\ UNCHANGED <<kind, confirm, at>> /\ pc[r] = "query"
      /\ known' = [known EXCEPT ![r] = @ \cup {Plan[at[r]].id}]
      /\ pc' = [pc EXCEPT ![r] = "record"]
  BY DEF Applied
<1>2. Busy' = Busy /\ r \in Busy
  BY <1>1 DEF Busy, Applying, TypeOK
<1>3. KnownSettled'
  <2> SUFFICES ASSUME NEW q \in Busy, NEW id \in known'[q]
               PROVE  id \in Settled' \/ (pc'[q] \in Recording /\ id = Plan[at[q]].id)
    BY <1>1, <1>2 DEF KnownSettled
  <2>1. CASE q = r
    <3>1. id \in known[r] \/ id = Plan[at[r]].id
      BY <1>1, <2>1 DEF TypeOK
    <3>2. id \in known[r] => id \in Settled
      BY <1>1, <1>2 DEF RunInv, KnownSettled, Recording
    <3> QED  BY <1>1, <2>1, <3>1, <3>2 DEF TypeOK, Recording
  <2>2. CASE q # r
    BY <1>1, <1>2, <2>2 DEF RunInv, KnownSettled, TypeOK, Busy
  <2> QED  BY <2>1, <2>2
<1>4. Alone'
  BY <1>1 DEF RunInv, Alone, InStore, Away, TypeOK
<1>5. PastSettled' /\ GateHolds' /\ ServingMigrated'
  BY <1>1, <1>2 DEF RunInv, PastSettled, GateHolds, ServingMigrated, TypeOK
<1> QED  BY <1>3, <1>4, <1>5 DEF RunInv

LEMMA RunStep ==
    ASSUME TypeOK, TypeOK', RunInv, [Next]_vars
    PROVE  RunInv'
<1> USE DEF store, ledgers, tenants, local, Goto
<1>0. FileKind' /\ DoneKeeps' /\ Settled \subseteq Settled' /\ kind' = kind
  BY SettledStep, DoneStep DEF RunInv
<1>1. ASSUME NEW r \in Replicas, Query(r) \/ FillDone(r) PROVE RunInv'
  <2>1. PICK to \in {"fill", "query"} :
           /\ pc[r] \in {"fill", "query"} /\ pc' = [pc EXCEPT ![r] = to]
           /\ UNCHANGED <<confirm, known, at>>
    BY <1>1 DEF Query, FillDone
  <2> QED  BY <1>0, <2>1, Moves DEF TypeOK, Busy, Applying, Away, Recording
<1>2. ASSUME NEW r \in Replicas, NEW where \in {"failed", "down"}, pc[r] # "down", Ends(r, where)
      PROVE  RunInv'
  <2>1. /\ pc' = [pc EXCEPT ![r] = where]
        /\ \A q \in Replicas \ {r} : /\ pc'[q] = pc[q] /\ confirm'[q] = confirm[q]
                                     /\ known'[q] = known[q] /\ at'[q] = at[q]
    BY <1>2 DEF Ends, TypeOK
  <2>2. pc'[r] = where /\ r \notin Busy'
    BY <2>1 DEF TypeOK, Busy, Applying
  <2> QED  BY <1>0, <2>1, <2>2, Moves DEF Away
<1>3. ASSUME NEW r \in Replicas, Fill(r) PROVE RunInv'
  <2>1. CASE Ends(r, "failed")
    BY <1>2, <1>3, <2>1 DEF Fill
  <2>2. CASE UNCHANGED <<pc, confirm, known, at>>
    BY <1>0, <2>2, Moves DEF TypeOK, Busy
  <2> QED  BY <1>3, <2>1, <2>2 DEF Fill
<1>4. ASSUME NEW r \in Replicas, ReadFile(r) \/ TruncateFile(r) PROVE RunInv'
  <2>1. CASE ReadFile(r) /\ torn
    BY <1>2, <2>1 DEF ReadFile
  <2>2. CASE (ReadFile(r) /\ ~torn) \/ TruncateFile(r)
    <3>1. PICK to \in {"truncate", "write"} :
             /\ UNCHANGED <<confirm, known, at>> /\ pc[r] \in {"record", "truncate"}
             /\ pc' = [pc EXCEPT ![r] = to]
      BY <2>2 DEF ReadFile, TruncateFile
    <3> QED  BY <1>0, <3>1, Moves DEF TypeOK, Busy, Applying, Away, Recording
  <2> QED  BY <1>4, <2>1, <2>2
<1>5. ASSUME NEW r \in Replicas, Fails(r) \/ Crash(r) PROVE RunInv'
  BY <1>2, <1>5 DEF Fails, Crash, Applying
<1>6. CASE UNCHANGED <<pc, confirm, known, at>>
  <2>1. Busy' = Busy
    BY <1>6 DEF Busy
  <2> QED  BY <1>0, <1>6, <2>1 DEF RunInv, Alone, InStore, KnownSettled, PastSettled, GateHolds,
              ServingMigrated
<1>7. ASSUME NEW i \in Ids, ClientCreate(i) \/ ClientDelete(i) \/ \E f \in Fields : ClientUpdate(i, f)
      PROVE  UNCHANGED <<pc, confirm, known, at>>
  BY <1>7 DEF ClientCreate, ClientDelete, ClientUpdate
<1>8. ASSUME NEW t \in Tenants, Others(t)
      PROVE  UNCHANGED <<pc, confirm, known, at>>
  BY <1>8 DEF Others, OtherReads, OtherTruncates, OtherWrites, OtherDies
<1>9. UNCHANGED vars => UNCHANGED <<pc, confirm, known, at>>
  BY DEF vars
<1>10. ASSUME NEW r \in Replicas,
              \/ (\E conf \in BOOLEAN : Start(r, conf)) \/ RunOne(r) \/ Applied(r)
              \/ RecordInStore(r) \/ WriteFile(r)
       PROVE  RunInv'
  BY <1>0, <1>10, StartInv, RunOneInv, AppliedInv, RecordInv
<1> QED  BY <1>1, <1>3, <1>4, <1>5, <1>6, <1>7, <1>8, <1>9, <1>10 DEF Next, Migrate, Others

(* The invariant of a startup holds from the beginning.                     *)
LEMMA RunInvariant == Spec => []RunInv
<1>1. Init => RunInv
  <2> SUFFICES ASSUME Init PROVE RunInv
    OBVIOUS
  <2>1. \A r \in Replicas : pc[r] = "down"
    BY DEF Init
  <2>2. Busy = {}
    BY <2>1 DEF Busy, Applying
  <2>3. FileKind /\ DoneKeeps
    BY DEF Init, FileKind, DoneKeeps, Recording
  <2> QED  BY <2>1, <2>2, <2>3 DEF RunInv, Alone, Away, KnownSettled, PastSettled, GateHolds,
              ServingMigrated
<1>2. TypeOK /\ TypeOK' /\ RunInv /\ [Next]_vars => RunInv'
  BY RunStep
<1> QED  BY <1>1, <1>2, TypeCorrect, PTL DEF Spec

(* orchestrate.rs: no startup without the confirmation runs beside a        *)
(* pending breaking migration, however many replicas start or crash.        *)
THEOREM GateSafe == Spec => []GateHolds
<1>1. RunInv => GateHolds
  BY DEF RunInv
<1> QED  BY <1>1, RunInvariant, PTL

(* docs/migrations.md: a replica that serves has applied every migration of *)
(* its pack.                                                                *)
THEOREM ServingSafe == Spec => []ServingMigrated
<1>1. RunInv => ServingMigrated
  BY DEF RunInv
<1> QED  BY <1>1, RunInvariant, PTL

-----------------------------------------------------------------------------
(* The ledger file.  What it recorded, and no other tenant dropped, is      *)
(* still in it, torn or not; in what the process that records has read; and *)
(* in what a startup knows, which therefore is not applying it.             *)
KeptInv ==
    kind = "file" =>
        /\ kept \subseteq ledger
        /\ \A r \in Busy : kept \subseteq known[r]
        /\ \A r \in Replicas : pc[r] \in {"truncate", "write"} => kept \subseteq buf[r]
        /\ \A r \in Replicas : pc[r] \in Recording => Plan[at[r]].id \in known[r]
        /\ \A r \in Replicas : pc[r] \in {"query", "fill"} => Plan[at[r]].id \notin known[r]

LEMMA KeptStep ==
    ASSUME TypeOK, TypeOK', RunInv, KeptInv, [Next]_vars
    PROVE  KeptInv'
<1> USE DEF store, ledgers, tenants, local, Goto
<1> SUFFICES ASSUME kind = "file" PROVE KeptInv'
  BY SettledStep DEF RunInv, KeptInv
<1>0. /\ kept \subseteq ledger
      /\ \A r \in Replicas : pc[r] \in Applying \cup {"next"} => kept \subseteq known[r]
      /\ \A r \in Replicas : pc[r] \in {"truncate", "write"} => kept \subseteq buf[r]
      /\ \A r \in Replicas : pc[r] \in Recording => Plan[at[r]].id \in known[r]
      /\ \A r \in Replicas : pc[r] \in {"query", "fill"} => Plan[at[r]].id \notin known[r]
  BY DEF KeptInv, Busy
<1> DEFINE Q(r) == /\ pc'[r] \in Applying \cup {"next"} => kept' \subseteq known'[r]
                   /\ pc'[r] \in {"truncate", "write"} => kept' \subseteq buf'[r]
                   /\ pc'[r] \in Recording => Plan[at'[r]].id \in known'[r]
                   /\ pc'[r] \in {"query", "fill"} => Plan[at'[r]].id \notin known'[r]
<1>1. SUFFICES kept' \subseteq ledger' /\ \A r \in Replicas : Q(r)
  BY DEF KeptInv, Busy
<1>2. ASSUME NEW r \in Replicas, kept' \subseteq ledger', kept' \subseteq kept, Q(r),
             \A q \in Replicas \ {r} :
                 pc'[q] = pc[q] /\ known'[q] = known[q] /\ at'[q] = at[q] /\ buf'[q] = buf[q]
      PROVE  kept' \subseteq ledger' /\ \A q \in Replicas : Q(q)
  BY <1>0, <1>2
<1> HIDE DEF Q
<1>3. ASSUME NEW r \in Replicas, NEW where \in {"down", "failed", "serving"}, Ends(r, where)
      PROVE  kept' \subseteq ledger' /\ \A q \in Replicas : Q(q)
  <2>1. Q(r)
    BY <1>3 DEF Q, Ends, TypeOK, Applying, Recording
  <2> QED  BY <1>0, <1>2, <1>3, <2>1 DEF Ends, TypeOK
<1>4. ASSUME NEW r \in Replicas, NEW conf \in BOOLEAN, Start(r, conf)
      PROVE  kept' \subseteq ledger' /\ \A q \in Replicas : Q(q)
  <2>1. CASE Begins(r, conf)
    <3>1. Loaded = ledger
      BY DEF Loaded, Scanned
    <3>2. Q(r)
      BY <1>0, <2>1, <3>1 DEF Q, Begins, TypeOK, Applying, Recording
    <3> QED  BY <1>0, <1>2, <2>1, <3>2 DEF Begins, TypeOK
  <2> QED  BY <1>3, <1>4, <2>1 DEF Start
<1>5. ASSUME NEW r \in Replicas, RunOne(r)
      PROVE  kept' \subseteq ledger' /\ \A q \in Replicas : Q(q)
  <2>1. CASE RunsAt(r)
    <3>1. Q(r)
      BY <1>0, <1>5, <2>1 DEF Q, RunOne, RunsAt, Applying, Recording, TypeOK,
         RunInv, GateHolds, Breaking, Settled
    <3>2. /\ UNCHANGED <<kept, ledger, known, buf>>
          /\ \A q \in Replicas \ {r} : pc'[q] = pc[q] /\ at'[q] = at[q]
      <4>1. /\ pc' = pc \/ pc' = [pc EXCEPT ![r] = "query"]
            /\ at' = at \/ at' = [at EXCEPT ![r] = @ + 1]
            /\ UNCHANGED <<kept, ledger, known, buf>>
        BY <2>1 DEF RunsAt
      <4> QED  BY <4>1 DEF TypeOK
    <3> QED  BY <1>0, <1>2, <3>1, <3>2
  <2> QED  BY <1>3, <1>5, <2>1 DEF RunOne
<1>6. ASSUME NEW r \in Replicas, Query(r) \/ FillDone(r)
      PROVE  kept' \subseteq ledger' /\ \A q \in Replicas : Q(q)
  <2>1. Q(r)
    BY <1>0, <1>6 DEF Q, Query, FillDone, Applying, Recording, TypeOK
  <2> QED  BY <1>0, <1>2, <1>6, <2>1 DEF Query, FillDone, TypeOK
<1>7. ASSUME NEW r \in Replicas, Fill(r)
      PROVE  kept' \subseteq ledger' /\ \A q \in Replicas : Q(q)
  <2>1. CASE UNCHANGED <<ledgers, pc, known, at, buf>>
    BY <1>0, <2>1 DEF Q
  <2> QED  BY <1>3, <1>7, <2>1 DEF Fill
<1>8. ASSUME NEW r \in Replicas, Applied(r)
      PROVE  kept' \subseteq ledger' /\ \A q \in Replicas : Q(q)
  <2>1. Q(r)
    BY <1>0, <1>8 DEF Q, Applied, Applying, Recording, TypeOK
  <2> QED  BY <1>0, <1>2, <1>8, <2>1 DEF Applied, TypeOK
<1>9. ASSUME NEW r \in Replicas, ReadFile(r) \/ TruncateFile(r)
      PROVE  kept' \subseteq ledger' /\ \A q \in Replicas : Q(q)
  <2>1. CASE ReadFile(r) /\ ~torn
    <3>1. Q(r)
      BY <1>0, <2>1 DEF Q, ReadFile, Ends, Applying, Recording, TypeOK
    <3> QED  BY <1>0, <1>2, <2>1, <3>1 DEF ReadFile, Ends, TypeOK
  <2>2. CASE TruncateFile(r)
    <3>1. Q(r)
      BY <1>0, <2>2 DEF Q, TruncateFile, Applying, Recording, TypeOK
    <3> QED  BY <1>0, <1>2, <2>2, <3>1 DEF TruncateFile, TypeOK
  <2> QED  BY <1>3, <1>9, <2>1, <2>2 DEF ReadFile
<1>10. ASSUME NEW r \in Replicas, WriteFile(r)
       PROVE  kept' \subseteq ledger' /\ \A q \in Replicas : Q(q)
  <2>1. pc[r] = "write" /\ \A q \in Replicas \ {r} : pc[q] \in Away /\ pc'[q] = pc[q]
    BY <1>10 DEF WriteFile, RunInv, Alone, InStore, Away, TypeOK
  <2>2. Q(r)
    BY <1>0, <1>10 DEF Q, WriteFile, Applying, Recording, TypeOK
  <2>3. \A q \in Replicas \ {r} : Q(q)
    BY <2>1 DEF Q, Away, Applying, Recording
  <2>4. kept' \subseteq ledger'
    BY <1>0, <1>10, <2>1 DEF WriteFile
  <2> QED  BY <2>2, <2>3, <2>4
<1>11. ASSUME NEW r \in Replicas, Fails(r) \/ Crash(r)
       PROVE  kept' \subseteq ledger' /\ \A q \in Replicas : Q(q)
  BY <1>3, <1>11 DEF Fails, Crash
<1>12. CASE UNCHANGED <<pc, known, at, buf>> /\ kept' \subseteq ledger' /\ kept' \subseteq kept
  BY <1>0, <1>12 DEF Q
<1>13. ASSUME NEW i \in Ids, ClientCreate(i) \/ ClientDelete(i) \/ \E f \in Fields : ClientUpdate(i, f)
       PROVE  UNCHANGED <<pc, known, at, buf>> /\ kept' \subseteq ledger' /\ kept' \subseteq kept
  BY <1>0, <1>13 DEF ClientCreate, ClientDelete, ClientUpdate
<1>14. ASSUME NEW t \in Tenants, Others(t)
       PROVE  UNCHANGED <<pc, known, at, buf>> /\ kept' \subseteq ledger' /\ kept' \subseteq kept
  BY <1>0, <1>14 DEF Others, OtherReads, OtherTruncates, OtherWrites, OtherDies
<1>15. UNCHANGED vars => UNCHANGED <<pc, known, at, buf, kept, ledger>>
  BY DEF vars
<1>16. \A r \in Replicas : ~RecordInStore(r)
  BY DEF RecordInStore, InStore
<1> QED  BY <1>0, <1>4, <1>5, <1>6, <1>7, <1>8, <1>9, <1>10, <1>11, <1>12, <1>13, <1>14, <1>15, <1>16
         DEF Next, Migrate, Others

(* ledger.rs: however often the process crashes, also inside a write of the *)
(* file, and whatever other tenants write to it, no startup applies again   *)
(* what the file recorded and they did not drop.                            *)
THEOREM SkipSafe == Spec => []SkipsRecorded
<1>1. Init => KeptInv
  BY DEF Init, KeptInv, Recording, Busy, Applying
<1>2. TypeOK /\ TypeOK' /\ RunInv /\ KeptInv /\ [Next]_vars => KeptInv'
  BY KeptStep
<1>3. TypeOK /\ KeptInv => SkipsRecorded
  BY DEF KeptInv, SkipsRecorded, Busy, Applying
<1> QED  BY <1>1, <1>2, <1>3, TypeCorrect, RunInvariant, PTL DEF Spec

-----------------------------------------------------------------------------
(* The backfills, in a store whose scan returns the collection.  A field of *)
(* migration n before the k-th is filled in all the records that were there *)
(* from the beginning; a replica that goes over the records it found has    *)
(* every one that is still without the field.                               *)
Filled(n, k) ==
    \A i \in legacy : \A j \in DOMAIN Plan[n].fields :
        j < k => val[i][Plan[n].fields[j]] # "absent"

Whole(n) == \A i \in legacy : \A j \in DOMAIN Plan[n].fields : val[i][Plan[n].fields[j]] # "absent"

FillInv ==
    /\ \A r \in Replicas : pc[r] \in {"query", "fill"} => Filled(at[r], fld[r])
    /\ \A r \in Replicas : pc[r] = "fill" =>
          \A i \in legacy : val[i][Field(r)] = "absent" => i \in todo[r]
    /\ \A n \in DOMAIN Plan : Plan[n].id \in done => Whole(n)

(* Two migrations of a pack do not share an id; the loader takes the pack's *)
(* word for it.                                                             *)
DistinctIds == \A m, n \in DOMAIN Plan : Plan[m].id = Plan[n].id => m = n

(* No step leaves a record of the beginning without a field it had: clients *)
(* only put new records, and fields into records there are.                 *)
LEMMA FieldsStay ==
    ASSUME TypeOK, [Next]_vars
    PROVE  /\ legacy' \subseteq legacy
           /\ \A i \in legacy', f \in Fields : val[i][f] # "absent" => val'[i][f] # "absent"
<1> DEFINE P == /\ legacy' \subseteq legacy
                /\ \A i \in legacy', f \in Fields : val[i][f] # "absent" => val'[i][f] # "absent"
<1> USE DEF store, ledgers, tenants, local
<1>1. ASSUME NEW r \in Replicas, Fill(r) PROVE P
  <2>1. /\ legacy' = legacy
        /\ \/ val' = val
           \/ \E i \in todo[r] : val' = [val EXCEPT ![i][Field(r)] = "default"]
    BY <1>1 DEF Fill, Ends
  <2>2. CASE val' = val
    BY <2>1, <2>2
  <2>3. ASSUME NEW x \in todo[r], val' = [val EXCEPT ![x][Field(r)] = "default"] PROVE P
    <3>1. val \in Vals /\ x \in Ids /\ legacy \subseteq Ids
      BY DEF TypeOK, Vals
    <3>2. ASSUME NEW i \in Ids, NEW f \in Fields
          PROVE  val'[i][f] = IF i = x /\ f = Field(r) THEN "default" ELSE val[i][f]
      <4>1. val \in Vals /\ x \in Ids /\ i \in Ids
        BY <3>1
      <4> QED  BY <2>3, <4>1, FieldWrite
    <3> QED  BY <2>1, <3>1, <3>2
  <2> QED  BY <2>1, <2>2, <2>3
<1>2. ASSUME NEW i \in Ids, ClientCreate(i) PROVE P
  <2>1. /\ legacy' = legacy /\ i \notin legacy
        /\ \E v \in [Fields -> {"absent", "user"}] : val' = [val EXCEPT ![i] = v]
    BY <1>2 DEF ClientCreate, TypeOK
  <2> QED  BY <2>1 DEF TypeOK
<1>3. ASSUME NEW i \in Ids, NEW g \in Fields, ClientUpdate(i, g) PROVE P
  BY <1>3 DEF ClientUpdate, TypeOK
<1>4. ASSUME NEW i \in Ids, ClientDelete(i) PROVE P
  BY <1>4 DEF ClientDelete
<1>5. CASE UNCHANGED <<legacy, val>>
  BY <1>5
<1>6. ASSUME NEW r \in Replicas,
             (\E conf \in BOOLEAN : Start(r, conf)) \/ (Migrate(r) /\ ~Fill(r)) \/ Fails(r) \/ Crash(r)
      PROVE  UNCHANGED <<legacy, val>>
  BY <1>6 DEF Migrate, Start, Begins, RunOne, RunsAt, Query, FillDone, Applied, RecordInStore,
     ReadFile, TruncateFile, WriteFile, Fails, Crash, Ends
<1>7. UNCHANGED vars => UNCHANGED <<legacy, val>>
  BY DEF vars
<1>8. ASSUME NEW t \in Tenants, Others(t) PROVE UNCHANGED <<legacy, val>>
  BY <1>8 DEF Others, OtherReads, OtherTruncates, OtherWrites, OtherDies
<1> QED  BY <1>1, <1>2, <1>3, <1>4, <1>5, <1>6, <1>7, <1>8 DEF Next, Migrate, Others

LEMMA FilledStays ==
    ASSUME TypeOK, [Next]_vars, NEW n \in DOMAIN Plan
    PROVE  /\ \A k : Filled(n, k) => Filled(n, k)'
           /\ Whole(n) => Whole(n)'
<1>1. \A j \in DOMAIN Plan[n].fields : Plan[n].fields[j] \in Fields
  BY PlanType
<1> QED  BY <1>1, FieldsStay DEF Filled, Whole

(* A step of one replica that completes no migration.                       *)
LEMMA FillMoves ==
    ASSUME TypeOK, TypeOK', FillInv, [Next]_vars, NEW r \in Replicas, done' = done,
           \A q \in Replicas \ {r} :
               pc'[q] = pc[q] /\ at'[q] = at[q] /\ fld'[q] = fld[q] /\ todo'[q] = todo[q],
           pc'[r] \in {"query", "fill"} => Filled(at[r], fld[r])',
           pc'[r] = "fill" => \A i \in legacy' : val'[i][Field(r)'] = "absent" => i \in todo'[r]
    PROVE  FillInv'
<1>1. ASSUME NEW q \in Replicas \ {r}, pc'[q] \in {"query", "fill"} PROVE Filled(at[q], fld[q])'
  <2>1. at[q] \in DOMAIN Plan /\ Filled(at[q], fld[q])
    BY <1>1, PlanType DEF FillInv, TypeOK, Applying
  <2>2. Filled(at[q], fld[q])'
    BY <2>1, FilledStays
  <2> QED  BY <2>2 DEF Filled
<1>2. ASSUME NEW q \in Replicas \ {r}, pc'[q] = "fill"
      PROVE  \A i \in legacy' : val'[i][Field(q)'] = "absent" => i \in todo'[q]
  <2>1. Field(q)' = Field(q) /\ Field(q) \in Fields
    BY <1>2, PlanType DEF Field, TypeOK, Applying
  <2> QED  BY <1>2, <2>1, FieldsStay DEF FillInv
<1>3. \A n \in DOMAIN Plan : Plan[n].id \in done' => Whole(n)'
  BY FilledStays DEF FillInv
<1> QED  BY <1>1, <1>2, <1>3 DEF FillInv

LEMMA FillStep ==
    ASSUME DistinctIds, kind # "fdb", TypeOK, TypeOK', RunInv, FillInv, [Next]_vars
    PROVE  FillInv'
<1> USE DEF store, ledgers, tenants, local, Goto
<1>0. ASSUME NEW r \in Replicas, NEW where \in {"down", "failed", "serving"}, Ends(r, where)
      PROVE  FillInv'
  <2>1. /\ pc'[r] = where /\ done' = done
        /\ \A q \in Replicas \ {r} :
              pc'[q] = pc[q] /\ at'[q] = at[q] /\ fld'[q] = fld[q] /\ todo'[q] = todo[q]
    BY <1>0 DEF Ends, TypeOK
  <2> QED  BY <2>1, FillMoves
<1>1. ASSUME NEW r \in Replicas, NEW conf \in BOOLEAN, Start(r, conf) PROVE FillInv'
  <2>1. CASE Begins(r, conf)
    <3>1. /\ done' = done /\ pc'[r] = "next"
          /\ \A q \in Replicas \ {r} :
                pc'[q] = pc[q] /\ at'[q] = at[q] /\ fld'[q] = fld[q] /\ todo'[q] = todo[q]
      BY <2>1 DEF Begins, TypeOK
    <3> QED  BY <3>1, FillMoves
  <2> QED  BY <1>0, <1>1, <2>1 DEF Start
<1>2. ASSUME NEW r \in Replicas, RunOne(r) PROVE FillInv'
  <2>1. CASE RunsAt(r)
    <3>1. /\ done' = done
          /\ \A q \in Replicas \ {r} :
                pc'[q] = pc[q] /\ at'[q] = at[q] /\ fld'[q] = fld[q] /\ todo'[q] = todo[q]
          /\ pc'[r] = "next" \/ (pc'[r] = "query" /\ fld'[r] = 1)
      BY <1>2, <2>1 DEF RunOne, RunsAt, TypeOK
    <3>2. pc'[r] = "query" => Filled(at[r], fld[r])'
      <4>1. SUFFICES ASSUME pc'[r] = "query" PROVE Filled(at[r], 1)'
        BY <3>1 DEF Filled
      <4>2. at'[r] \in DOMAIN Plan
        BY <4>1, PlanType DEF TypeOK, Applying
      <4> QED  BY <4>2, PlanType DEF Filled
    <3> QED  BY <3>1, <3>2, FillMoves
  <2> QED  BY <1>0, <1>2, <2>1 DEF RunOne
<1>3. ASSUME NEW r \in Replicas, Query(r) PROVE FillInv'
  <2>1. /\ pc[r] = "query" /\ pc'[r] = "fill" /\ UNCHANGED <<done, at, fld, val, live, legacy>>
        /\ todo'[r] = {i \in live : val[i][Field(r)] = "absent"}
        /\ \A q \in Replicas \ {r} : pc'[q] = pc[q] /\ todo'[q] = todo[q]
    BY <1>3 DEF Query, Scanned, TypeOK
  <2>2. Filled(at[r], fld[r])' /\ Field(r)' = Field(r)
    BY <2>1 DEF FillInv, Filled, Field
  <2> QED  BY <2>1, <2>2, FillMoves DEF TypeOK
<1>4. ASSUME NEW r \in Replicas, Fill(r) PROVE FillInv'
  <2>0. /\ pc[r] = "fill"
        /\ at[r] \in DOMAIN Plan /\ Field(r) \in Fields
    BY <1>4, PlanType DEF Fill, TypeOK, Applying, Field
  <2>1. PICK i \in todo[r] :
           \/ /\ val' = [val EXCEPT ![i][Field(r)] = "default"]
              /\ todo' = [todo EXCEPT ![r] = @ \ {i}]
              /\ UNCHANGED <<live, legacy, ledgers, tenants, done, pc, confirm, known, at, fld, buf>>
           \/ Ends(r, "failed")
    BY <1>4 DEF Fill
  <2>3. CASE /\ val' = [val EXCEPT ![i][Field(r)] = "default"]
             /\ todo' = [todo EXCEPT ![r] = @ \ {i}]
             /\ UNCHANGED <<live, legacy, ledgers, tenants, done, pc, confirm, known, at, fld, buf>>
    <3>0. /\ UNCHANGED <<done, pc, at, fld, live, legacy>> /\ Field(r)' = Field(r)
          /\ \A q \in Replicas \ {r} : todo'[q] = todo[q]
      BY <2>3 DEF TypeOK, Field
    <3>1. Filled(at[r], fld[r])'
      BY <2>0, <3>0, FilledStays DEF FillInv, Filled
    <3>2. \A x \in legacy' : val'[x][Field(r)'] = "absent" => x \in todo'[r]
      <4> SUFFICES ASSUME NEW x \in legacy, val'[x][Field(r)] = "absent" PROVE x \in todo[r] \ {i}
        BY <2>3, <3>0 DEF TypeOK
      <4>1. x \in Ids /\ i \in Ids
        BY DEF TypeOK
      <4>2. x # i /\ val[x] = val'[x]
        BY <2>0, <2>3, <4>1 DEF TypeOK
      <4> QED  BY <2>0, <4>2 DEF FillInv
    <3> QED  BY <2>0, <3>0, <3>1, <3>2, FillMoves
  <2> QED  BY <1>0, <2>1, <2>3
<1>5. ASSUME NEW r \in Replicas, FillDone(r) PROVE FillInv'
  <2>1. /\ pc[r] = "fill" /\ todo[r] = {} /\ pc'[r] = "query" /\ fld'[r] = fld[r] + 1
        /\ UNCHANGED <<done, at, val, live, legacy, todo>>
        /\ \A q \in Replicas \ {r} : pc'[q] = pc[q] /\ fld'[q] = fld[q]
    BY <1>5 DEF FillDone, TypeOK
  <2>2. /\ at[r] \in DOMAIN Plan /\ fld[r] \in Nat
        /\ DOMAIN Plan[at[r]].fields = 1 .. Len(Plan[at[r]].fields)
    BY <2>1, PlanType DEF TypeOK, Applying
  <2>3. \A i \in legacy : val[i][Plan[at[r]].fields[fld[r]]] # "absent"
    BY <2>1 DEF FillInv, Field
  <2>4. Filled(at[r], fld[r])
    BY <2>1 DEF FillInv
  <2>5. Filled(at[r], fld[r])'
    <3> SUFFICES ASSUME NEW i \in legacy, NEW j \in DOMAIN Plan[at[r]].fields, j < fld[r] + 1
                 PROVE  val[i][Plan[at[r]].fields[j]] # "absent"
      BY <2>1 DEF Filled
    <3>1. j < fld[r] \/ j = fld[r]
      BY <2>2
    <3> QED  BY <2>3, <2>4, <3>1 DEF Filled
  <2> QED  BY <2>1, <2>5, FillMoves
<1>6. ASSUME NEW r \in Replicas, Applied(r) PROVE FillInv'
  <2>1. /\ pc[r] = "query" /\ pc'[r] = "record" /\ fld[r] > Len(Plan[at[r]].fields)
        /\ done' = done \cup {Plan[at[r]].id}
        /\ UNCHANGED <<at, fld, val, live, legacy, todo>>
        /\ \A q \in Replicas \ {r} : pc'[q] = pc[q]
    BY <1>6 DEF Applied, TypeOK
  <2>2. /\ at[r] \in DOMAIN Plan /\ fld[r] \in Nat
        /\ DOMAIN Plan[at[r]].fields = 1 .. Len(Plan[at[r]].fields)
        /\ Len(Plan[at[r]].fields) \in Nat
    BY <2>1, PlanType DEF TypeOK, Applying
  <2>3. \A j \in DOMAIN Plan[at[r]].fields : j < fld[r]
    BY <2>1, <2>2
  <2>4. Whole(at[r])
    BY <2>1, <2>3 DEF FillInv, Filled, Whole
  <2>5. \A n \in DOMAIN Plan : Plan[n].id \in done' => Whole(n)'
    BY <2>1, <2>2, <2>4 DEF FillInv, DistinctIds, Whole
  <2>6. ASSUME NEW q \in Replicas
        PROVE  /\ pc'[q] \in {"query", "fill"} => Filled(at[q], fld[q])'
               /\ pc'[q] = "fill" =>
                     \A i \in legacy' : val'[i][Field(q)'] = "absent" => i \in todo'[q]
    BY <2>1 DEF FillInv, Filled, Field
  <2> QED  BY <2>5, <2>6 DEF FillInv
<1>7. ASSUME NEW r \in Replicas, ReadFile(r) \/ TruncateFile(r) PROVE FillInv'
  <2>1. CASE (ReadFile(r) /\ ~torn) \/ TruncateFile(r)
    <3>1. /\ pc'[r] \in {"truncate", "write"}
          /\ UNCHANGED <<done, at, fld, todo>>
          /\ \A q \in Replicas \ {r} : pc'[q] = pc[q]
      BY <2>1 DEF ReadFile, TruncateFile, TypeOK
    <3> QED  BY <3>1, FillMoves
  <2> QED  BY <1>0, <1>7, <2>1 DEF ReadFile
<1>8. ASSUME NEW r \in Replicas, RecordInStore(r) \/ WriteFile(r) PROVE FillInv'
  <2>1. /\ pc'[r] = "next"
        /\ UNCHANGED <<done, fld, todo>>
        /\ \A q \in Replicas \ {r} : pc'[q] = pc[q] /\ at'[q] = at[q]
    BY <1>8 DEF RecordInStore, WriteFile, TypeOK
  <2> QED  BY <2>1, FillMoves
<1>9. ASSUME NEW r \in Replicas, Fails(r) \/ Crash(r) PROVE FillInv'
  BY <1>0, <1>9 DEF Fails, Crash
<1>10. CASE UNCHANGED <<done, pc, at, fld, todo>>
  <2>1. ASSUME NEW q \in Replicas
        PROVE  /\ pc'[q] \in {"query", "fill"} => Filled(at[q], fld[q])'
               /\ pc'[q] = "fill" =>
                     \A i \in legacy' : val'[i][Field(q)'] = "absent" => i \in todo'[q]
    <3>1. pc[q] \in Applying => at[q] \in DOMAIN Plan
      BY PlanType DEF TypeOK
    <3>2. pc[q] \in {"query", "fill"} => Filled(at[q], fld[q])'
      BY <1>10, <3>1, FilledStays DEF FillInv, Applying, Filled
    <3>3. pc[q] = "fill" => Field(q)' = Field(q) /\ Field(q) \in Fields
      BY <1>10, <3>1, PlanType DEF Field, TypeOK, Applying
    <3> QED  BY <1>10, <3>2, <3>3, FieldsStay DEF FillInv
  <2>2. \A n \in DOMAIN Plan : Plan[n].id \in done' => Whole(n)'
    BY <1>10, FilledStays DEF FillInv
  <2> QED  BY <2>1, <2>2 DEF FillInv
<1>11. ASSUME NEW i \in Ids, ClientCreate(i) \/ ClientDelete(i) \/ \E f \in Fields : ClientUpdate(i, f)
       PROVE  UNCHANGED <<done, pc, at, fld, todo>>
  BY <1>11 DEF ClientCreate, ClientDelete, ClientUpdate
<1>12. ASSUME NEW t \in Tenants, Others(t) PROVE UNCHANGED <<done, pc, at, fld, todo>>
  BY <1>12 DEF Others, OtherReads, OtherTruncates, OtherWrites, OtherDies
<1>13. UNCHANGED vars => UNCHANGED <<done, pc, at, fld, todo>>
  BY DEF vars
<1> QED  BY <1>1, <1>2, <1>3, <1>4, <1>5, <1>6, <1>7, <1>8, <1>9, <1>10, <1>11, <1>12, <1>13
         DEF Next, Migrate, Others

(* runner.rs: with ids that differ, a migration that is recorded, and so    *)
(* never run again, has left no record of the beginning without its fields, *)
(* whichever replicas ran it, crashed in it or raced for it; outside        *)
(* FoundationDB, whose scan stops after a batch.                            *)
THEOREM FilledSafe ==
    ASSUME DistinctIds
    PROVE  Spec => []RecordedMeansFilled
<1> DEFINE I == kind # "fdb" => FillInv
<1>1. Init => I
  BY DEF Init, FillInv
<1>2. TypeOK /\ TypeOK' /\ RunInv /\ I /\ [Next]_vars => I'
  BY FillStep, SettledStep DEF RunInv
<1>3. RunInv /\ I => RecordedMeansFilled
  BY DEF FillInv, RunInv, DoneKeeps, RecordedMeansFilled, EveryRecordFilled, Whole
<1> QED  BY <1>1, <1>2, <1>3, TypeCorrect, RunInvariant, PTL DEF Spec

-----------------------------------------------------------------------------
(* In a store of one process nobody writes to a record between the query    *)
(* that found it and its backfill.                                          *)
Untouched ==
    ~InStore =>
        \A r \in Replicas : pc[r] = "fill" => \A i \in todo[r] : val[i][Field(r)] = "absent"

(* While such a process fills, no client is served.                         *)
LEMMA NobodyServed ==
    ASSUME RunInv, ~InStore, NEW r \in Replicas, pc[r] = "fill"
    PROVE  ~Served /\ \A q \in Replicas : pc[q] = "fill" => q = r
BY DEF RunInv, Alone, Served, Away

LEMMA UntouchedStep ==
    ASSUME TypeOK, TypeOK', RunInv, Untouched, [Next]_vars
    PROVE  Untouched'
<1> USE DEF store, ledgers, tenants, local, Goto
<1>0. kind' = kind
  BY SettledStep DEF RunInv
<1> SUFFICES ASSUME ~InStore, NEW r \in Replicas, pc'[r] = "fill", NEW i \in todo'[r]
             PROVE  val'[i][Field(r)'] = "absent"
  BY <1>0 DEF Untouched, InStore
<1>1. CASE pc[r] = "fill" /\ UNCHANGED <<val, at, fld>> /\ todo'[r] = todo[r]
  BY <1>1 DEF Untouched, Field
<1>2. CASE \E q \in Replicas : Query(q)
  <2>1. PICK q \in Replicas : Query(q)
    BY <1>2
  <2>2. CASE q = r
    BY <2>1, <2>2 DEF Query, Scanned, TypeOK, Field
  <2>3. CASE q # r
    BY <1>1, <2>1, <2>3 DEF Query, TypeOK
  <2> QED  BY <2>2, <2>3
<1>3. CASE \E q \in Replicas : Fill(q)
  <2>1. PICK q \in Replicas : Fill(q)
    BY <1>3
  <2>2. pc[q] = "fill" /\ pc[r] = "fill" /\ q = r /\ Field(r)' = Field(r)
    <3>1. pc[q] = "fill" /\ pc[r] = "fill"
      BY <2>1 DEF Fill, Ends, TypeOK
    <3>2. q = r
      BY <3>1, NobodyServed
    <3> QED  BY <2>1, <3>1, <3>2 DEF Fill, Ends, TypeOK, Field
  <2>3. PICK x \in todo[r] : /\ val' = [val EXCEPT ![x][Field(r)] = "default"]
                             /\ todo' = [todo EXCEPT ![r] = @ \ {x}]
    BY <2>1, <2>2 DEF Fill, Ends, TypeOK
  <2>4. i \in todo[r] /\ i # x /\ val'[i] = val[i]
    BY <2>3 DEF TypeOK
  <2> QED  BY <2>2, <2>4 DEF Untouched
<1>4. CASE \E q \in Replicas :
             \/ (\E conf \in BOOLEAN : Start(q, conf)) \/ RunOne(q) \/ FillDone(q) \/ Applied(q)
             \/ RecordInStore(q) \/ ReadFile(q) \/ TruncateFile(q) \/ WriteFile(q)
             \/ Fails(q) \/ Crash(q)
  <2>1. PICK q \in Replicas :
             \/ (\E conf \in BOOLEAN : Start(q, conf)) \/ RunOne(q) \/ FillDone(q) \/ Applied(q)
             \/ RecordInStore(q) \/ ReadFile(q) \/ TruncateFile(q) \/ WriteFile(q)
             \/ Fails(q) \/ Crash(q)
    BY <1>4
  <2>2. val' = val /\ pc'[q] # "fill" /\ pc'[r] = pc[r] /\ todo'[r] = todo[r]
        /\ at'[r] = at[r] /\ fld'[r] = fld[r]
    <3>1. CASE (\E conf \in BOOLEAN : Start(q, conf)) \/ RunOne(q) \/ FillDone(q) \/ Applied(q)
      <4>1. CASE \E where \in {"failed", "serving"} : Ends(q, where)
        BY <4>1 DEF Ends, TypeOK
      <4>2. CASE \E conf \in BOOLEAN : Begins(q, conf)
        BY <4>2 DEF Begins, TypeOK
      <4>3. CASE RunsAt(q) /\ pc[q] = "next"
        BY <4>3 DEF RunsAt, TypeOK
      <4>4. CASE FillDone(q) \/ Applied(q)
        BY <4>4 DEF FillDone, Applied, TypeOK
      <4> QED  BY <3>1, <4>1, <4>2, <4>3, <4>4 DEF Start, RunOne
    <3>2. CASE RecordInStore(q) \/ ReadFile(q) \/ TruncateFile(q) \/ WriteFile(q)
      BY <3>2 DEF RecordInStore, ReadFile, TruncateFile, WriteFile, Ends, TypeOK
    <3>3. CASE Fails(q) \/ Crash(q)
      BY <3>3 DEF Fails, Crash, Ends, TypeOK
    <3> QED  BY <2>1, <3>1, <3>2, <3>3
  <2> QED  BY <2>2 DEF Untouched, Field
<1>5. CASE \/ \E x \in Ids : ClientCreate(x) \/ ClientDelete(x)
           \/ \E x \in Ids, f \in Fields : ClientUpdate(x, f)
  BY <1>5, NobodyServed DEF ClientCreate, ClientDelete, ClientUpdate
<1>6. CASE UNCHANGED vars
  BY <1>1, <1>6 DEF vars
<1>7. CASE \E t \in Tenants : Others(t)
  BY <1>1, <1>7 DEF Others, OtherReads, OtherTruncates, OtherWrites, OtherDies
<1> QED  BY <1>2, <1>3, <1>4, <1>5, <1>6, <1>7 DEF Next, Migrate, Others

(* docs/migrations.md: in a store that belongs to one process no backfill,  *)
(* and nothing else but the client itself, takes away what a client wrote.  *)
THEOREM UserValueSafe == Spec => UserValueKept
<1>1. Init => Untouched
  BY DEF Init, Untouched
<1>2. TypeOK /\ TypeOK' /\ RunInv /\ Untouched /\ [Next]_vars => Untouched'
  BY UntouchedStep
<1>3. ASSUME TypeOK, Untouched, [Next]_vars, ~InStore,
             NEW i \in live \cap live', NEW f \in Fields, val[i][f] = "user"
      PROVE  val'[i][f] = "user"
  <2> USE DEF store, ledgers, tenants, local
  <2>1. CASE val' = val
    BY <1>3, <2>1
  <2>2. ASSUME NEW r \in Replicas, Fill(r) PROVE val'[i][f] = "user"
    <3>1. pc[r] = "fill" /\ (val' = val \/ \E x \in todo[r] : val' = [val EXCEPT ![x][Field(r)] = "default"])
      BY <2>2 DEF Fill, Ends
    <3>2. \A x \in todo[r] : val[x][Field(r)] = "absent"
      BY <1>3, <3>1 DEF Untouched
    <3>3. ASSUME NEW x \in todo[r], val' = [val EXCEPT ![x][Field(r)] = "default"]
          PROVE  val'[i][f] = "user"
      <4>1. val \in Vals /\ x \in Ids /\ i \in Ids
        BY <1>3 DEF TypeOK, Vals
      <4>2. val'[i][f] = IF i = x /\ f = Field(r) THEN "default" ELSE val[i][f]
        BY <3>3, <4>1, FieldWrite
      <4> QED  BY <1>3, <3>2, <4>2
    <3> QED  BY <1>3, <3>1, <3>3
  <2>3. ASSUME NEW x \in Ids, ClientCreate(x) PROVE val'[i][f] = "user"
    <3>1. x # i /\ \E v \in [Fields -> {"absent", "user"}] : val' = [val EXCEPT ![x] = v]
      BY <2>3 DEF ClientCreate
    <3> QED  BY <1>3, <3>1 DEF TypeOK
  <2>4. ASSUME NEW x \in Ids, NEW g \in Fields, ClientUpdate(x, g) PROVE val'[i][f] = "user"
    BY <1>3, <2>4 DEF ClientUpdate, TypeOK
  <2>5. ASSUME NEW x \in Ids, ClientDelete(x) PROVE val' = val
    BY <2>5 DEF ClientDelete
  <2>6. ASSUME NEW r \in Replicas,
               (\E conf \in BOOLEAN : Start(r, conf)) \/ (Migrate(r) /\ ~Fill(r)) \/ Fails(r) \/ Crash(r)
        PROVE  val' = val
    BY <2>6 DEF Migrate, Start, Begins, RunOne, RunsAt, Query, FillDone, Applied, RecordInStore,
       ReadFile, TruncateFile, WriteFile, Fails, Crash, Ends
  <2>7. UNCHANGED vars => val' = val
    BY DEF vars
  <2>8. ASSUME NEW t \in Tenants, Others(t) PROVE val' = val
    BY <2>8 DEF Others, OtherReads, OtherTruncates, OtherWrites, OtherDies
  <2> QED  BY <1>3, <2>1, <2>2, <2>3, <2>4, <2>5, <2>6, <2>7, <2>8 DEF Next, Migrate, Others
<1>4. TypeOK /\ Untouched /\ [Next]_vars =>
        [~InStore =>
          \A i \in live \cap live', f \in Fields :
              val[i][f] = "user" => val'[i][f] = "user"]_vars
  BY <1>3
<1> QED  BY <1>1, <1>2, <1>4, TypeCorrect, RunInvariant, PTL DEF Spec, UserValueKept

=============================================================================
