---------------------------- MODULE RecordStore ----------------------------
(***************************************************************************)
(* What provider.rs asks of a store for one collection, without saying     *)
(* how: records, stored idempotent answers, an event stream, the evidence  *)
(* of a subject and the migration ledger.  There are no index              *)
(* entries and no counters here; uniqueness is a statement about the       *)
(* records themselves, and an id is any free one.  KvStore and PgStore     *)
(* implement it.                                                           *)
(***************************************************************************)
EXTENDS Naturals, Sequences

CONSTANTS
    Ids, Indexes, Absent, Data, Keys, Payloads, Migrations,
    NoRow,        \* no record under an id
    NoRecord,     \* no stored answer under a key
    AllowReplace  \* may a create replace a live record?

VARIABLES ents, idem, events, evid, ledger

vars == <<ents, idem, events, evid, ledger>>

Init ==
    /\ ents = [i \in Ids |-> NoRow]
    /\ idem = [k \in Keys |-> NoRecord]
    /\ events = << >>
    /\ evid = << >>
    /\ ledger = {}

Stored(i) == ents[i].ver > 0

(* No other record holds a value of this data.                              *)
Free(data, id) ==
    \A x \in Indexes : \A j \in Ids :
        j # id /\ Stored(j) /\ data[x] # Absent => ents[j].data[x] # data[x]

(* A new record; under an idempotency key it is also the key's answer, and  *)
(* the key had none.                                                        *)
Insert ==
    \E i \in Ids, data \in Data :
        /\ Stored(i) => AllowReplace
        /\ Free(data, i)
        /\ ents' = [ents EXCEPT ![i] = [ver |-> 1, data |-> data]]
        /\ \/ idem' = idem
           \/ \E k \in Keys :
                /\ idem[k] = NoRecord
                /\ idem' = [idem EXCEPT ![k] = [id |-> i, ver |-> 1, data |-> data]]
        /\ UNCHANGED <<events, evid, ledger>>

Modify ==
    \E i \in Ids, data \in Data :
        /\ Stored(i)
        /\ Free(data, i)
        /\ ents' = [ents EXCEPT ![i] = [ver |-> ents[i].ver + 1, data |-> data]]
        /\ UNCHANGED <<idem, events, evid, ledger>>

Remove ==
    \E i \in Ids :
        /\ Stored(i)
        /\ ents' = [ents EXCEPT ![i] = NoRow]
        /\ UNCHANGED <<idem, events, evid, ledger>>

LogEvent ==
    \E p \in Payloads :
        /\ events' = Append(events, p)
        /\ UNCHANGED <<ents, idem, evid, ledger>>

LogEvidence ==
    \E p \in Payloads :
        /\ evid' = Append(evid, p)
        /\ UNCHANGED <<ents, idem, events, ledger>>

LogMigration ==
    \E m \in Migrations :
        /\ ledger' = ledger \cup {m}
        /\ UNCHANGED <<ents, idem, events, evid>>

Next == Insert \/ Modify \/ Remove \/ LogEvent \/ LogEvidence \/ LogMigration

Spec == Init /\ [][Next]_vars

=============================================================================
