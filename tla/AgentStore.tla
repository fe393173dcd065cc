----------------------------- MODULE AgentStore -----------------------------
(***************************************************************************)
(* Agent payloads in the engine (agent_store.rs): a payload under the key  *)
(* "agent:{session}", and each of its records again under the key          *)
(* "arec:{session}:{step}:{type}:{id}".  Strings are sequences of letters, *)
(* with a step, a type or an id as one letter.  A call makes several writes*)
(* of the engine, any of which can fail and ends it.  Validation, encoding *)
(* and decoding of payloads are ulmen_core's: a payload is accepted or not,*)
(* and is read back as it was.                                             *)
(***************************************************************************)
EXTENDS Integers, Sequences

CONSTANTS
    Session,     \* session keys
    Record,      \* [step, type, id]
    Payload,     \* the payloads, sequences of records, that are stored at once
    MaxRecords   \* bound: records of a payload that is appended to

VARIABLES
    payloads,    \* stored session -> sequence of records
    arecs,       \* the record keys in the engine, without "arec:"
    damaged      \* sessions whose record keys another call or a failure changed

storeVars == << payloads, arecs, damaged >>

-----------------------------------------------------------------------------
Separator == ":"

rec_key(s, r) == s \o << Separator, r.step, Separator, r.type, Separator, r.id >>

RecKeys(s, records) == {rec_key(s, records[i]) : i \in DOMAIN records}

(***************************************************************************)
(* Engine::scan from a prefix to the prefix and 0xFF, which no string has. *)
(***************************************************************************)
StartsWith(prefix, k) == Len(prefix) <= Len(k) /\ SubSeq(k, 1, Len(prefix)) = prefix

scan(prefix) == {k \in arecs : StartsWith(prefix, k)}

(***************************************************************************)
(* get_records_by_type splits a key at the separators, and takes for the   *)
(* type what is between the second one after "arec:" and the next, or the  *)
(* end.                                                                    *)
(***************************************************************************)
SecondSeparator(k, i) ==
    k[i] = Separator /\ \E j \in 1 .. i - 1 : {l \in 1 .. i - 1 : k[l] = Separator} = {j}

TypeSegment(k, segment) ==
    \E i \in 1 .. Len(k), end \in 1 .. Len(k) + 1 :
        /\ SecondSeparator(k, i) /\ i < end
        /\ end <= Len(k) => k[end] = Separator
        /\ \A l \in i + 1 .. end - 1 : k[l] # Separator
        /\ segment = SubSeq(k, i + 1, end - 1)

-----------------------------------------------------------------------------
load_payload(s) == payloads[s]

Stored(s) == s \in DOMAIN payloads

With(s, records) == [t \in DOMAIN payloads \cup {s} |-> IF t = s THEN records ELSE payloads[t]]

Without(s) == [t \in DOMAIN payloads \ {s} |-> payloads[t]]

(***************************************************************************)
(* The records of a payload that is replaced keep their keys.              *)
(***************************************************************************)
store_payload(s, records) ==
    /\ payloads' = With(s, records)
    /\ arecs' = arecs \cup RecKeys(s, records)
    /\ damaged' = IF Stored(s) /\ ~(RecKeys(s, payloads[s]) \subseteq RecKeys(s, records))
                  THEN damaged \cup {s} ELSE damaged

\* The write of record n + 1 fails.  (A failure of the first write, that of the
\* payload, changes nothing, as a payload that is not valid.)
store_payload_fails(s, records, n) ==
    /\ n < Len(records)
    /\ payloads' = With(s, records)
    /\ arecs' = arecs \cup RecKeys(s, SubSeq(records, 1, n))
    /\ damaged' = damaged \cup {s}

append_records(s, record) ==
    LET records == Append(IF Stored(s) THEN load_payload(s) ELSE << >>, record)
    IN  /\ Len(records) <= MaxRecords
        /\ \/ store_payload(s, records)
           \/ \E n \in 0 .. MaxRecords : store_payload_fails(s, records, n)

(***************************************************************************)
(* The records are found by the prefix "arec:{session}".  A record key of  *)
(* another session has it too if that session's key is longer, or if s is  *)
(* that session's key continued with a separator.                          *)
(***************************************************************************)
Continues(t, s) == t # s /\ StartsWith(Append(s, Separator), t)

Sharing(s) == {t \in DOMAIN payloads \ {s} : StartsWith(s, t) \/ Continues(s, t)}

delete_payload(s) ==
    /\ payloads' = Without(s)
    /\ arecs' = arecs \ scan(s)
    /\ damaged' = (damaged \ {s}) \cup Sharing(s)

delete_payload_fails(s) ==
    \E gone \in SUBSET scan(s) :
        /\ gone # scan(s)
        /\ payloads' = Without(s)
        /\ arecs' = arecs \ gone
        /\ damaged' = damaged \cup {s} \cup Sharing(s)

(***************************************************************************)
(* Queries.                                                                *)
(***************************************************************************)
list_sessions == DOMAIN payloads

\* Faulty: takes every session with the prefix.
get_records_by_typeNear(s, type) == {k \in scan(s) : TypeSegment(k, << type >>)}

get_records_by_type(s, type) == {k \in scan(Append(s, Separator)) : TypeSegment(k, << type >>)}

get_recent_records(s, limit) ==
    IF ~Stored(s) THEN << >>
    ELSE LET n == Len(payloads[s])
         IN  IF n <= limit THEN payloads[s] ELSE SubSeq(payloads[s], n - limit + 1, n)

-----------------------------------------------------------------------------
Init == payloads = << >> /\ arecs = {} /\ damaged = {}

Next ==
    \E s \in Session :
        \/ \E r \in Record : append_records(s, r)
        \/ \E records \in Payload :
            store_payload(s, records) \/ \E n \in 0 .. MaxRecords : store_payload_fails(s, records, n)
        \/ delete_payload(s) \/ delete_payload_fails(s)

Spec == Init /\ [][Next]_storeVars

-----------------------------------------------------------------------------
TypeKeys(s, type) ==
    IF ~Stored(s) THEN {}
    ELSE {rec_key(s, payloads[s][i]) : i \in {j \in DOMAIN payloads[s] : payloads[s][j].type = type}}

OwnKeys(s) == {k \in arecs : \E r \in Record : k = rec_key(s, r)}

(***************************************************************************)
(* RecordsAgree: unless a call for it failed, its payload was replaced by  *)
(* one without some of its records, or a session was deleted whose key is a*)
(* prefix of its key or continues its key with a separator, a session's    *)
(* record keys are those of its payload.  For a session key without a      *)
(* separator, a query by type then finds all records of that type, and what*)
(* else it finds are records of sessions that continue its key with a      *)
(* separator.  The recent records are the last ones of the payload, all of *)
(* them if there are not more than the limit.                              *)
(***************************************************************************)
QueryFinds(s, type) ==
    /\ TypeKeys(s, type) \subseteq get_records_by_type(s, type)
    /\ \A k \in get_records_by_type(s, type) \ TypeKeys(s, type) :
        \E t \in Session, r \in Record : Continues(t, s) /\ k = rec_key(t, r)

RecentFinds(s, limit) ==
    LET recent == get_recent_records(s, limit)
        older  == Len(payloads[s]) - Len(recent)
    IN  /\ older >= 0 /\ (older > 0 => Len(recent) = limit)
        /\ \A i \in 1 .. Len(recent) : recent[i] = payloads[s][older + i]

RecordsAgree ==
    \A s \in Session \ damaged :
        /\ OwnKeys(s) = IF Stored(s) THEN RecKeys(s, payloads[s]) ELSE {}
        /\ (\A i \in 1 .. Len(s) : s[i] # Separator) => \A type \in {r.type : r \in Record} : QueryFinds(s, type)
        /\ Stored(s) => \A limit \in 1 .. MaxRecords : RecentFinds(s, limit)

(***************************************************************************)
(* TypeQueryComplete: get_records_by_type finds all records of the type    *)
(* that the session's payload has ("Get all records for a session,         *)
(* filtered by type").                                                     *)
(***************************************************************************)
TypeQueryComplete ==
    \A s \in Session \ damaged, type \in {r.type : r \in Record} :
        TypeKeys(s, type) \subseteq get_records_by_type(s, type)
=============================================================================
