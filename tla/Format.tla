------------------------------- MODULE Format -------------------------------
(***************************************************************************)
(* The record formats of the log (storage/wal.rs) and of a page            *)
(* (storage/page.rs), as operators on sequences of words: a length, a      *)
(* checksum and a marker are one word, a key or value one word per byte.   *)
(* A key's length is stored modulo KEY_LEN, 2^16 in the code.  The CRC and *)
(* deflate are external: a checksum tells any two contents apart, and a    *)
(* compressed body can be restored.                                        *)
(***************************************************************************)
EXTENDS Integers, SequencesExt

CONSTANT KEY_LEN

-----------------------------------------------------------------------------
Crc(content) == << "crc", content >>

wal_serialize(rec) ==
    LET header == << Len(rec.key) % KEY_LEN, Len(rec.value) >>
    IN  << Crc(header \o rec.key \o rec.value) >> \o header \o rec.key \o rec.value

(***************************************************************************)
(* WalReader::replay: from the word at, the records up to the first that   *)
(* is incomplete or does not match its checksum.                           *)
(***************************************************************************)
RECURSIVE Replay(_, _, _)
Replay(words, at, records) ==
    IF at > Len(words) THEN [records |-> records, corrupted |-> 0]
    ELSE IF at + 2 > Len(words) THEN [records |-> records, corrupted |-> 1]
    ELSE LET key_len == words[at + 1]
             val_len == words[at + 2]
             payload == SubSeq(words, at + 3, at + 2 + key_len + val_len)
         IN  IF \/ at + 2 + key_len + val_len > Len(words)
                \/ Crc(<< key_len, val_len >> \o payload) # words[at]
             THEN [records |-> records, corrupted |-> 1]
             ELSE Replay(words, at + 3 + key_len + val_len,
                         Append(records, [key   |-> SubSeq(payload, 1, key_len),
                                          value |-> SubSeq(payload, key_len + 1, key_len + val_len)]))

replay(words) == Replay(words, 1, << >>)

\* deserialize of a single record: << >> if the words are not one.
wal_deserialize(words) ==
    IF Len(words) < 3 THEN << >>
    ELSE IF Crc(Tail(words)) # words[1] \/ Len(words) < 3 + words[2] + words[3] THEN << >>
    ELSE << [key   |-> SubSeq(words, 4, 3 + words[2]),
             value |-> SubSeq(words, 4 + words[2], 3 + words[2] + words[3])] >>

-----------------------------------------------------------------------------
RECORD_MAGIC == 7

PAGE_MAGIC == 8

PageBody(records) ==
    FlattenSeq([i \in DOMAIN records |->
        << RECORD_MAGIC, Len(records[i].key) % KEY_LEN, Len(records[i].value) >>
        \o records[i].key \o records[i].value \o << IF records[i].tombstone THEN 1 ELSE 0 >>])

(***************************************************************************)
(* The body is stored compressed, here as a single word, if that is        *)
(* shorter; whether it is depends on the bytes.                            *)
(***************************************************************************)
page_serialize(records, compressible) ==
    LET body   == PageBody(records)
        stored == IF compressible /\ Len(body) > 1 THEN << body >> ELSE body
    IN  << PAGE_MAGIC, Len(records), Len(body), Len(stored) >> \o stored

Read(status, records) == [status |-> status, records |-> records]

RECURSIVE ReadBody(_, _, _)
ReadBody(body, at, records) ==
    IF at > Len(body) THEN Read("ok", records)
    ELSE IF body[at] # RECORD_MAGIC THEN Read("bad magic", << >>)
    ELSE IF at + 2 > Len(body) THEN Read("ok", records)
    ELSE LET k == at + 2 + body[at + 1]
             v == k + body[at + 2]
         IN  IF v + 1 > Len(body) THEN Read("ok", records)
             ELSE ReadBody(body, v + 2,
                           Append(records, [key       |-> SubSeq(body, at + 3, k),
                                            value     |-> SubSeq(body, k + 1, v),
                                            tombstone |-> body[v + 1] # 0]))

\* Faulty: compares neither the size nor the number of records with the header.
page_deserializeShort(words) ==
    IF Len(words) < 5 THEN Read("too short", << >>)
    ELSE ReadBody(IF words[4] < words[3] THEN words[5] ELSE SubSeq(words, 5, Len(words)), 1, << >>)

(***************************************************************************)
(* Page::deserialize: the records, an error, or a panic when there are not *)
(* as many as the header says.                                             *)
(***************************************************************************)
page_deserialize(words) ==
    IF Len(words) < 4 THEN Read("too short", << >>)
    ELSE IF Len(words) < 4 + words[4] THEN Read("truncated", << >>)
    ELSE LET body == IF words[4] < words[3] THEN words[5] ELSE SubSeq(words, 5, 4 + words[4])
             read == ReadBody(body, 1, << >>)
         IN  IF read.status = "ok" /\ Len(read.records) # words[2] THEN Read("panic", << >>) ELSE read

-----------------------------------------------------------------------------
Long(records) == {i \in DOMAIN records : Len(records[i].key) >= KEY_LEN}

Log(records) == FlattenSeq([i \in DOMAIN records |-> wal_serialize(records[i])])

(***************************************************************************)
(* LogExact: replay gives back the records of the log in their order, up   *)
(* to the first whose key is too long for its length field: that one and   *)
(* all after it are lost.  A log that was cut anywhere gives a prefix.     *)
(***************************************************************************)
LogExact(records) ==
    LET plain == [i \in DOMAIN records |-> [key |-> records[i].key, value |-> records[i].value]]
        whole == IF Long(records) = {} THEN Len(records) ELSE Min(Long(records)) - 1
        back  == replay(Log(records))
    IN  /\ back.records = SubSeq(plain, 1, whole)
        /\ back.corrupted = IF Long(records) = {} THEN 0 ELSE 1
        /\ \A n \in 0 .. Len(Log(records)) :
            IsPrefix(replay(SubSeq(Log(records), 1, n)).records, back.records)
        /\ \A i \in DOMAIN records \ Long(records) :
            wal_deserialize(wal_serialize(records[i])) = << plain[i] >>

(***************************************************************************)
(* PageExact: a page is read back as it was, compressed or not; a page that*)
(* was cut anywhere, or that holds a key too long for its length field, is *)
(* never taken for a page with other records.                              *)
(***************************************************************************)
PageExact(records) ==
    \A compressible \in BOOLEAN :
        LET words == page_serialize(records, compressible)
        IN  /\ Long(records) = {} => page_deserialize(words) = Read("ok", records)
            /\ Long(records) # {} => page_deserialize(words).status # "ok"
            /\ \A n \in 0 .. Len(words) - 1 : page_deserialize(SubSeq(words, 1, n)).status # "ok"
=============================================================================
