-------------------------------- MODULE Stores --------------------------------
(***************************************************************************)
(* The two implementations of storage.Store: InMemory (store.go), which    *)
(* the tests run on, and LevelDBStore (leveldb.go), which the node runs    *)
(* on, driven by the same calls.  mem holds Go slices and maps; db is one  *)
(* key-value map whose iteration order is the order of its keys' bytes.    *)
(*                                                                         *)
(* Headers come from Chain.AddCheckpoint: one per epoch, in rising epochs. *)
(***************************************************************************)
EXTENDS Naturals, Sequences, FiniteSets, Functions, SequencesExt, TLC

CONSTANTS
    Epochs,         \* epochs that occur, an interval
    Validators,     \* validator ids
    Intents,        \* intent ids
    Agents,         \* agent ids
    Records,        \* record ids
    Blobs,          \* contents of evidence, bitmaps, anchors and reports
    ListLimit,      \* entries a listing returns at most (100)
    MaxCalls        \* bound: calls that write

VARIABLES
    mem,            \* [hdrs, bitmaps, anchor, reports, dse, winners, records, execReports]
    db,             \* key -> value
    calls

vars == <<mem, db, calls>>

-----------------------------------------------------------------------------
(* Keys.  The epoch in a key is the sequence of its digits.                *)

Digits(e) == IF e < 10 THEN <<e>> ELSE <<e \div 10, e % 10>>

\* Faulty: without zero padding 10 comes before 9.
PaddedNot(e) == Digits(e)

\* %020d, of which two digits are kept.
Padded(e) == <<e \div 10, e % 10>>

\* %d reads the digits back.
Number(d) == IF Len(d) = 1 THEN d[1] ELSE d[1] * 10 + d[2]

keyHeader(e) == <<"cp", Padded(e)>>

\* Faulty: the key of another kind of value.
keyBitmapOfHeader(e) == <<"cp", Padded(e)>>

keyBitmap(e) == <<"bm", Padded(e)>>
keyAnchor == <<"anchor">>
keyReport(k) == <<"rep", k>>

\* Faulty: one entry per epoch.
keyDSByEpoch(e, v) == <<"ds", Padded(e), "">>

keyDS(e, v) == <<"ds", Padded(e), v>>
keyWinner(i) == <<"iw", i>>

\* Faulty: records of one id overwrite each other across agents.
keyVerificationRecordShort(i, a, r) == <<"vr", i, "", r>>

keyVerificationRecord(i, a, r) == <<"vr", i, a, r>>
keyExecutionReport(r) == <<"er", r>>

\* Order of the validators' ids in a key.
Rank == LET ids == SetToSeq(Validators) IN [v \in Validators |-> CHOOSE n \in DOMAIN ids : ids[n] = v]

With(k, v) == (k :> v) @@ db
Has(k) == k \in DOMAIN db

\* Byte order of two digit strings (a proper prefix comes first).
Before(s, t) ==
    \/ IsStrictPrefix(s, t)
    \/ \E n \in 1..Len(s) : n <= Len(t) /\ s[n] < t[n] /\ \A m \in 1..(n - 1) : s[m] = t[m]

KeysOf(prefix) == {k \in DOMAIN db : k[1] = prefix}

Init ==
    /\ mem = [hdrs |-> <<>>, bitmaps |-> <<>>, anchor |-> [hash |-> "", epoch |-> 0],
              reports |-> {}, dse |-> <<>>, winners |-> <<>>, records |-> <<>>, execReports |-> <<>>]
    /\ db = <<>>
    /\ calls = 0

-----------------------------------------------------------------------------
(* InMemory: slices are appended to, maps overwritten                      *)

MemSaveHeader(e) == [mem EXCEPT !.hdrs = Append(@, e)]
MemSaveSignersBitmap(e, b) == [mem EXCEPT !.bitmaps = (e :> b) @@ @]
MemSaveAnchor(h, e) == [mem EXCEPT !.anchor = [hash |-> h, epoch |-> e]]
MemSaveReportKey(k) == [mem EXCEPT !.reports = @ \cup {k}]
MemSaveDoubleSignEvidence(e, v, b) ==
    [mem EXCEPT !.dse = Append(@, [epoch |-> e, validator |-> v, evidence |-> b])]
\* The first winner stays.
MemSaveIntentWinner(i, a) == [mem EXCEPT !.winners = @ @@ (i :> a)]
MemSaveVerificationRecord(i, a, r) ==
    [mem EXCEPT !.records = Append(@, [intent |-> i, agent |-> a, id |-> r])]
MemSaveExecutionReport(r, b) == [mem EXCEPT !.execReports = (r :> b) @@ @]

\* At most limit entries, from the front.
Limited(list, limit) == IF limit > 0 /\ Len(list) > limit THEN SubSeq(list, 1, limit) ELSE list

At(f, x) == IF x \in DOMAIN f THEN {f[x]} ELSE {}

MemGetHeader(e) == Range(mem.hdrs) \cap {e}
MemLoadSignersBitmap(e) == At(mem.bitmaps, e)
MemListVerificationRecords(i, a, limit) ==
    Limited(SelectSeq(mem.records, LAMBDA rec : (i = "" \/ rec.intent = i) /\ (a = "" \/ rec.agent = a)), limit)
MemGetExecutionReport(r) == At(mem.execReports, r)

-----------------------------------------------------------------------------
(* Writers                                                                 *)

Write(m, d) == calls < MaxCalls /\ calls' = calls + 1 /\ mem' = m /\ db' = d

SaveHeader(e) ==
    /\ \A n \in DOMAIN mem.hdrs : mem.hdrs[n] < e
    /\ Write(MemSaveHeader(e), With(keyHeader(e), e))

SaveSignersBitmap(e, b) == Write(MemSaveSignersBitmap(e, b), With(keyBitmap(e), b))

SaveAnchor(h, e) == Write(MemSaveAnchor(h, e), With(keyAnchor, <<Padded(e), h>>))

SaveReportKey(k) == Write(MemSaveReportKey(k), With(keyReport(k), 1))

\* Appended in memory, overwritten in the database.
SaveDoubleSignEvidence(e, v, b) ==
    Write(MemSaveDoubleSignEvidence(e, v, b), With(keyDS(e, v), b))

\* The database stores "agent|ts".
SaveIntentWinner(i, a) ==
    Write(MemSaveIntentWinner(i, a),
          IF Has(keyWinner(i)) THEN db ELSE With(keyWinner(i), <<a, "|">>))

\* Every record has an id of its own.
SaveVerificationRecord(i, a, r) ==
    /\ \A n \in DOMAIN mem.records : mem.records[n] # [intent |-> i, agent |-> a, id |-> r]
    /\ Write(MemSaveVerificationRecord(i, a, r),
             With(keyVerificationRecord(i, a, r), [intent |-> i, agent |-> a, id |-> r]))

SaveExecutionReport(r, b) == Write(MemSaveExecutionReport(r, b), With(keyExecutionReport(r), b))

Next ==
    \/ \E e \in Epochs :
         \/ SaveHeader(e)
         \/ \E b \in Blobs :
              SaveSignersBitmap(e, b) \/ SaveAnchor(b, e)
              \/ \E v \in Validators : SaveDoubleSignEvidence(e, v, b)
    \/ \E i \in Intents, a \in Agents :
         SaveIntentWinner(i, a) \/ SaveReportKey(<<i, a>>)
         \/ \E r \in Records : SaveVerificationRecord(i, a, r)
    \/ \E r \in Records, b \in Blobs : SaveExecutionReport(r, b)

-----------------------------------------------------------------------------
(* Readers of the database                                                 *)

GetAt(k) == IF Has(k) THEN {db[k]} ELSE {}

GetHeader(e) == GetAt(keyHeader(e))
LoadSignersBitmap(e) == GetAt(keyBitmap(e))
GetExecutionReport(r) == GetAt(keyExecutionReport(r))

\* ListHeaders: values in key order.
ListHeaders ==
    LET keys == SetToSortSeq(KeysOf("cp"), LAMBDA k, l : Before(k[2], l[2]))
    IN  [n \in DOMAIN keys |-> db[keys[n]]]

LoadLatestHeader == IF ListHeaders = <<>> THEN {} ELSE {Last(ListHeaders)}

LoadLatestAnchor ==
    IF Has(keyAnchor)
    THEN [hash |-> db[keyAnchor][2], epoch |-> Number(db[keyAnchor][1])]
    ELSE [hash |-> "", epoch |-> 0]

\* In key order: by epoch, then by validator ({} asks for all epochs, "" for all validators).
ListDoubleSignEvidence(v, epoch, limit) ==
    LET keys == {k \in KeysOf("ds") : (v = "" \/ k[3] = v) /\ (epoch = {} \/ Number(k[2]) \in epoch)}
        sorted == SetToSortSeq(keys, LAMBDA k, l : Before(k[2], l[2]) \/ (k[2] = l[2] /\ Rank[k[3]] < Rank[l[3]]))
    IN  Limited([n \in DOMAIN sorted |-> [epoch |-> Number(sorted[n][2]), validator |-> sorted[n][3],
                                          evidence |-> db[sorted[n]]]], limit)

\* By intent prefix and agent; "" asks for all.
ListVerificationRecords(i, a) ==
    {db[k] : k \in {k \in KeysOf("vr") : (i = "" \/ k[2] = i) /\ (a = "" \/ k[3] = a)}}

\* Faulty: takes the epoch asked for as the last one.
InEpochsUpTo(item, start, end) == (start > 0 => item.epoch <= start) /\ (end > 0 => item.epoch <= end)

InEpochs(item, start, end) == (start > 0 => item.epoch >= start) /\ (end > 0 => item.epoch <= end)

\* Node.GetDoubleSignEvidences: the limit of the store applies before the range of epochs.  What
\* detectDoubleSign stored is read as another message type, which has no field for the signatures.
GetDoubleSignEvidences(v, start, end) ==
    LET items == ListDoubleSignEvidence(v, IF start = end /\ start > 0 THEN {start} ELSE {}, ListLimit)
        found == SelectSeq(items, LAMBDA item : InEpochs(item, start, end))
    IN  {[epoch |-> found[n].epoch, validator |-> found[n].validator, evidence |-> "none"] : n \in DOMAIN found}

\* The service's query gives the epoch as the start and no end.
ServiceEvidences(v, epoch) == GetDoubleSignEvidences(v, epoch, 0)

-----------------------------------------------------------------------------
\* Both stores return the same headers in the same order and the same latest header: the
\* order of the keys' bytes is the order of the epochs.
HeadersAgree ==
    /\ ListHeaders = mem.hdrs
    /\ LoadLatestHeader = IF mem.hdrs = <<>> THEN {} ELSE {Last(mem.hdrs)}
    /\ LoadLatestAnchor = mem.anchor

\* What is read by its key is what was saved under it, in both stores: the keys of the
\* different kinds of values in the one database never meet.
ReadsAgree ==
    /\ \A e \in Epochs : GetHeader(e) = MemGetHeader(e) /\ LoadSignersBitmap(e) = MemLoadSignersBitmap(e)
    /\ \A r \in Records : GetExecutionReport(r) = MemGetExecutionReport(r)
    /\ \A i \in Intents, a \in Agents : Has(keyReport(<<i, a>>)) <=> <<i, a>> \in mem.reports

LastOf(e, v) ==
    LET S == {n \in DOMAIN mem.dse : mem.dse[n].epoch = e /\ mem.dse[n].validator = v}
    IN  IF S = {} THEN {} ELSE {mem.dse[CHOOSE n \in S : \A m \in S : m <= n]}

\* Evidence against a validator is never lost to evidence against another one or of
\* another epoch: for each, the database lists the last one saved.
EvidenceKept ==
    Range(ListDoubleSignEvidence("", {}, 0)) = UNION {LastOf(e, v) : e \in Epochs, v \in Validators}

\* As long as a validator's evidence fits into one page of the store, the service's query for an
\* epoch names every double sign of the validator from that epoch on.
QueryFindsEvidence ==
    \A v \in Validators, epoch \in Epochs :
        Len(ListDoubleSignEvidence(v, {}, 0)) <= ListLimit =>
            \A n \in DOMAIN mem.dse :
                mem.dse[n].validator = v /\ mem.dse[n].epoch >= epoch =>
                    \E found \in ServiceEvidences(v, epoch) : found.epoch = mem.dse[n].epoch

\* A query for verification records by intent, by agent, by both or by neither finds the
\* same records in both stores.
RecordsAgree ==
    \A i \in Intents \cup {""}, a \in Agents \cup {""} :
        ListVerificationRecords(i, a) = Range(MemListVerificationRecords(i, a, 0))
=============================================================================
