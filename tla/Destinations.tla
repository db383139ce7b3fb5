---------------------------- MODULE Destinations ----------------------------
(***************************************************************************)
(* How the destination connectors carry out Write: they buffer the records *)
(* of the input channel, send full buffers, and return a WriteResult:      *)
(* connectors/{salesforce, hubspot, zendesk, intercom, snowflake, bigquery,*)
(* s3}, on the retrying HTTP client of connectors/common/http_client.go.   *)
(*                                                                         *)
(* One behaviour is DstMaxCalls calls of Write, one after the other, on one *)
(* stream.  A request that is not answered may have been carried out.      *)
(* Buffers are kept per stream and never mix, so one stream is enough.     *)
(***************************************************************************)
EXTENDS Integers, Sequences, FiniteSets, SequencesExt

CONSTANTS DstKinds,       \* the connector of a behaviour
          DstInputs,      \* the input channels Write is called with
          DstMaxCalls,    \* bound: number of calls
          DstBatch,       \* records of a full buffer
          DstBulk,        \* Snowflake's bulkThreshold
          DstMaxRetries,  \* retries of the HTTP client
          DstMaxSecond    \* bound: clock, in the seconds of an object key

\* An input is a sequence of messages: records, named by positive numbers, records
\* that do not parse, and states.
BadRecord == 0
StateMessage == -1
DstRecords == UNION {{m \in ToSet(i) : m > 0} : i \in DstInputs}

ASSUME DestinationsAssumption ==
    /\ DstInputs \subseteq Seq(Nat \union {StateMessage})
    /\ \A i \in DstInputs : \A j, k \in DOMAIN i : i[j] = i[k] /\ i[j] > 0 => j = k
    /\ DstBatch \in Nat \ {0} /\ DstBulk \in Nat \ {0} /\ DstMaxRetries \in Nat
    /\ DstMaxCalls \in Nat /\ DstMaxSecond \in Nat

VARIABLES dstKind,     \* which connector writes, constant
          dstCalls,    \* calls of Write begun
          dstIn,       \* what is left in the input channel
          dstTaken,    \* history: records the call has taken from it, those that do
                       \* not parse included
          dstBuf,      \* the buffered records
          dstReq,      \* the records of the request under way, per job
          dstTry,      \* attempts the HTTP client has made of it
          dstPc,       \* "idle", "receive", "request", "poll", "done"
          dstResult,   \* the WriteResult: records written, errors, states
          dstCopies,   \* [DstRecords -> Nat]: copies in the destination's table
          dstMiscounted, \* history: counted as written, not stored, no error
          dstObjects,  \* S3: the objects, by <<second, file index>>
          dstFile,     \* S3: fileIdx of the call
          dstSecond,   \* clock
          dstCancelled \* the context of the call is done

dstVars == <<dstKind, dstCalls, dstIn, dstTaken, dstBuf, dstReq, dstTry, dstPc,
             dstResult, dstCopies, dstMiscounted, dstObjects, dstFile, dstSecond,
             dstCancelled>>

Crm == {"salesforce", "hubspot", "zendesk", "intercom", "intercomItem"}

NoResult == [written |-> 0, failed |-> {}, errors |-> 0, acked |-> {}, seen |-> {}]

DestinationsInit ==
    /\ dstKind \in DstKinds
    /\ dstCalls = 0 /\ dstIn = <<>> /\ dstTaken = 0 /\ dstBuf = <<>>
    /\ dstReq = <<>> /\ dstTry = 0
    /\ dstPc = "idle" /\ dstResult = NoResult
    /\ dstCopies = [r \in DstRecords |-> 0] /\ dstMiscounted = {}
    /\ dstObjects = <<>> /\ dstFile = 0 /\ dstSecond = 1
    /\ dstCancelled = FALSE

Stored(r) == \/ dstCopies[r] > 0
             \/ \E k \in DOMAIN dstObjects : r \in dstObjects[k]

\* Copies are counted up to two: one more than there should be.
Add(copies, S) == [r \in DstRecords |-> IF r \in S /\ copies[r] < 2
                                          THEN copies[r] + 1 ELSE copies[r]]

-----------------------------------------------------------------------------
(* The environment of a call.                                               *)

DstCall(input) ==
    /\ dstPc \in {"idle", "done"} /\ dstCalls < DstMaxCalls
    /\ dstCalls' = dstCalls + 1
    /\ dstIn' = input /\ dstTaken' = 0 /\ dstBuf' = <<>> /\ dstPc' = "receive"
    /\ dstResult' = NoResult /\ dstFile' = 0 /\ dstCancelled' = FALSE
    /\ dstMiscounted' = {}
    /\ UNCHANGED <<dstKind, dstReq, dstTry, dstCopies, dstObjects, dstSecond>>

DstTick ==
    /\ dstKind = "s3" /\ dstSecond < DstMaxSecond
    /\ dstSecond' = dstSecond + 1
    /\ UNCHANGED <<dstKind, dstCalls, dstIn, dstTaken, dstBuf, dstReq, dstTry, dstPc,
                   dstResult, dstCopies, dstMiscounted, dstObjects, dstFile, dstCancelled>>

DstCancel ==
    /\ dstPc \in {"receive", "request", "poll"} /\ ~dstCancelled
    /\ dstCancelled' = TRUE
    /\ UNCHANGED <<dstKind, dstCalls, dstIn, dstTaken, dstBuf, dstReq, dstTry, dstPc,
                   dstResult, dstCopies, dstMiscounted, dstObjects, dstFile, dstSecond>>

-----------------------------------------------------------------------------
(* The receive loop of Write.                                               *)

Counted(m) == IF m = StateMessage THEN dstTaken ELSE dstTaken + 1

\* A record that does not parse is an error; another one is buffered.
Buffer(m) ==
    IF m = BadRecord
      THEN /\ dstResult' = [dstResult EXCEPT !.errors = 1]
           /\ UNCHANGED dstBuf
      ELSE /\ dstBuf' = Append(dstBuf, m)
           /\ dstResult' = [dstResult EXCEPT !.seen = @ \union {m}]

\* Intercom takes contacts in batches and everything else one by one.
Full(buf) == Len(buf) >= IF dstKind = "intercomItem" THEN 1 ELSE DstBatch

Receives(kind) == dstPc = "receive" /\ dstKind = kind

\* One request for the buffer; flushBatch of Zendesk makes a job of the records without
\* an id and one of those with one.  (Odd numbers stand for the records without an id.)
Jobs(buf) ==
    LET creates == {r \in ToSet(buf) : r % 2 = 1}
        updates == {r \in ToSet(buf) : r % 2 = 0} IN
    IF dstKind = "zendesk" /\ creates # {} /\ updates # {} THEN <<creates, updates>>
                                                         ELSE <<ToSet(buf)>>

\* The connectors of business applications ignore state messages and send the
\* buffer when it is full and when the input ends; they do not look at the
\* context, which the HTTP client does.
BufferedWrite ==
    /\ IF dstIn # <<>>
         THEN /\ dstIn' = Tail(dstIn) /\ dstTaken' = Counted(Head(dstIn))
              /\ IF Head(dstIn) = StateMessage THEN UNCHANGED <<dstBuf, dstResult>>
                                          ELSE Buffer(Head(dstIn))
              /\ IF Full(dstBuf')
                   THEN dstPc' = "request" /\ dstReq' = Jobs(dstBuf')
                   ELSE UNCHANGED <<dstPc, dstReq>>
         ELSE /\ IF dstBuf # <<>> THEN dstPc' = "request" /\ dstReq' = Jobs(dstBuf)
                                  ELSE dstPc' = "done" /\ UNCHANGED dstReq
              /\ UNCHANGED <<dstIn, dstTaken, dstBuf, dstResult>>
    /\ dstTry' = 0
    /\ UNCHANGED <<dstKind, dstCalls, dstCopies, dstMiscounted, dstObjects, dstFile,
                   dstSecond, dstCancelled>>

SalesforceWrite == Receives("salesforce") /\ BufferedWrite
HubspotWrite == Receives("hubspot") /\ BufferedWrite
ZendeskWrite == Receives("zendesk") /\ BufferedWrite
IntercomWrite == (Receives("intercom") \/ Receives("intercomItem")) /\ BufferedWrite

-----------------------------------------------------------------------------
(* The request: RESTClient.do and what the connectors make of its result.   *)

\* The request is over: n more records count as written, those in bad carry an error
\* of their own, others is whether there are errors that name no record; then the
\* next job, or the loop.
Answered(n, bad, others) ==
    /\ dstResult' = [dstResult EXCEPT !.written = @ + n,
                                      !.failed = @ \union bad,
                                      !.errors = IF others THEN 1 ELSE @]
    /\ dstReq' = Tail(dstReq)
    /\ IF Len(dstReq) > 1 THEN dstPc' = "request" /\ UNCHANGED dstBuf
                          ELSE dstPc' = "receive" /\ dstBuf' = <<>>
    /\ dstTry' = 0

Job == Head(dstReq)

\* do gives up: the request failed for good, every record of it has an error.
Rejected == Answered(0, Job, FALSE)

HttpRetryForEver ==
    /\ dstKind \in Crm /\ dstPc = "request" /\ ~dstCancelled
    /\ dstTry' = dstTry + 1
    /\ \E done \in {{}, Job} : dstCopies' = Add(dstCopies, done)
    /\ UNCHANGED <<dstKind, dstCalls, dstIn, dstTaken, dstBuf, dstReq, dstPc, dstResult,
                   dstMiscounted, dstObjects, dstFile, dstSecond, dstCancelled>>

\* One attempt of RESTClient.do that does not give a result: a lost answer, a 429
\* or a 5xx is retried, DstMaxRetries times; the request may have been carried out.
HttpRetry ==
    /\ dstKind \in Crm /\ dstPc = "request" /\ dstTry < DstMaxRetries /\ ~dstCancelled
    /\ dstTry' = dstTry + 1
    /\ \E done \in {{}, Job} : dstCopies' = Add(dstCopies, done)
    /\ UNCHANGED <<dstKind, dstCalls, dstIn, dstTaken, dstBuf, dstReq, dstPc, dstResult,
                   dstMiscounted, dstObjects, dstFile, dstSecond, dstCancelled>>

\* The last attempt fails, a 4xx comes back, or the context is done.
HttpGivesUp ==
    /\ dstKind \in Crm /\ dstPc = "request"
    /\ \E done \in IF dstTry = DstMaxRetries THEN {{}, Job} ELSE {{}} :
          dstCopies' = Add(dstCopies, done)
    /\ Rejected
    /\ UNCHANGED <<dstKind, dstCalls, dstIn, dstTaken, dstMiscounted, dstObjects, dstFile,
                   dstSecond, dstCancelled>>

\* Composite API with allOrNone FALSE: each record is stored or not.  The results of
\* the answer are counted, or carry an error; one that is missing or is not an object
\* is neither, and a body that is not a list is one error for all.
SalesforceFlushBatch ==
    /\ dstKind = "salesforce" /\ dstPc = "request" /\ ~dstCancelled
    /\ \E ok \in SUBSET Job :
          /\ dstCopies' = Add(dstCopies, ok)
          /\ \/ Answered(0, {}, TRUE)
             \/ \E n \in 0..Cardinality(ok), bad \in SUBSET (Job \ ok) :
                   Answered(n, bad, FALSE)
    /\ UNCHANGED <<dstKind, dstCalls, dstIn, dstTaken, dstMiscounted, dstObjects, dstFile,
                   dstSecond, dstCancelled>>

\* The results are only counted, whatever the status; errors name no record, and may be
\* missing beside too few results.  "COMPLETE" without results is the whole batch.
HubspotFlushBatch ==
    /\ dstKind = "hubspot" /\ dstPc = "request" /\ ~dstCancelled
    /\ \E ok \in SUBSET Job :
          /\ dstCopies' = Add(dstCopies, ok)
          /\ \/ /\ \E n \in {0, Cardinality(ok)}, others \in BOOLEAN :
                      Answered(n, {}, others)
                /\ UNCHANGED dstMiscounted
             \/ /\ Answered(Cardinality(Job), {}, FALSE)
                /\ dstMiscounted' = dstMiscounted \union (Job \ ok)
    /\ UNCHANGED <<dstKind, dstCalls, dstIn, dstTaken, dstObjects, dstFile, dstSecond,
                   dstCancelled>>

\* The answer names a job, which is polled; one that does not counts every record.
\* (All streams that have a writePath have an updatePath as well, zendesk.go:33-52.)
ZendeskFlushBatch ==
    /\ dstKind = "zendesk" /\ dstPc = "request" /\ ~dstCancelled
    /\ \/ /\ dstPc' = "poll"
          /\ UNCHANGED <<dstBuf, dstReq, dstTry, dstResult, dstCopies, dstMiscounted>>
       \/ \E done \in SUBSET Job :
             /\ dstCopies' = Add(dstCopies, done)
             /\ Answered(Cardinality(Job), {}, FALSE)
             /\ dstMiscounted' = dstMiscounted \union (Job \ done)
    /\ UNCHANGED <<dstKind, dstCalls, dstIn, dstTaken, dstObjects, dstFile, dstSecond,
                   dstCancelled>>

\* Mutant of ZendeskSubmitJob: a failed job counts like a completed one.
ZendeskSubmitJobQuiet ==
    /\ dstKind = "zendesk" /\ dstPc = "poll"
    /\ \E done \in SUBSET Job :
          dstCopies' = Add(dstCopies, done) /\ Answered(Cardinality(Job), {}, FALSE)
    /\ UNCHANGED <<dstKind, dstCalls, dstIn, dstTaken, dstMiscounted, dstObjects, dstFile,
                   dstSecond, dstCancelled>>

\* submitJob: a completed job counts the total it gives, and what became of its records
\* is not looked at.  Failed, killed, cancelled and, after five minutes, timed out are one
\* error, and the job may complete after that.
ZendeskSubmitJob ==
    /\ dstKind = "zendesk" /\ dstPc = "poll"
    /\ \E done \in SUBSET Job :
          /\ dstCopies' = Add(dstCopies, done)
          /\ \/ Answered(0, {}, TRUE) /\ UNCHANGED dstMiscounted
             \/ \E total \in 0..Cardinality(Job) :
                   /\ ~dstCancelled /\ Answered(total, {}, FALSE)
                   /\ dstMiscounted' = dstMiscounted \union
                        IF total > Cardinality(done) THEN Job \ done ELSE {}
    /\ UNCHANGED <<dstKind, dstCalls, dstIn, dstTaken, dstObjects, dstFile, dstSecond,
                   dstCancelled>>

\* The bulk API accepts the batch and carries it out later: accepted is written.
IntercomFlushContactBatch ==
    /\ dstKind = "intercom" /\ dstPc = "request" /\ ~dstCancelled
    /\ \/ \E done \in SUBSET Job :
             /\ dstCopies' = Add(dstCopies, done) /\ Answered(Cardinality(Job), {}, FALSE)
             /\ dstMiscounted' = dstMiscounted \union (Job \ done)
       \/ UNCHANGED <<dstCopies, dstMiscounted>> /\ Answered(0, {}, TRUE)
    /\ UNCHANGED <<dstKind, dstCalls, dstIn, dstTaken, dstObjects, dstFile, dstSecond,
                   dstCancelled>>

\* A record of another stream, alone: PUT with an id, POST without one.
IntercomWriteIndividual ==
    /\ dstKind = "intercomItem" /\ dstPc = "request" /\ ~dstCancelled
    /\ dstCopies' = Add(dstCopies, Job) /\ Answered(Cardinality(Job), {}, FALSE)
    /\ UNCHANGED <<dstKind, dstCalls, dstIn, dstTaken, dstMiscounted, dstObjects, dstFile,
                   dstSecond, dstCancelled>>

-----------------------------------------------------------------------------
(* Warehouses and object store: the loop also stops when the context is     *)
(* done, and a state message is acknowledged after a flush of the buffer.   *)

\* A flush of the connector, (buf, result), sends buf, adds to result and says what is
\* left in the buffer.
Wrote(res, n) == [res EXCEPT !.written = @ + n]
OneError(res) == [res EXCEPT !.errors = 1]

\* A statement of Snowflake's SQL API: whether it takes effect, and whether the caller is
\* told so.  One that is not finished within 60 seconds is polled, for two hours at most;
\* an answer that is lost or cannot be read, a 429 and a time-out are errors, whatever
\* becomes of the statement.
Outcome(effect, ok) == [effect |-> effect, ok |-> ok]
PollStatementResult == {Outcome(TRUE, TRUE), Outcome(TRUE, FALSE), Outcome(FALSE, FALSE)}
ExecuteStatement ==
    {Outcome(TRUE, FALSE), Outcome(FALSE, FALSE)} \union
    IF dstCancelled THEN {} ELSE {Outcome(TRUE, TRUE)} \union PollStatementResult

\* directInsert: one multi-row INSERT; its error carries all the rows.
DirectInsert(buf, res) ==
    /\ \E insert \in ExecuteStatement :
          /\ dstCopies' = Add(dstCopies, IF insert.effect THEN ToSet(buf) ELSE {})
          /\ dstResult' = IF insert.ok THEN Wrote(res, Len(buf))
                          ELSE [res EXCEPT !.failed = @ \union ToSet(buf)]
    /\ dstBuf' = <<>> /\ UNCHANGED <<dstMiscounted, dstObjects, dstFile>>

\* bulkInsertViaStage: BEGIN, INSERTs of a chunk each, COMMIT.  A failed INSERT is
\* followed by a ROLLBACK, and the chunks before it still count as written; the
\* results of BEGIN, ROLLBACK and COMMIT are not looked at, so whether the end keeps the
\* rows is open.  (Chunks of one row.)
BulkInsertViaStage(buf, res) ==
    /\ \E n \in 1..(Len(buf) + 1), kept \in BOOLEAN, last \in ExecuteStatement :
          LET counted == ToSet(SubSeq(buf, 1, n - 1))    \* INSERT n fails, if any
              failed == {buf[i] : i \in {n} \intersect DOMAIN buf}
              effect == counted \union IF last.effect THEN failed ELSE {} IN
          /\ n <= Len(buf) => ~last.ok
          /\ dstCopies' = Add(dstCopies, IF kept THEN effect ELSE {})
          /\ dstMiscounted' = dstMiscounted \union (IF kept THEN {} ELSE counted)
          /\ dstResult' = [Wrote(res, n - 1) EXCEPT
                             !.failed = @ \union failed,
                             !.errors = IF failed # {} THEN 1 ELSE @]
    /\ dstBuf' = <<>> /\ UNCHANGED <<dstObjects, dstFile>>

SnowflakeFlush(buf, res) ==
    IF Len(buf) >= DstBulk THEN BulkInsertViaStage(buf, res) ELSE DirectInsert(buf, res)

\* insertAll, three attempts: a lost answer, an unreadable one, a 429 or a 5xx is
\* retried with the same insert ids, which the service tells apart.  Any other
\* answer is final; the rows it has no error for count as written, also when the
\* status is a 4xx without errors.
BigQueryFlush(buf, res) ==
    /\ \/ /\ ~dstCancelled
          /\ dstCopies' = Add(dstCopies, ToSet(buf))
          /\ dstResult' = Wrote(res, Len(buf)) /\ UNCHANGED dstMiscounted
       \/ \E bad \in SUBSET ToSet(buf) :        \* row errors, or a plain 4xx
            /\ UNCHANGED dstCopies
            /\ dstMiscounted' = dstMiscounted \union (ToSet(buf) \ bad)
            /\ dstResult' = [Wrote(res, Len(buf) - Cardinality(bad))
                               EXCEPT !.failed = @ \union bad]
       \/ \E done \in {{}, ToSet(buf)} :
            /\ dstCopies' = Add(dstCopies, done) /\ dstResult' = OneError(res)
            /\ UNCHANGED dstMiscounted
    /\ dstBuf' = <<>> /\ UNCHANGED <<dstObjects, dstFile>>

\* flush: the key is made of the second and of a file index that starts at 0 in
\* every call; PutObject and the multipart upload replace an object of that key.
\* When the upload fails the records stay in the buffer for the next flush.
S3Flush(buf, res) ==
    LET key == <<dstSecond, dstFile>>
        put == [k \in DOMAIN dstObjects \union {key} |->
                  IF k = key THEN ToSet(buf) ELSE dstObjects[k]] IN
    /\ \/ /\ ~dstCancelled
          /\ dstObjects' = put
          /\ dstResult' = Wrote(res, Len(buf)) /\ dstBuf' = <<>>
       \/ /\ dstObjects' \in {put, dstObjects}
          /\ dstResult' = OneError(res) /\ dstBuf' = buf
    /\ dstFile' = dstFile + 1 /\ UNCHANGED <<dstCopies, dstMiscounted>>

Flush(buf, res) ==
    \/ dstKind = "snowflake" /\ SnowflakeFlush(buf, res)
    \/ dstKind = "bigquery" /\ BigQueryFlush(buf, res)
    \/ dstKind = "s3" /\ S3Flush(buf, res)

SeenWith(m) == IF m > 0 THEN dstResult.seen \union {m} ELSE dstResult.seen

FinalFlush(res) ==
    IF dstBuf # <<>> THEN Flush(dstBuf, res)
    ELSE dstResult' = res /\ UNCHANGED <<dstBuf, dstCopies, dstMiscounted, dstObjects, dstFile>>

\* What the loop does with the next message.  It looks at the context when it has taken
\* the message, which is dropped then, without an error.
FlushingWrite ==
    /\ IF dstIn = <<>>
         THEN dstPc' = "done" /\ FinalFlush(dstResult) /\ UNCHANGED <<dstIn, dstTaken>>
         ELSE LET m == Head(dstIn)
                  buf == IF m > 0 THEN Append(dstBuf, m) ELSE dstBuf
                  res == [dstResult EXCEPT
                            !.errors = IF m = BadRecord THEN 1 ELSE @,
                            !.seen = SeenWith(m),
                            !.acked = IF m = StateMessage THEN dstResult.seen ELSE @] IN
              /\ dstIn' = Tail(dstIn) /\ dstTaken' = Counted(m)
              /\ IF dstCancelled
                   THEN dstPc' = "done" /\ FinalFlush([dstResult EXCEPT !.seen = SeenWith(m)])
                   ELSE /\ UNCHANGED dstPc
                        /\ IF (m > 0 /\ Full(buf)) \/ (m = StateMessage /\ buf # <<>>)
                             THEN Flush(buf, res)
                             ELSE /\ dstBuf' = buf /\ dstResult' = res
                                  /\ UNCHANGED <<dstCopies, dstMiscounted, dstObjects,
                                                 dstFile>>
    /\ UNCHANGED <<dstKind, dstCalls, dstReq, dstTry, dstSecond, dstCancelled>>

SnowflakeWrite == Receives("snowflake") /\ FlushingWrite
BigQueryWrite == Receives("bigquery") /\ FlushingWrite
S3Write == Receives("s3") /\ FlushingWrite

DestinationsNext ==
    \/ \E input \in DstInputs : DstCall(input)
    \/ DstTick \/ DstCancel
    \/ SalesforceWrite \/ HubspotWrite \/ ZendeskWrite \/ IntercomWrite
    \/ HttpRetry \/ HttpGivesUp
    \/ SalesforceFlushBatch \/ HubspotFlushBatch \/ ZendeskFlushBatch \/ ZendeskSubmitJob
    \/ IntercomFlushContactBatch \/ IntercomWriteIndividual
    \/ SnowflakeWrite \/ BigQueryWrite \/ S3Write

DestinationsSpec == DestinationsInit /\ [][DestinationsNext]_dstVars
-----------------------------------------------------------------------------
DestinationsTypeOK ==
    /\ dstKind \in DstKinds
    /\ dstCalls \in 0..DstMaxCalls /\ dstTaken \in Nat /\ dstTry \in 0..DstMaxRetries
    /\ dstPc \in {"idle", "receive", "request", "poll", "done"}
    /\ ToSet(dstBuf) \subseteq DstRecords
    /\ \A n \in 1..Len(dstReq) : dstReq[n] \subseteq DstRecords
    /\ dstResult.written \in Nat /\ dstResult.errors \in 0..1
    /\ dstResult.failed \union dstResult.acked \subseteq dstResult.seen
    /\ dstCopies \in [DstRecords -> 0..2]

\* In the destination, behind an error, or counted on an answer that does not say that it
\* was stored.  The code does the last in these places: a batch that Intercom's bulk API
\* accepts (intercom.go:572), chunks of a Snowflake transaction that was rolled back or
\* whose COMMIT failed (snowflake.go:914), a 4xx of BigQuery without row errors
\* (bigquery.go:731), "COMPLETE" without results of HubSpot (hubspot.go:581), and Zendesk's
\* answers without a job (zendesk.go:528, 533) and totals of completed jobs
\* (zendesk.go:557).
Accounted(r) ==
    Stored(r) \/ r \in dstResult.failed \/ dstResult.errors > 0 \/ r \in dstMiscounted

\* Nothing disappears unseen inside Write.  A record that a state it acknowledges
\* (s3.go:916, bigquery.go:790) stands for is accounted for at that time.  When Write
\* returns, each record it has taken from the channel is accounted for, or fewer records
\* count as written or failed than were taken, which ConfirmWriteActivity compares: results
\* missing from the answers of Salesforce and HubSpot, and the message a warehouse takes
\* when its context is done (bigquery.go:741, snowflake.go:735, s3.go:873), show only there.
NoSilentLoss ==
    /\ \A r \in dstResult.acked : Accounted(r)
    /\ dstPc = "done" =>
          \A r \in dstResult.seen :
             \/ Accounted(r)
             \/ dstResult.written + Cardinality(dstResult.failed) < dstTaken

\* "Flush all buffers before acknowledging state" (bigquery.go:778): a state that
\* the result acknowledges stands for records that are all in the destination.
AckedStateIsStored == \A r \in dstResult.acked : Stored(r)
=============================================================================
