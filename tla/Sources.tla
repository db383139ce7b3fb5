------------------------------ MODULE Sources ------------------------------
(***************************************************************************)
(* How the source connectors read one stream of a system that keeps        *)
(* changing while it is read: connectors/{salesforce, hubspot, zendesk,    *)
(* intercom, gong, chorus, zoom, snowflake, bigquery, s3}, and the         *)
(* paginators of connectors/common that a REST connector can use instead.  *)
(*                                                                         *)
(* A version is a pair <<time of the last change, row>>.  One step of a    *)
(* read is one request and the records of its answer; between two requests *)
(* rows change.  What the remote system answers is external: a page token  *)
(* stands for a position in the order of the listing (Keyset) or in a      *)
(* result fixed at the first request (Fixed); only the connectors that     *)
(* compute offsets themselves (Snowflake, Chorus) page by offset.          *)
(***************************************************************************)
EXTENDS Integers, FiniteSets

CONSTANTS SrcRows,      \* identities of the rows, as numbers
          SrcMaxTick,   \* bound: clock of the source
          SrcMaxReads,  \* bound: number of reads of the stream
          SrcPageSize,  \* rows of a page
          SrcSnowflakePage, \* pageSize of the Snowflake connector
          SrcKinds      \* the connector, and the way it reads, of a behaviour

FullKinds == {"zendeskFull", "intercomScroll", "intercomList", "gongGet", "hubspotList",
              "zoomSub", "snowflakeFull", "pagesOffset", "pagesRoot", "pagesCursor",
              "pagesLink", "pagesPost"}
StrictKinds == {"salesforce", "zendesk", "intercom", "chorus", "snowflake", "bigquery", "s3"}
OffsetKinds == {"snowflake", "snowflakeFull", "chorus", "pagesOffset"}
FragileKinds == {"snowflake", "snowflakeFull", "chorus", "s3", "zoom"}

ASSUME SourcesAssumption ==
    /\ SrcRows \subseteq Nat \ {0} /\ IsFiniteSet(SrcRows)
    /\ SrcMaxTick \in Nat \ {0} /\ SrcMaxReads \in Nat
    /\ SrcPageSize \in Nat \ {0} /\ SrcSnowflakePage \in Nat \ {0}
    /\ SrcKinds \subseteq FullKinds \union StrictKinds \union {"hubspot", "gong", "zoom"}

VARIABLES srcKind,       \* which connector reads, constant
          srcTime,       \* [SrcRows -> Nat], time of a row's last change, 0: no row
          srcNow,        \* clock of the source
          srcState,      \* the state message last sent: <<time, row>>
          srcTicks,      \* history: the times of states that exclude their own time, and
                         \* of the last rows of pages, if still the time by the clock
          srcRead,       \* the locals of the read under way; of one that is over, what
                         \* it read for whom, until the source moves on
          srcReads,      \* number of reads begun
          srcQuiet,      \* history: no read failed or skipped an object or lines of
                         \* one, no row changed during one, and no answer of Snowflake
                         \* ended between rows it does not order (FragileKinds only)
          srcDelivered   \* history: versions sent as records, of the kinds with a state,
                         \* as long as srcQuiet

srcVars == <<srcKind, srcTime, srcNow, srcState, srcTicks, srcRead, srcReads,
             srcQuiet, srcDelivered>>

NoState == <<0, 0>>

Before(v, w) == v[1] < w[1] \/ (v[1] = w[1] /\ v[2] < w[2])
Versions == {<<srcTime[r], r>> : r \in {q \in SrcRows : srcTime[q] > 0}}

\* A listing is in the order of Before, and cut into pages by how many are ahead; one in
\* the order of its rows lists their keys.
Ahead(S, v) == Cardinality({w \in S : Before(w, v)})
PageAt(S, offset) ==
    {v \in S : Ahead(S, v) >= offset /\ Ahead(S, v) < offset + SrcPageSize}
Page(S) == PageAt(S, 0)
LastOf(S) == CHOOSE v \in S : \A w \in S : ~Before(v, w)
RowKeys == {<<0, v[2]>> : v \in Versions}
OfKeys(keys) == {v \in Versions : <<0, v[2]>> \in keys}

SrcMax(m, S) == CHOOSE x \in {m} \union {v[1] : v \in S} :
                    \A v \in S : x >= m /\ x >= v[1]

NotReading(pc) ==
    [pc |-> pc, first |-> TRUE, from |-> NoState, there |-> {}, rest |-> {},
     at |-> NoState, offset |-> 0, max |-> 0, got |-> {}, touched |-> {},
     missed |-> FALSE]

SourcesInit ==
    /\ srcKind \in SrcKinds
    /\ srcTime = [r \in SrcRows |-> 0]
    /\ srcNow = 1
    /\ srcState = NoState /\ srcTicks = {}
    /\ srcRead = NotReading("idle")
    /\ srcReads = 0
    /\ srcQuiet = TRUE
    /\ srcDelivered = {}

\* The records of page are sent.  (After the assignment of srcQuiet.)
Delivered(page) ==
    srcDelivered' = IF srcKind \in FullKinds \/ ~srcQuiet' THEN {}
                    ELSE srcDelivered \union page

-----------------------------------------------------------------------------
(* The source system.                                                       *)

\* A row is created or changed, at the time its clock shows.
SrcModify(r) ==
    /\ srcTime[r] # srcNow
    /\ srcTime' = [srcTime EXCEPT ![r] = srcNow]
    /\ IF srcRead.pc = "reading"
         THEN /\ srcRead' = [srcRead EXCEPT !.touched = @ \union {r}]
              /\ srcQuiet' = (srcKind \notin FragileKinds)
         ELSE srcRead' = NotReading("idle") /\ UNCHANGED srcQuiet
    /\ Delivered({})
    /\ UNCHANGED <<srcKind, srcNow, srcState, srcTicks, srcReads>>

SrcTick ==
    /\ srcNow < SrcMaxTick
    /\ srcNow' = srcNow + 1
    /\ srcRead' = IF srcRead.pc = "reading" THEN srcRead ELSE NotReading("idle")
    /\ UNCHANGED <<srcKind, srcTime, srcState, srcTicks, srcReads, srcQuiet, srcDelivered>>

-----------------------------------------------------------------------------
(* The loop of Read over the configured streams, seen from one stream:     *)
(* its turn begins with the state of the last sync, and an error is logged  *)
(* while Read goes on, and returns nil.                                     *)

SrcBegin ==
    /\ srcRead.pc # "reading"
    /\ srcReads < SrcMaxReads
    /\ srcReads' = srcReads + 1
    /\ srcRead' = [NotReading("reading") EXCEPT
                     !.from = IF srcKind \in FullKinds THEN NoState ELSE srcState,
                     !.at = IF srcKind = "zendesk" THEN srcState ELSE NoState,
                     !.there = Versions]
    /\ UNCHANGED <<srcKind, srcTime, srcNow, srcState, srcTicks, srcQuiet, srcDelivered>>

\* A request fails for good: readStream returns the error before it sends a state.
SrcFail ==
    /\ srcRead.pc = "reading"
    /\ srcRead' = NotReading("failed")
    /\ srcQuiet' = (srcKind \notin FragileKinds)
    /\ Delivered({})
    /\ UNCHANGED <<srcKind, srcTime, srcNow, srcState, srcTicks, srcReads>>

Reading(kind) == srcRead.pc = "reading" /\ srcKind = kind

Ended(read) ==
    IF read.missed THEN [NotReading("done") EXCEPT !.missed = TRUE]
    ELSE [NotReading("done") EXCEPT !.from = read.from, !.there = read.there,
            !.got = read.got, !.touched = read.touched]

\* The records of an answer go out; the read goes on with the locals in next.
Emit(page, next) ==
    /\ UNCHANGED srcQuiet /\ Delivered(page)
    /\ srcRead' = [next EXCEPT !.first = FALSE,
                               !.got = @ \union page,
                               !.max = SrcMax(@, page)]
    /\ srcTicks' = srcTicks \union ({next.at[1]} \intersect {srcNow})
    /\ UNCHANGED <<srcKind, srcTime, srcNow, srcState, srcReads>>

\* The records of the last answer go out, then the state message, if any.
EmitLast(page, state) ==
    /\ UNCHANGED srcQuiet /\ Delivered(page)
    /\ srcRead' = Ended([srcRead EXCEPT !.got = @ \union page])
    /\ srcState' = state
    /\ srcTicks' = srcTicks \union (IF srcKind \in StrictKinds THEN {state[1]} ELSE {})
    /\ UNCHANGED <<srcKind, srcTime, srcNow, srcReads>>

MaxStateOfClock(page) == <<srcNow, 0>>

MaxState(page) ==
    LET m == SrcMax(srcRead.max, page) IN IF m > 0 THEN <<m, 0>> ELSE srcState

\* One request of a listing that is paged by a token for the place reached in it.
Keyset(selected) ==
    LET todo == {v \in selected : Before(srcRead.at, v)}
        page == Page(todo) IN
    IF page # todo
      THEN Emit(page, [srcRead EXCEPT !.at = LastOf(page)])
      ELSE EmitLast(page, MaxState(page))

-----------------------------------------------------------------------------
(* Incremental reads.                                                       *)

\* WHERE LastModifiedDate > cursor ORDER BY LastModifiedDate; nextRecordsUrl
\* continues the result of the first query.
SalesforceReadStream ==
    /\ Reading("salesforce")
    /\ LET result == IF srcRead.first
                       THEN {v \in Versions : v[1] > srcRead.from[1]} ELSE srcRead.rest
           page == Page(result) IN
       IF result # page THEN Emit(page, [srcRead EXCEPT !.rest = result \ page])
                        ELSE EmitLast(page, MaxState(page))

\* The search request filters with GTE, so the rows of the last state's time
\* are read again.
HubspotReadViaSearch ==
    /\ Reading("hubspot")
    /\ Keyset({v \in Versions : v[1] >= srcRead.from[1]})

IntercomReadViaSearch ==
    /\ Reading("intercom")
    /\ Keyset({v \in Versions : v[1] > srcRead.from[1]})

\* fromDateTime includes the bound; toDateTime is the time of the request.
GongReadViaPOST ==
    /\ Reading("gong")
    /\ Keyset({v \in Versions : v[1] >= srcRead.from[1] /\ v[1] <= srcNow})

\* The incremental export goes on from after_cursor, and the state message
\* carries that cursor, from which the next sync goes on.
ZendeskReadIncremental ==
    /\ Reading("zendesk")
    /\ LET todo == {v \in Versions : Before(srcRead.at, v)}
           page == Page(todo)
           after == IF page = {} THEN srcRead.at ELSE LastOf(page) IN
       IF page # todo THEN Emit(page, [srcRead EXCEPT !.at = after])
                      ELSE EmitLast(page, after)

ChorusReadStreamOffByOne ==
    /\ Reading("chorus")
    /\ LET page == PageAt({v \in Versions : v[1] > srcRead.from[1]}, srcRead.offset) IN
       IF Cardinality(page) >= SrcPageSize
         THEN Emit(page, [srcRead EXCEPT !.offset = @ + SrcPageSize + 1])
         ELSE EmitLast(page, MaxState(page))

\* offset = page * pageSize in the listing as it is now; a short page ends it.
ChorusReadStream ==
    /\ Reading("chorus")
    /\ LET page == PageAt({v \in Versions : v[1] > srcRead.from[1]}, srcRead.offset) IN
       IF Cardinality(page) >= SrcPageSize
         THEN Emit(page, [srcRead EXCEPT !.offset = @ + SrcPageSize])
         ELSE EmitLast(page, MaxState(page))

\* Every page is a new query ... LIMIT n OFFSET m.  Rows that it does not put in order,
\* those of one cursor value and in a full refresh all, may change places from query to
\* query; and of the answer only the first partition is read, which may be any part of the
\* page that is not empty.  The state is the cursor value of the last row.
InOrder(v, w) == srcKind = "snowflakeFull" \/ v[1] <= w[1]

Skipped(ahead, S) ==
    /\ Cardinality(ahead) = srcRead.offset \/ (ahead = S /\ Cardinality(S) < srcRead.offset)
    /\ \A v \in ahead, w \in S \ ahead : InOrder(v, w)

FirstPartition(rows, S) ==
    /\ IF S = {} THEN rows = {} ELSE Cardinality(rows) \in 1..SrcSnowflakePage
    /\ \A v \in rows, w \in S \ rows : InOrder(v, w)

\* Whether rows end between two rows that are in no order.
CutBehind(rows, rest) == \E v \in rows, w \in rest : InOrder(w, v)
LastCursor(rows) == IF rows = {} THEN srcRead.max ELSE SrcMax(0, rows)

RowsRead(rows, rest) ==
    [srcRead EXCEPT
        !.first = FALSE, !.got = @ \union rows, !.max = LastCursor(rows),
        !.offset = @ + SrcSnowflakePage,
        !.missed = @ \/ CutBehind(rows, rest)
                     \/ (Cardinality(rows) < SrcSnowflakePage /\ rest # {})]

SendRows(rows, rest) ==
    /\ srcQuiet' = (srcQuiet /\ ~CutBehind(rows, rest)) /\ Delivered(rows)
    /\ IF Cardinality(rows) >= SrcSnowflakePage
         THEN srcRead' = RowsRead(rows, rest) /\ UNCHANGED <<srcState, srcTicks>>
         ELSE /\ srcRead' = Ended(RowsRead(rows, rest))
              /\ srcState' = IF srcKind = "snowflake" /\ LastCursor(rows) > 0
                               THEN <<LastCursor(rows), 0>> ELSE srcState
              /\ srcTicks' = srcTicks \union
                               (IF srcKind = "snowflake" THEN {srcState'[1]} ELSE {})
    /\ UNCHANGED <<srcKind, srcTime, srcNow, srcReads>>

ReadSnowflakeStream ==
    /\ Reading("snowflake") \/ Reading("snowflakeFull")
    /\ LET S == {v \in Versions : v[1] > srcRead.from[1]} IN
       \E ahead \in SUBSET S : \E rows \in SUBSET (S \ ahead) :
          /\ Skipped(ahead, S) /\ FirstPartition(rows, S \ ahead)
          /\ SendRows(rows, (S \ ahead) \ rows)

\* waitForJob: the job is done, or it failed, the context or 30 minutes are over.
WaitForJob == {"done", "failed"}

\* The pages are those of one query job.  Without a state the query has no ORDER
\* BY, so a page is any part of the result and its last row any of them.  A job
\* that is not complete within the timeout of the request is waited for, but the
\* rows are those of the first answer: there are none, and no page token.
BigQueryReadStream ==
    /\ Reading("bigquery")
    /\ LET result == IF srcRead.first
                       THEN {v \in Versions : v[1] > srcRead.from[1]} ELSE srcRead.rest
           Pages == IF srcRead.from = NoState
                      THEN {p \in SUBSET result : Cardinality(p) =
                               IF Cardinality(result) < SrcPageSize
                                 THEN Cardinality(result) ELSE SrcPageSize}
                      ELSE {Page(result)} IN
       \/ \E page \in Pages :
            IF result # page THEN Emit(page, [srcRead EXCEPT !.rest = result \ page])
            ELSE \E last \in IF page = {} THEN {srcState}
                             ELSE IF srcRead.from = NoState THEN page
                             ELSE {LastOf(page)} :
                    EmitLast(page, IF page = {} THEN srcState ELSE <<last[1], 0>>)
       \/ \E job \in WaitForJob :
          /\ srcRead.first
          /\ srcRead' = IF job = "done" THEN Ended([srcRead EXCEPT !.missed = TRUE])
                                        ELSE NotReading("failed")
          /\ UNCHANGED <<srcKind, srcTime, srcNow, srcState, srcTicks, srcReads,
                         srcQuiet, srcDelivered>>

\* What the parsers make of an object: "all" its lines, "some" of them without a word
\* (a line that does not parse is passed over, an array that breaks off or a read error
\* ends it), "none" with an error, or they never return: the CSV reader is asked again
\* after every error but the end of the file, a broken connection among them.
ParseJSONObject == {"all", "some", "none"}
ParseCSVObject == {"all", "some", "none", "stuck"}
\* Objects of one of the formats; "none" also when GetObject fails.
ReadAndParseObject == {"none"} \union ParseJSONObject \union ParseCSVObject

\* The listing keeps the objects modified after the cutoff; they are fetched in
\* parallel, so in any order, each as it is by then.  One that cannot be fetched
\* or parsed is skipped.  The state is the latest LastModified of the others.
ReadS3Stream ==
    /\ Reading("s3")
    /\ LET listed == IF srcRead.first
                       THEN {v \in Versions : v[1] > srcRead.from[1]} ELSE srcRead.rest IN
       IF listed = {} THEN EmitLast({}, MaxState({}))
       ELSE \E v \in listed, parsed \in ReadAndParseObject :
          LET sent == IF parsed = "all" THEN {<<srcTime[v[2]], v[2]>>} ELSE {} IN
          /\ srcQuiet' = (srcQuiet /\ parsed = "all") /\ Delivered(sent)
          /\ srcRead' = IF parsed = "stuck" THEN NotReading("stuck")
                        ELSE [srcRead EXCEPT
                           !.first = FALSE, !.rest = listed \ {v}, !.got = @ \union sent,
                           !.max = IF parsed = "none" THEN @ ELSE SrcMax(@, {v}),
                           !.missed = @ \/ parsed # "all"]
          /\ UNCHANGED <<srcKind, srcTime, srcNow, srcState, srcTicks, srcReads>>

\* The order of the listing is the API's; a state is sent with every page, with
\* the cursor value of the page's last item, and the next sync asks from there.
ReadZoomStream ==
    /\ Reading("zoom")
    /\ LET result == IF srcRead.first
                       THEN {v \in Versions : v[1] >= srcRead.from[1]} ELSE srcRead.rest IN
       \E page \in {p \in SUBSET result :
                      Cardinality(p) = IF Cardinality(result) < SrcPageSize
                                         THEN Cardinality(result) ELSE SrcPageSize} :
       \E last \in IF page = {} THEN {srcState} ELSE page :
          LET state == IF page = {} THEN srcState ELSE <<last[1], 0>> IN
          IF result # page
            THEN /\ UNCHANGED srcQuiet /\ Delivered(page)
                 /\ srcRead' = [srcRead EXCEPT !.first = FALSE, !.rest = result \ page,
                                               !.got = @ \union page]
                 /\ srcState' = state
                 /\ UNCHANGED <<srcKind, srcTime, srcNow, srcTicks, srcReads>>
            ELSE EmitLast(page, state)

\* The children of each parent of a page, as they are by then; a parent whose children
\* cannot be fetched or parsed is skipped with a warning at most.  No state is sent for
\* them.  (A row stands for a parent with its children.)
ReadSubResource ==
    /\ Reading("zoomSub")
    /\ LET parents == IF srcRead.first THEN Versions ELSE srcRead.rest IN
       \E page \in {p \in SUBSET parents :
                      Cardinality(p) = IF Cardinality(parents) < SrcPageSize
                                         THEN Cardinality(parents) ELSE SrcPageSize} :
       \E skipped \in SUBSET page :
          LET sent == {<<srcTime[v[2]], v[2]>> : v \in page \ skipped} IN
          LET next == [srcRead EXCEPT !.first = FALSE, !.rest = parents \ page,
                         !.got = @ \union sent, !.missed = @ \/ skipped # {}] IN
          /\ srcRead' = IF parents = page THEN Ended(next) ELSE next
          /\ UNCHANGED srcQuiet /\ Delivered(sent)
          /\ UNCHANGED <<srcKind, srcTime, srcNow, srcState, srcTicks, srcReads>>

-----------------------------------------------------------------------------
(* Full-refresh reads: the listing in the order of its rows, no state.      *)

ListPage ==
    LET todo == {k \in RowKeys : Before(srcRead.at, k)}
        page == Page(todo) IN
    IF page # todo
      THEN Emit(OfKeys(page), [srcRead EXCEPT !.at = LastOf(page)])
      ELSE EmitLast(OfKeys(page), srcState)

ZendeskReadFullRefresh == Reading("zendeskFull") /\ ListPage

\* A page without results also ends these two.  A scroll parameter that is the one the
\* request was made with ends the read as well, however much there is to come.
IntercomReadViaScroll ==
    /\ Reading("intercomScroll")
    /\ \/ ListPage
       \/ LET todo == {k \in RowKeys : Before(srcRead.at, k)} IN
          /\ ~srcRead.first /\ Page(todo) # todo
          /\ srcRead' = Ended([srcRead EXCEPT !.missed = TRUE])
          /\ UNCHANGED <<srcKind, srcTime, srcNow, srcState, srcTicks, srcReads, srcQuiet,
                         srcDelivered>>

IntercomReadViaCursorPagination == Reading("intercomList") /\ ListPage

\* checkDailyLimit runs before each request; a limit reached is a failure, SrcFail.
GongReadViaGET == Reading("gongGet") /\ ListPage

HubspotReadViaList == Reading("hubspotList") /\ ListPage

-----------------------------------------------------------------------------
(* The paginators and the loops over them (common/pagination.go).           *)

\* The handler gets the page; the loop goes on while the paginator has a URL.
StreamPages(page, more, next) ==
    IF more THEN Emit(page, next) ELSE EmitLast(page, srcState)

\* A page that is not full is the last.
OffsetNextPage(results) == Cardinality(results) >= SrcPageSize

\* Results at the root of the answer, ResultsField "", are no body: the handler is not
\* called, and countResults finds none.
OffsetPages ==
    \/ /\ Reading("pagesOffset")
       /\ LET page == PageAt(RowKeys, srcRead.offset) IN
          StreamPages(OfKeys(page), OffsetNextPage(page),
                      [srcRead EXCEPT !.offset = @ + SrcPageSize])
    \/ Reading("pagesRoot") /\ StreamPages({}, OffsetNextPage({}), srcRead)

\* The cursor as a string; a null in the answer becomes the string "<nil>".
extractNestedString(cursor) ==
    CASE cursor = "absent" -> "" [] cursor = "null" -> "<nil>" [] OTHER -> cursor

CursorNextPage(cursor) == extractNestedString(cursor) # ""

\* The last page has no cursor, or null; what the API makes of "<nil>" is to begin again
\* (or an error, SrcFail).
CursorPages(end) ==
    /\ Reading("pagesCursor")
    /\ LET todo == {k \in RowKeys : Before(srcRead.at, k)}
           page == Page(todo)
           more == page # todo IN
       StreamPages(OfKeys(page), CursorNextPage(IF more THEN "next" ELSE end),
                   [srcRead EXCEPT !.at = IF more THEN LastOf(page) ELSE NoState])

\* The header Link has a rel="next" on every page but the last.
LinkPages == Reading("pagesLink") /\ ListPage

\* The loop also ends when the cursor is the one it had asked with (offset 1: "<nil>").
FetchAllPagesPost(end) ==
    /\ Reading("pagesPost")
    /\ LET todo == {k \in RowKeys : Before(srcRead.at, k)}
           page == Page(todo)
           more == page # todo
           cursor == extractNestedString(IF more THEN "next" ELSE end) IN
       IF cursor = "" \/ (cursor = "<nil>" /\ srcRead.offset = 1)
         THEN EmitLast(OfKeys(page), srcState)
         ELSE Emit(OfKeys(page),
                   [srcRead EXCEPT !.offset = IF more THEN 0 ELSE 1,
                                   !.at = IF more THEN LastOf(page) ELSE NoState])

SourcesNext ==
    \/ \E r \in SrcRows : SrcModify(r)
    \/ SrcTick \/ SrcBegin \/ SrcFail
    \/ SalesforceReadStream \/ HubspotReadViaSearch \/ IntercomReadViaSearch
    \/ GongReadViaPOST \/ ZendeskReadIncremental \/ ChorusReadStream
    \/ ReadSnowflakeStream \/ BigQueryReadStream \/ ReadS3Stream \/ ReadZoomStream
    \/ ReadSubResource
    \/ ZendeskReadFullRefresh \/ IntercomReadViaScroll
    \/ IntercomReadViaCursorPagination \/ GongReadViaGET \/ HubspotReadViaList
    \/ OffsetPages \/ LinkPages
    \/ \E end \in {"absent", "null"} : CursorPages(end) \/ FetchAllPagesPost(end)

SourcesSpec == SourcesInit /\ [][SourcesNext]_srcVars

-----------------------------------------------------------------------------
\* Whether a read that starts from state asks for version v.
Selects(state, v) ==
    \/ srcKind \in FullKinds
    \/ srcKind = "zendesk" /\ Before(state, v)
    \/ srcKind \in StrictKinds \ {"zendesk"} /\ v[1] > state[1]
    \/ srcKind \in {"hubspot", "gong", "zoom"} /\ v[1] >= state[1]

SourcesTypeOK ==
    /\ srcKind \in SrcKinds
    /\ srcTime \in [SrcRows -> 0..SrcMaxTick] /\ srcNow \in 1..SrcMaxTick
    /\ srcState \in (0..SrcMaxTick) \X (SrcRows \union {0})
    /\ srcTicks \subseteq 0..SrcMaxTick
    /\ srcRead.pc \in {"idle", "reading", "done", "failed", "stuck"}
    /\ srcReads \in 0..SrcMaxReads /\ srcQuiet \in BOOLEAN
    /\ srcDelivered \subseteq (1..SrcMaxTick) \X SrcRows

\* No change of the source is lost between two incremental syncs: a version no
\* read has delivered is one the next read, which starts from the saved state,
\* asks for.  Two exceptions are in the code.  A filter that excludes the state's
\* own time (salesforce.go:290, intercom.go:279, snowflake.go:601, ...) misses what has
\* that time and was not read, and a listing by time a change in the tick in which a page
\* of it ends.  And the connectors that page by offset (snowflake.go:618, chorus.go:233),
\* skip objects or lines (s3.go:569, 731, 789) or send a state with every page
\* (zoom.go:672) lose nothing only as long as no row changes during a read and no read
\* fails; Snowflake's only as long, too, as no page and no first partition (snowflake.go:656)
\* ends between two rows of one cursor value, which its ORDER BY leaves open (595).
NothingLost ==
    srcRead.pc # "reading" /\ srcKind \notin FullKinds =>
        \A v \in Versions \ srcDelivered :
            \/ Selects(srcState, v)
            \/ v[1] \in srcTicks
            \/ srcKind \in FragileKinds /\ ~srcQuiet

\* A read that ends without an error has delivered every row its filter selects
\* that was there when it began and was left alone while it ran, whatever else
\* changed.  Except: where pages are cut by offset and any row changed; where an
\* object, lines of it or the children of a Zoom parent (zoom.go:733) were skipped; where
\* BigQuery was slow (bigquery.go:471); where Snowflake answers in several partitions
\* (snowflake.go:656), or its page ends between rows of one cursor value or, in a full
\* refresh, between any two (589, 595, 618); where Intercom repeats the scroll parameter
\* (intercom.go:398); and where the results are at the root of the answers, of which an
\* OffsetPaginator sees none (pagination.go:87, http_client.go:439).
CleanReadIsComplete ==
    srcRead.pc = "done" /\ ~srcRead.missed /\ srcKind # "pagesRoot"
    /\ (srcKind \in OffsetKinds => srcRead.touched = {}) =>
        \A v \in srcRead.there :
            v[2] \notin srcRead.touched /\ Selects(srcRead.from, v) => v \in srcRead.got
=============================================================================
