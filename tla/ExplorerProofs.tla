--------------------------- MODULE ExplorerProofs ---------------------------
(***************************************************************************)
(* The explorers of a profile, on top of what BrowsingProofs shows of its  *)
(* operations, session and events.                                         *)
(*                                                                         *)
(* The Redis explorer, for any keyspace, any number of operations and      *)
(* sessions, and any cap: its card is live, and a list it calls complete   *)
(* holds every key that stayed in the keyspace.  The accumulated list      *)
(* always holds the stable keys before its cursor (Gathered).  A page can  *)
(* only be folded into the list it was asked for, because the request that *)
(* continues a list still has its filter and its cursor when it is         *)
(* answered or retried (Continues): between the two only an event of the   *)
(* same operation, or one that starts a new cycle, changes the list.       *)
(*                                                                         *)
(* The MySQL catalog explorer, for any catalog, page size, caps and number *)
(* of operations: its card is live, the budget is charged for exactly what *)
(* the branches hold and never passed, and a branch shown as complete is.  *)
(* At most one page is outstanding, displaced or not, because an operation *)
(* is only submitted when nothing is under way (OnePageOut).  So a branch  *)
(* is as it was when the page that continues it was asked for (Resumes),   *)
(* and the nodes of a page continue those it holds (Covers).               *)
(***************************************************************************)
EXTENDS RedisExplorer, CatalogExplorer, BrowsingProofs, FiniteSetTheorems, WellFoundedInduction

-----------------------------------------------------------------------------
(* The keyspace of a Redis profile                                         *)


ScanRequests == [filter : Filters, cursor : 0..LastCursor, restart : BOOLEAN, cycle : Nat]
KeyRequests == [key : Keys]
RedisRequests == {NoContent} \cup ScanRequests \cup KeyRequests
KeyPages == [keys : SUBSET Keys, next : 0..LastCursor, truncated : BOOLEAN]
KeyPreviews == [key : Keys, stale : BOOLEAN]
RedisContents == {NoContent} \cup KeyPages \cup KeyPreviews
Scans == [filter : Filters, keys : SUBSET Keys, next : 0..LastCursor,
          requested : BOOLEAN, truncated : BOOLEAN, stale : BOOLEAN]
Explorers == [draft : Filters, scan : Scans, pendingScan : Nat, selected : Keys \cup {NoKey},
              preview : Keys \cup {NoKey}, pendingInspect : Nat, inspectStale : BOOLEAN]

\* What was asked for fits its kind, and what is on its way is an answer to it.
RedisShaped ==
    /\ explorer \in Explorers
    /\ explorer.pendingScan \in {0} \cup Operation /\ explorer.pendingInspect \in {0} \cup Operation
    /\ \A o \in Operation :
         /\ Kind(o) = "scan" => Request(o) \in ScanRequests
         /\ Kind(o) = "inspect" => Request(o) \in KeyRequests
    /\ \A o \in Operation : \A k \in 1..Len(events) :
         events[k].op = o /\ events[k].answer = "loaded" => events[k].content \in Contents(o)

\* A restart begins at cursor 0, and no request is of a cycle still to come.
RequestsOfCycle ==
    \A o \in Operation : Kind(o) = "scan" =>
        /\ Request(o).restart => Request(o).cursor = 0
        /\ Request(o).cycle <= cycle

\* The list holds the stable keys the iteration has passed.
Gathered(scan) ==
    /\ scan.keys \subseteq Matching[scan.filter]
    /\ scan.requested /\ ~scan.truncated =>
         \A k \in (Stable \cap Matching[scan.filter]) \ Oversize :
             scan.next = 0 \/ CursorOf[k] < scan.next => k \in scan.keys

\* The request op continues the list as it is now.
ContinuesWith(op) ==
    Kind(op) = "scan" /\ ~Request(op).restart /\ Request(op).cycle = cycle =>
        /\ explorer.scan.filter = Request(op).filter /\ explorer.scan.next = Request(op).cursor
        /\ explorer.scan.requested

Continues ==
    /\ active # 0 => ContinuesWith(active)
    /\ failed["scan"] # 0 => ContinuesWith(failed["scan"])

RedisInv ==
    /\ BrowseInv(RedisRequests, RedisContents) /\ Recorded /\ RedisShaped /\ RequestsOfCycle
    /\ ~explorer.scan.requested => explorer.scan.keys = {}
    /\ ~adopted => Gathered(explorer.scan) /\ Continues

-----------------------------------------------------------------------------
(* The operators of the scan.                                              *)

\* Capping the list drops none of the keys it has and adds only offered ones.
LEMMA RetainedHolds ==
    ASSUME NEW held, NEW offered, NEW kept \in Retained(held, offered)
    PROVE  held \subseteq kept /\ kept \subseteq held \cup offered
<1>1. kept = held \cup (offered \ held) \/ \E x \in SUBSET (offered \ held) : kept = held \cup x
  BY DEF Retained, kSubset
<1> QED
  BY <1>1

\* A page brings keys the filter matches; when it is not truncated, all the stable ones
\* at its cursor.
LEMMA PageHolds ==
    ASSUME NEW request \in ScanRequests, NEW page \in Pages(request)
    PROVE  /\ page \in KeyPages /\ page.keys \subseteq Matching[request.filter]
           /\ page.next = IF request.cursor = LastCursor THEN 0 ELSE request.cursor + 1
           /\ ~page.truncated => \A k \in Stable \cap Matching[request.filter] :
                                     CursorOf[k] = request.cursor => k \in page.keys
<1> DEFINE matching == Matching[request.filter]
           certain == {k \in matching \cap Stable : CursorOf[k] = request.cursor}
           after == IF request.cursor = LastCursor THEN 0 ELSE request.cursor + 1
<1> DEFINE answers(returned) ==
             {[keys |-> kept, next |-> after, truncated |-> kept # returned] :
                kept \in Retained({}, returned \ Oversize)}
<1>1. PICK returned \in {certain \cup x : x \in SUBSET (matching \ certain)} : page \in answers(returned)
  <2>1. Pages(request) = UNION {answers(returned) : returned \in {certain \cup x : x \in SUBSET (matching \ certain)}}
    BY DEF Pages
  <2> HIDE DEF answers
  <2> QED
    BY <2>1
<1>2. PICK kept \in Retained({}, returned \ Oversize) :
          page = [keys |-> kept, next |-> after, truncated |-> kept # returned]
  BY <1>1
<1>3. certain \subseteq returned /\ returned \subseteq matching
  BY <1>1
<1>4. kept \subseteq returned
  BY <1>2, RetainedHolds
<1>5. matching \subseteq Keys /\ request.cursor \in 0..LastCursor /\ LastCursor \in Nat
  BY KeyspaceAssumption DEF ScanRequests
<1>6. after \in 0..LastCursor
  BY <1>5
<1>7. page.keys = kept /\ page.next = after /\ (page.truncated <=> kept # returned)
  BY <1>2
<1>8. page \in KeyPages
  BY <1>2, <1>3, <1>4, <1>5, <1>6 DEF KeyPages
<1> QED
  BY <1>3, <1>4, <1>7, <1>8

\* A page folded into a list that reaches its cursor.
LEMMA ApplyPageHolds ==
    ASSUME NEW scan \in Scans, NEW request \in ScanRequests, NEW page \in Pages(request),
           NEW after \in ApplyPage(scan, page)
    PROVE  /\ after \in Scans /\ after.requested
           /\ /\ scan.filter = request.filter /\ Gathered(scan)
              /\ \/ scan.requested /\ scan.next = request.cursor
                 \/ request.cursor = 0
              => Gathered(after)
<1>1. PICK kept \in Retained(scan.keys, page.keys) :
          after = [scan EXCEPT !.requested = TRUE, !.next = page.next, !.keys = kept,
                               !.truncated = scan.truncated \/ page.truncated \/ ~(page.keys \subseteq kept)]
  BY DEF ApplyPage
<1>2. scan.keys \subseteq kept /\ kept \subseteq scan.keys \cup page.keys
  BY <1>1, RetainedHolds
<1>3. /\ page \in KeyPages /\ page.keys \subseteq Matching[request.filter]
      /\ page.next = IF request.cursor = LastCursor THEN 0 ELSE request.cursor + 1
      /\ ~page.truncated => \A k \in Stable \cap Matching[request.filter] :
                                CursorOf[k] = request.cursor => k \in page.keys
  BY PageHolds
<1> DEFINE cut == scan.truncated \/ page.truncated \/ ~(page.keys \subseteq kept)
<1>4. cut \in BOOLEAN
  OBVIOUS
<1>5. kept \in SUBSET Keys
  BY <1>2, <1>3 DEF Scans, KeyPages
<1>6. /\ after \in Scans /\ after.requested /\ after.filter = scan.filter
      /\ after.next = page.next /\ after.keys = kept /\ after.truncated = cut
  <2>1. after = [scan EXCEPT !.requested = TRUE, !.next = page.next, !.keys = kept, !.truncated = cut]
    BY <1>1
  <2> HIDE DEF cut
  <2> QED
    BY <1>3, <1>4, <1>5, <2>1 DEF Scans, KeyPages
<1>7. ASSUME scan.filter = request.filter, Gathered(scan),
             (scan.requested /\ scan.next = request.cursor) \/ request.cursor = 0
      PROVE  Gathered(after)
  <2>1. after.keys \subseteq Matching[after.filter]
    BY <1>2, <1>3, <1>6, <1>7 DEF Gathered
  <2>2. ASSUME ~after.truncated, NEW k \in (Stable \cap Matching[after.filter]) \ Oversize,
               after.next = 0 \/ CursorOf[k] < after.next
        PROVE  k \in after.keys
    <3>1. ~scan.truncated /\ ~page.truncated /\ page.keys \subseteq kept
      BY <1>6, <2>2
    <3>2. CursorOf[k] \in 0..LastCursor /\ request.cursor \in 0..LastCursor /\ LastCursor \in Nat
      BY KeyspaceAssumption, <2>2 DEF ScanRequests
    <3>3. CursorOf[k] <= request.cursor
      BY <1>3, <1>6, <2>2, <3>2
    <3>4. CASE CursorOf[k] = request.cursor
      BY <1>3, <1>6, <1>7, <2>2, <3>1, <3>4
    <3>5. CASE CursorOf[k] < request.cursor
      <4>1. scan.requested /\ scan.next = request.cursor
        BY <1>7, <3>2, <3>5
      <4>2. k \in scan.keys
        BY <1>6, <1>7, <2>2, <3>1, <3>5, <4>1 DEF Gathered
      <4> QED
        BY <1>2, <1>6, <4>2
    <3> QED
      BY <3>2, <3>3, <3>4, <3>5
  <2> QED
    BY <2>1, <2>2 DEF Gathered
<1> QED
  BY <1>6, <1>7

-----------------------------------------------------------------------------
(* The steps.                                                              *)

\* What a request is answered with depends on the request alone.
LEMMA ContentsStay ==
    ASSUME NEW o, operations'[o].kind = operations[o].kind, operations'[o].request = operations[o].request
    PROVE  Contents(o)' = Contents(o)
BY DEF Contents, Kind, Request

\* The explorer starts with an empty list.
LEMMA NewExplorerHolds ==
    /\ NewExplorer \in Explorers /\ NewExplorer.scan = NewScan(EmptyFilter)
    /\ NewExplorer.pendingScan = 0 /\ NewExplorer.pendingInspect = 0
    /\ \A filter \in Filters :
         /\ NewScan(filter) \in Scans /\ NewScan(filter).filter = filter
         /\ ~NewScan(filter).requested /\ NewScan(filter).keys = {} /\ Gathered(NewScan(filter))
<1>1. \A filter \in Filters :
         /\ NewScan(filter) \in Scans /\ NewScan(filter).filter = filter
         /\ ~NewScan(filter).requested /\ NewScan(filter).keys = {} /\ Gathered(NewScan(filter))
  BY KeyspaceAssumption DEF NewScan, Scans, Gathered
<1> QED
  BY <1>1, KeyspaceAssumption DEF NewExplorer, Explorers

LEMMA RedisStarts ==
    ASSUME Init
    PROVE  RedisInv
<1>1. BrowsingInit /\ explorer = NewExplorer
  BY DEF Init
<1>2. BrowseInv(RedisRequests, RedisContents) /\ Recorded
  BY <1>1, BrowseStarts, RecordStarts
<1>3. Operation = {} /\ Len(events) = 0 /\ active = 0 /\ failed["scan"] = 0
  BY <1>1 DEF BrowsingInit, Operation, BrowseKinds
<1>4. EmptyFilter \in Filters
  BY KeyspaceAssumption
<1>5. /\ explorer \in Explorers /\ explorer.pendingScan = 0 /\ explorer.pendingInspect = 0
      /\ explorer.scan.keys = {} /\ Gathered(explorer.scan)
  BY <1>1, <1>4, NewExplorerHolds
<1> QED
  BY <1>2, <1>3, <1>5 DEF RedisInv, RedisShaped, RequestsOfCycle, Continues

\* A step of a task, whose answer is one the driver gives to the request.
LEMMA RedisTask ==
    ASSUME RedisInv, NEW op \in Operation, BrowseInv(RedisRequests, RedisContents)', TaskFrame,
           Sends(op, Contents(op)), explorer' = explorer
    PROVE  RedisInv'
<1>1. Operation' = Operation /\ UNCHANGED <<active, failed, cycle, adopted>>
  BY DEF TaskFrame, Operation
<1>2. /\ \A o \in Operation : operations'[o].kind = operations[o].kind /\ operations'[o].request = operations[o].request
      /\ \A o \in Operation : Contents(o)' = Contents(o)
  BY ContentsStay DEF TaskFrame
<1>3. Recorded'
  BY RecordStays DEF RedisInv
<1>4. ASSUME NEW o \in Operation, NEW k \in 1..Len(events'), events'[k].op = o, events'[k].answer = "loaded"
      PROVE  events'[k].content \in Contents(o)
  <2>1. CASE events' = events
    BY <1>4, <2>1 DEF RedisInv, RedisShaped
  <2>2. ASSUME NEW e, events' = Append(events, e), e.op = op, e.answer = "loaded" => e.content \in Contents(op)
        PROVE  events'[k].content \in Contents(o)
    <3>1. /\ Len(events) \in Nat /\ Len(events') = Len(events) + 1 /\ events'[Len(events) + 1] = e
          /\ \A j \in 1..Len(events) : events'[j] = events[j]
      BY <2>2 DEF RedisInv, BrowseInv, Shaped
    <3>2. CASE k = Len(events) + 1
      BY <1>4, <2>2, <3>1, <3>2
    <3>3. CASE k \in 1..Len(events)
      BY <1>4, <3>1, <3>3 DEF RedisInv, RedisShaped
    <3> QED
      BY <3>1, <3>2, <3>3
  <2> QED
    BY <2>1, <2>2 DEF Sends
<1>5. RedisShaped'
  <2>1. \A o \in Operation' : \A k \in 1..Len(events') :
           events'[k].op = o /\ events'[k].answer = "loaded" => events'[k].content \in Contents(o)'
    BY <1>1, <1>2, <1>4
  <2>2. \A o \in Operation' :
           /\ Kind(o)' = "scan" => Request(o)' \in ScanRequests
           /\ Kind(o)' = "inspect" => Request(o)' \in KeyRequests
    BY <1>1, <1>2 DEF RedisInv, RedisShaped, Kind, Request
  <2> QED
    BY <1>1, <2>1, <2>2 DEF RedisInv, RedisShaped
<1>6. RequestsOfCycle'
  BY <1>1, <1>2 DEF RedisInv, RequestsOfCycle, Kind, Request
<1>7. ~adopted => Gathered(explorer.scan)' /\ Continues'
  <2>1. active \in {0} \cup Operation /\ failed["scan"] \in {0} \cup Operation
    BY DEF RedisInv, BrowseInv, Shaped, Operation, Recorded, BrowseKinds
  <2> QED
    BY <1>1, <1>2, <2>1 DEF RedisInv, Continues, ContinuesWith, Kind, Request, Gathered
<1> QED
  BY <1>1, <1>3, <1>5, <1>6, <1>7 DEF RedisInv

\* A submission: a scan restarts, or continues the list as it is.
LEMMA RedisSubmit ==
    ASSUME RedisInv, NEW kind, NEW request, Submitted(kind, request),
           BrowseInv(RedisRequests, RedisContents)', Recorded',
           explorer' \in Explorers, explorer'.scan = explorer.scan,
           explorer'.pendingScan \in {explorer.pendingScan, Len(operations) + 1},
           explorer'.pendingInspect \in {explorer.pendingInspect, Len(operations) + 1},
           kind = "inspect" => request \in KeyRequests,
           kind = "scan" =>
             /\ request \in ScanRequests /\ request.cycle <= cycle
             /\ request.restart => request.cursor = 0
             /\ ~adopted /\ ~request.restart /\ request.cycle = cycle =>
                  /\ explorer.scan.filter = request.filter /\ explorer.scan.next = request.cursor
                  /\ explorer.scan.requested
    PROVE  RedisInv'
<1> DEFINE n == Len(operations) + 1
<1>1. /\ Len(operations) \in Nat /\ Operation' = Operation \cup {n} /\ n \notin Operation /\ active' = n
      /\ UNCHANGED <<events, failed, cycle, adopted>>
  BY DEF RedisInv, BrowseInv, Shaped, Submitted, Operation
<1>2. /\ \A o \in Operation : operations'[o] = operations[o]
      /\ operations'[n].kind = kind /\ operations'[n].request = request
  BY DEF Submitted
<1>3. \A o \in Operation : Contents(o)' = Contents(o)
  BY <1>2, ContentsStay
<1> HIDE DEF n
<1>4. RedisShaped'
  <2>1. \A o \in Operation' : \A k \in 1..Len(events') :
           events'[k].op = o /\ events'[k].answer = "loaded" => events'[k].content \in Contents(o)'
    <3>1. \A k \in 1..Len(events) : events[k].op \in Operation
      BY DEF RedisInv, BrowseInv, ActiveAnswersLast
    <3> QED
      BY <1>1, <1>3, <3>1 DEF RedisInv, RedisShaped
  <2>2. \A o \in Operation' :
           /\ Kind(o)' = "scan" => Request(o)' \in ScanRequests
           /\ Kind(o)' = "inspect" => Request(o)' \in KeyRequests
    BY <1>1, <1>2 DEF RedisInv, RedisShaped, Kind, Request
  <2>3. explorer'.pendingScan \in {0} \cup Operation' /\ explorer'.pendingInspect \in {0} \cup Operation'
    BY <1>1 DEF RedisInv, RedisShaped, n
  <2> QED
    BY <2>1, <2>2, <2>3 DEF RedisShaped
<1>5. RequestsOfCycle'
  BY <1>1, <1>2 DEF RedisInv, RequestsOfCycle, Kind, Request
<1>6. ASSUME ~adopted PROVE Gathered(explorer.scan)' /\ Continues'
  <2>1. Gathered(explorer.scan) /\ Continues
    BY <1>6 DEF RedisInv
  <2>2. failed["scan"] \in {0} \cup Operation
    BY DEF RedisInv, Recorded, BrowseKinds
  <2>3. failed["scan"] # 0 => ContinuesWith(failed["scan"])'
    BY <1>1, <1>2, <2>1, <2>2 DEF Continues, ContinuesWith, Kind, Request
  <2>4. ContinuesWith(active)'
    BY <1>1, <1>2, <1>6 DEF ContinuesWith, Kind, Request
  <2> QED
    BY <1>1, <2>1, <2>3, <2>4 DEF Continues, Gathered
<1> QED
  BY <1>1, <1>4, <1>5, <1>6 DEF RedisInv

\* A step of the user alone: the list stays.
LEMMA RedisLocal ==
    ASSUME RedisInv, UNCHANGED <<operations, active, conn, session, sessions, events, cycle, adopted>>,
           recipes' \subseteq recipes, failed' = failed \/ \E k \in BrowseKinds : failed' = [failed EXCEPT ![k] = 0],
           explorer' \in Explorers, explorer'.scan = explorer.scan,
           explorer'.pendingScan = explorer.pendingScan, explorer'.pendingInspect = explorer.pendingInspect
    PROVE  RedisInv'
<1>1. BrowseInv(RedisRequests, RedisContents)'
  BY BrowseStays DEF RedisInv
<1>2. Operation' = Operation
  BY DEF Operation
<1>3. failed' \in [BrowseKinds -> Nat] /\ \A k \in BrowseKinds : failed'[k] \in {0, failed[k]}
  BY DEF RedisInv, Recorded
<1>4. Recorded'
  BY <1>2, <1>3 DEF RedisInv, Recorded, Kind
<1>5. RedisShaped'
  <2>1. \A o \in Operation : Contents(o)' = Contents(o)
    BY ContentsStay
  <2> QED
    BY <1>2, <2>1 DEF RedisInv, RedisShaped, Kind, Request
<1>6. RequestsOfCycle'
  BY <1>2 DEF RedisInv, RequestsOfCycle, Kind, Request
<1>7. ASSUME ~adopted PROVE Gathered(explorer.scan)' /\ Continues'
  <2>1. failed'["scan"] \in {0, failed["scan"]}
    BY <1>3 DEF BrowseKinds
  <2>2. Gathered(explorer.scan) /\ Continues
    BY <1>7 DEF RedisInv
  <2> QED
    BY <2>1, <2>2 DEF Continues, ContinuesWith, Kind, Request, Gathered
<1> QED
  BY <1>1, <1>4, <1>5, <1>6, <1>7 DEF RedisInv

LEMMA ScanSubmits ==
    ASSUME RedisInv, NEW request \in ScanRequests, NEW known \in SUBSET recipes, SubmitScan(request, known),
           request.cycle <= cycle, request.restart => request.cursor = 0,
           ~adopted /\ ~request.restart /\ request.cycle = cycle =>
             /\ explorer.scan.filter = request.filter /\ explorer.scan.next = request.cursor
             /\ explorer.scan.requested
    PROVE  RedisInv'
<1>1. SubmitBrowse("scan", request, known) /\ explorer' = [explorer EXCEPT !.pendingScan = Len(operations) + 1]
  BY DEF SubmitScan
<1>2. BrowseInv(RedisRequests, RedisContents) /\ Recorded /\ explorer \in Explorers
  BY DEF RedisInv, RedisShaped
<1>3. "scan" \in BrowseKinds /\ request \in RedisRequests
  BY DEF BrowseKinds, RedisRequests
<1>4. BrowseInv(RedisRequests, RedisContents)' /\ Recorded' /\ Submitted("scan", request)
  BY <1>1, <1>2, <1>3, BrowseSubmits
<1>5. Len(operations) \in Nat
  BY <1>2 DEF BrowseInv, Shaped
<1>6. /\ explorer' \in Explorers /\ explorer'.scan = explorer.scan
      /\ explorer'.pendingScan = Len(operations) + 1
      /\ explorer'.pendingInspect = explorer.pendingInspect
  BY <1>1, <1>2, <1>5 DEF Explorers
<1> QED
  BY <1>4, <1>6, RedisSubmit

LEMMA InspectSubmits ==
    ASSUME RedisInv, NEW key \in Keys, NEW known \in SUBSET recipes, SubmitInspect(key, known)
    PROVE  RedisInv'
<1>1. /\ SubmitBrowse("inspect", InspectRequest(key), known)
      /\ explorer' = [explorer EXCEPT !.pendingInspect = Len(operations) + 1]
  BY DEF SubmitInspect
<1>2. BrowseInv(RedisRequests, RedisContents) /\ Recorded /\ explorer \in Explorers
  BY DEF RedisInv, RedisShaped
<1>3. "inspect" \in BrowseKinds /\ InspectRequest(key) \in KeyRequests /\ InspectRequest(key) \in RedisRequests
  BY DEF BrowseKinds, RedisRequests, InspectRequest, KeyRequests
<1>4. BrowseInv(RedisRequests, RedisContents)' /\ Recorded' /\ Submitted("inspect", InspectRequest(key))
  BY <1>1, <1>2, <1>3, BrowseSubmits
<1>5. Len(operations) \in Nat
  BY <1>2 DEF BrowseInv, Shaped
<1>6. /\ explorer' \in Explorers /\ explorer'.scan = explorer.scan
      /\ explorer'.pendingInspect = Len(operations) + 1
      /\ explorer'.pendingScan = explorer.pendingScan
  BY <1>1, <1>2, <1>5 DEF Explorers
<1> QED
  BY <1>3, <1>4, <1>6, RedisSubmit

\* The shown failure of a kind is a request of that kind, which Retry may submit again.
LEMMA FailureIsRequest ==
    ASSUME RedisInv, NEW kind \in BrowseKinds, failed[kind] # 0
    PROVE  /\ failed[kind] \in Operation /\ Kind(failed[kind]) = kind
           /\ kind = "scan" =>
                /\ Request(failed[kind]) \in ScanRequests /\ Request(failed[kind]).cycle <= cycle
                /\ Request(failed[kind]).restart => Request(failed[kind]).cursor = 0
                /\ ~adopted => ContinuesWith(failed[kind])
           /\ kind = "inspect" => Request(failed[kind]).key \in Keys
<1>1. failed[kind] \in Operation /\ Kind(failed[kind]) = kind
  BY DEF RedisInv, Recorded
<1> QED
  BY <1>1 DEF RedisInv, RedisShaped, RequestsOfCycle, Continues, KeyRequests

LEMMA RedisRetries ==
    ASSUME RedisInv, NEW kind \in {"scan", "inspect"}, Retry(kind)
    PROVE  RedisInv'
<1>1. failed[kind] \in recipes /\ kind \in BrowseKinds /\ failed[kind] # 0
  BY DEF Retry, RedisInv, Recorded, BrowseKinds, Operation
<1>2. CASE recipes' = recipes \ {failed[kind]}
           /\ UNCHANGED <<operations, active, conn, failed, session, sessions, events, cycle, adopted, explorer>>
  <2>1. explorer' \in Explorers /\ recipes' \subseteq recipes
    BY <1>2 DEF RedisInv, RedisShaped
  <2> QED
    BY <1>2, <2>1, RedisLocal
<1>3. CASE kind = "scan" /\ SubmitScan(Request(failed[kind]), recipes \ {failed[kind]})
  <2> DEFINE r == Request(failed["scan"])
             known == recipes \ {failed["scan"]}
  <2>1. /\ r \in ScanRequests /\ r.cycle <= cycle /\ (r.restart => r.cursor = 0)
        /\ ~adopted /\ ~r.restart /\ r.cycle = cycle =>
             /\ explorer.scan.filter = r.filter /\ explorer.scan.next = r.cursor
             /\ explorer.scan.requested
    BY <1>1, <1>3, FailureIsRequest DEF ContinuesWith
  <2>2. SubmitScan(r, known) /\ known \in SUBSET recipes
    BY <1>3
  <2> HIDE DEF r, known
  <2> QED
    BY <2>1, <2>2, ScanSubmits
<1>4. CASE kind = "inspect" /\ SubmitInspect(Request(failed[kind]).key, recipes \ {failed[kind]})
  <2> DEFINE key == Request(failed["inspect"]).key
             known == recipes \ {failed["inspect"]}
  <2>1. key \in Keys /\ SubmitInspect(key, known) /\ known \in SUBSET recipes
    BY <1>1, <1>4, FailureIsRequest
  <2> HIDE DEF key, known
  <2> QED
    BY <2>1, InspectSubmits
<1> QED
  BY <1>2, <1>3, <1>4 DEF Retry

\* Whatever the user does keeps the invariant.
LEMMA RedisUser ==
    ASSUME RedisInv, UserStep
    PROVE  RedisInv'
<1>1. /\ BrowseInv(RedisRequests, RedisContents) /\ Recorded /\ explorer \in Explorers /\ explorer.scan \in Scans
      /\ explorer.pendingScan \in {0} \cup Operation /\ explorer.pendingInspect \in {0} \cup Operation
      /\ cycle \in Nat /\ NoContent \in RedisRequests
  BY DEF RedisInv, RedisShaped, Recorded, Explorers, RedisRequests
<1>2. ASSUME NEW filter \in Filters, EditFilter(filter) PROVE RedisInv'
  <2>1. explorer' = [explorer EXCEPT !.draft = filter] /\ UNCHANGED browseVars
    BY <1>2 DEF EditFilter
  <2>2. /\ explorer' \in Explorers /\ explorer'.scan = explorer.scan
        /\ explorer'.pendingScan = explorer.pendingScan /\ explorer'.pendingInspect = explorer.pendingInspect
    BY <1>1, <1>2, <2>1 DEF Explorers
  <2> QED
    BY <2>1, <2>2, RedisLocal DEF browseVars
<1>3. CASE Refresh
  <2> DEFINE r == ScanRequest(explorer.draft, 0, TRUE)
  <2>1. r \in ScanRequests /\ r.cycle <= cycle /\ r.cursor = 0 /\ r.restart
    BY <1>1, KeyspaceAssumption DEF ScanRequest, ScanRequests, Explorers
  <2>2. SubmitScan(r, recipes) /\ recipes \in SUBSET recipes
    BY <1>3 DEF Refresh
  <2> HIDE DEF r
  <2> QED
    BY <2>1, <2>2, ScanSubmits
<1>4. CASE LoadMore
  <2> DEFINE r == ScanRequest(explorer.scan.filter, explorer.scan.next, FALSE)
  <2>1. /\ r \in ScanRequests /\ r.cycle <= cycle /\ ~r.restart
        /\ explorer.scan.filter = r.filter /\ explorer.scan.next = r.cursor
    BY <1>1 DEF ScanRequest, ScanRequests, Scans
  <2>2. SubmitScan(r, recipes) /\ recipes \in SUBSET recipes /\ explorer.scan.requested
    BY <1>4 DEF LoadMore, RedisInv
  <2> HIDE DEF r
  <2> QED
    BY <2>1, <2>2, ScanSubmits
<1>5. CASE InspectSelected
  <2>1. explorer.selected \in Keys /\ SubmitInspect(explorer.selected, recipes) /\ recipes \in SUBSET recipes
    BY <1>1, <1>5 DEF InspectSelected, Explorers
  <2> QED
    BY <2>1, InspectSubmits
<1>6. CASE Cancel
  <2>1. PICK op \in {explorer.pendingScan, explorer.pendingInspect} \ {0} : CancelBrowse(op) /\ explorer' = explorer
    BY <1>6 DEF Cancel
  <2>2. op \in Operation
    BY <1>1, <2>1
  <2>3. BrowseInv(RedisRequests, RedisContents)' /\ TaskFrame /\ Sends(op, Contents(op))
    BY <1>1, <2>1, <2>2, BrowseCancels
  <2> QED
    BY <2>1, <2>2, <2>3, RedisTask
<1>7. CASE RestartScan
  <2> DEFINE r == ScanRequest(Request(failed["scan"]).filter, 0, TRUE)
  <2>1. Request(failed["scan"]) \in ScanRequests
    BY <1>7, FailureIsRequest DEF RestartScan, BrowseKinds
  <2>2. r \in ScanRequests /\ r.cycle <= cycle /\ r.cursor = 0 /\ r.restart
    BY <1>1, <2>1, KeyspaceAssumption DEF ScanRequest, ScanRequests
  <2>3. SubmitScan(r, recipes) /\ recipes \in SUBSET recipes
    BY <1>7 DEF RestartScan
  <2> HIDE DEF r
  <2> QED
    BY <2>2, <2>3, ScanSubmits
<1>8. ASSUME NEW key \in Selectable, SelectKey(key) PROVE RedisInv'
  <2>1. /\ explorer' = [explorer EXCEPT !.selected = key, !.preview = NoKey, !.inspectStale = FALSE]
        /\ UNCHANGED browseVars
    BY <1>8 DEF SelectKey
  <2>2. /\ explorer' \in Explorers /\ explorer'.scan = explorer.scan
        /\ explorer'.pendingScan = explorer.pendingScan /\ explorer'.pendingInspect = explorer.pendingInspect
    BY <1>1, <1>8, <2>1, KeyspaceAssumption DEF Explorers
  <2> QED
    BY <2>1, <2>2, RedisLocal DEF browseVars
<1>9. ASSUME NEW kind \in {"scan", "inspect"}, Dismiss(kind) PROVE RedisInv'
  <2>1. /\ recipes' \subseteq recipes /\ failed' = [failed EXCEPT ![kind] = 0] /\ kind \in BrowseKinds
        /\ explorer' \in Explorers
        /\ UNCHANGED <<operations, active, conn, session, sessions, events, cycle, adopted, explorer>>
    BY <1>1, <1>9 DEF Dismiss, BrowseKinds
  <2> QED
    BY <2>1, RedisLocal
<1>10. ASSUME NEW kind, SubmitConnect(kind), explorer' = explorer PROVE RedisInv'
  <2>1. BrowseInv(RedisRequests, RedisContents)' /\ Recorded' /\ Submitted(kind, NoContent)
    BY <1>1, <1>10, ConnectSubmits
  <2>2. kind # "scan" /\ kind # "inspect" /\ explorer' \in Explorers
    BY <1>1, <1>10 DEF SubmitConnect
  <2> QED
    BY <1>10, <2>1, <2>2, RedisSubmit
<1>11. CASE SubmitDisconnect /\ UNCHANGED explorer
  <2>1. BrowseInv(RedisRequests, RedisContents)' /\ Recorded' /\ Submitted("disconnect", NoContent)
    BY <1>1, <1>11, DisconnectSubmits
  <2>2. "disconnect" # "scan" /\ "disconnect" # "inspect" /\ explorer' \in Explorers
    BY <1>1, <1>11
  <2> QED
    BY <1>11, <2>1, <2>2, RedisSubmit
<1> QED
  BY <1>2, <1>3, <1>4, <1>5, <1>6, <1>7, <1>8, <1>9, <1>10, <1>11, RedisRetries DEF UserStep

-----------------------------------------------------------------------------
(* The window takes an event.                                              *)

LEMMA RedisTaken ==
    ASSUME RedisInv, events # <<>>, events' = Tail(events), UNCHANGED operations,
           BrowseInv(RedisRequests, RedisContents)', Recorded', explorer' \in Explorers,
           explorer'.pendingScan \in {0, explorer.pendingScan},
           explorer'.pendingInspect \in {0, explorer.pendingInspect},
           cycle' \in {cycle, cycle + 1}, ~explorer'.scan.requested => explorer'.scan.keys = {},
           ~adopted' => Gathered(explorer'.scan) /\ Continues'
    PROVE  RedisInv'
<1>1. Operation' = Operation /\ cycle \in Nat
  BY DEF Operation, RedisInv, Recorded
<1>2. \A o \in Operation : Contents(o)' = Contents(o)
  BY ContentsStay
<1>3. \A k \in 1..Len(events') : events'[k] = events[k + 1] /\ k + 1 \in 1..Len(events)
  BY NextEvent DEF RedisInv
<1>4. RedisShaped'
  <2>1. \A o \in Operation' : \A k \in 1..Len(events') :
           events'[k].op = o /\ events'[k].answer = "loaded" => events'[k].content \in Contents(o)'
    BY <1>1, <1>2, <1>3 DEF RedisInv, RedisShaped
  <2>2. \A o \in Operation' :
           /\ Kind(o)' = "scan" => Request(o)' \in ScanRequests
           /\ Kind(o)' = "inspect" => Request(o)' \in KeyRequests
    BY <1>1 DEF RedisInv, RedisShaped, Kind, Request
  <2> QED
    BY <1>1, <2>1, <2>2 DEF RedisInv, RedisShaped
<1>5. RequestsOfCycle'
  <2>1. \A o \in Operation : Kind(o) = "scan" => Request(o).cycle \in Nat
    BY DEF RedisInv, RedisShaped, ScanRequests
  <2> QED
    BY <1>1, <2>1 DEF RedisInv, RequestsOfCycle, Kind, Request
<1> QED
  BY <1>4, <1>5 DEF RedisInv

\* The page of the active scan, folded into its list.
LEMMA KeysLoadedHolds ==
    ASSUME RedisInv, NEW e, e.op \in Operation, e.op = active, active # 0, Kind(e.op) = "scan",
           e.content \in Pages(Request(e.op)), NEW x \in KeysLoaded(e)
    PROVE  /\ x \in Explorers /\ x.pendingScan \in {0, explorer.pendingScan}
           /\ x.pendingInspect \in {0, explorer.pendingInspect}
           /\ ~x.scan.requested => x.scan.keys = {}
           /\ ~adopted /\ ~(explorer.pendingScan = e.op /\ ~Request(e.op).restart /\ Request(e.op).cycle # cycle)
                => Gathered(x.scan)
<1> DEFINE r == Request(e.op)
<1>1. /\ explorer \in Explorers /\ explorer.scan \in Scans /\ r \in ScanRequests
      /\ ~explorer.scan.requested => explorer.scan.keys = {}
      /\ ~adopted => Gathered(explorer.scan) /\ ContinuesWith(active)
      /\ r.restart => r.cursor = 0
  BY DEF RedisInv, RedisShaped, Continues, RequestsOfCycle, Explorers
<1>2. CASE explorer.pendingScan # e.op
  BY <1>1, <1>2 DEF KeysLoaded
<1>3. CASE explorer.pendingScan = e.op
  <2> DEFINE base == [explorer EXCEPT !.pendingScan = 0]
             fresh == [base EXCEPT !.scan = NewScan(r.filter), !.selected = NoKey,
                                   !.preview = NoKey, !.pendingInspect = 0, !.inspectStale = FALSE]
             from == IF r.restart THEN fresh ELSE base
  <2>1. PICK scan \in ApplyPage(from.scan, e.content) : x = [from EXCEPT !.scan = scan]
    BY <1>3 DEF KeysLoaded
  <2>2. /\ NewScan(r.filter) \in Scans /\ NewScan(r.filter).filter = r.filter /\ Gathered(NewScan(r.filter))
    BY <1>1, NewExplorerHolds DEF ScanRequests
  <2>3. /\ base \in Explorers /\ base.scan = explorer.scan /\ base.pendingScan = 0
        /\ base.pendingInspect = explorer.pendingInspect
    BY <1>1 DEF Explorers
  <2>4. /\ fresh \in Explorers /\ fresh.scan = NewScan(r.filter) /\ fresh.pendingScan = 0
        /\ fresh.pendingInspect = 0
    BY <2>2, <2>3 DEF Explorers
  <2> HIDE DEF base, fresh
  <2>5. /\ from \in Explorers /\ from.scan = IF r.restart THEN NewScan(r.filter) ELSE explorer.scan
        /\ from.pendingScan = 0 /\ from.pendingInspect \in {0, explorer.pendingInspect}
    BY <2>3, <2>4
  <2> HIDE DEF from
  <2>6. from.scan \in Scans
    BY <1>1, <2>2, <2>5
  <2>7. /\ scan \in Scans /\ scan.requested
        /\ /\ from.scan.filter = r.filter /\ Gathered(from.scan)
           /\ \/ from.scan.requested /\ from.scan.next = r.cursor
              \/ r.cursor = 0
           => Gathered(scan)
    BY <1>1, <2>1, <2>6, ApplyPageHolds
  <2>8. /\ x \in Explorers /\ x.scan = scan /\ x.pendingScan = 0
        /\ x.pendingInspect \in {0, explorer.pendingInspect}
    BY <2>1, <2>5, <2>7 DEF Explorers
  <2>9. ASSUME ~adopted, r.restart \/ r.cycle = cycle PROVE Gathered(scan)
    <3>1. CASE r.restart
      BY <1>1, <2>2, <2>5, <2>7, <3>1
    <3>2. CASE ~r.restart
      <4>1. /\ explorer.scan.filter = r.filter /\ explorer.scan.next = r.cursor
            /\ explorer.scan.requested /\ Gathered(explorer.scan)
        BY <1>1, <2>9, <3>2 DEF ContinuesWith
      <4> QED
        BY <2>5, <2>7, <3>2, <4>1
    <3> QED
      BY <3>1, <3>2
  <2> QED
    BY <1>3, <2>7, <2>8, <2>9
<1> QED
  BY <1>2, <1>3

\* Every other event of a browse leaves the keys, the cursor and the filter of the list.
LEMMA OtherAfter ==
    ASSUME RedisInv, NEW e, e.op \in Operation, ~(e.answer = "loaded" /\ Kind(e.op) = "scan"),
           e.answer = "loaded" => e.content \in Contents(e.op), NEW x \in ExplorerAfter(e)
    PROVE  /\ x \in Explorers /\ x.pendingScan \in {0, explorer.pendingScan}
           /\ x.pendingInspect \in {0, explorer.pendingInspect}
           /\ x.scan = explorer.scan \/ x.scan = [explorer.scan EXCEPT !.stale = TRUE]
<1>1. explorer \in Explorers /\ explorer.scan \in Scans
  BY DEF RedisInv, RedisShaped, Explorers
<1>2. [explorer.scan EXCEPT !.stale = TRUE] \in Scans
  BY <1>1 DEF Scans
<1>3. CASE e.answer = "failed" /\ Kind(e.op) = "scan"
  <2>1. x = KeysFailed(e)
    BY <1>3 DEF ExplorerAfter
  <2>2. x = explorer \/ x = [explorer EXCEPT !.pendingScan = 0, !.scan = [explorer.scan EXCEPT !.stale = TRUE]]
    BY <1>1, <2>1 DEF KeysFailed, Explorers
  <2>3. CASE x = explorer
    BY <1>1, <2>3
  <2>4. CASE x = [explorer EXCEPT !.pendingScan = 0, !.scan = [explorer.scan EXCEPT !.stale = TRUE]]
    BY <1>1, <1>2, <2>4 DEF Explorers
  <2> QED
    BY <2>2, <2>3, <2>4
<1>4. CASE e.answer = "loaded" /\ Kind(e.op) = "inspect"
  <2>1. x = KeyInspected(e)
    BY <1>4 DEF ExplorerAfter
  <2>2. Request(e.op) \in KeyRequests
    BY <1>4 DEF RedisInv, RedisShaped
  <2>3. e.content = [key |-> Request(e.op).key, stale |-> FALSE]
    BY <1>4 DEF Contents
  <2>4. e.content.key \in Keys /\ e.content.stale \in BOOLEAN
    BY <2>2, <2>3 DEF KeyRequests
  <2> QED
    BY <1>1, <2>1, <2>4 DEF KeyInspected, Explorers
<1>5. CASE ~(e.answer = "failed" /\ Kind(e.op) = "scan") /\ ~(e.answer = "loaded" /\ Kind(e.op) = "inspect")
  <2>1. x = KeyInspectFailed(e)
    BY <1>5 DEF ExplorerAfter
  <2> DEFINE shown == explorer.preview # NoKey
  <2>2. shown \in BOOLEAN
    OBVIOUS
  <2>3. x = explorer \/ x = [explorer EXCEPT !.pendingInspect = 0, !.inspectStale = shown]
    BY <2>1 DEF KeyInspectFailed
  <2> HIDE DEF shown
  <2>4. CASE x = explorer
    BY <1>1, <2>4
  <2>5. CASE x = [explorer EXCEPT !.pendingInspect = 0, !.inspectStale = shown]
    BY <1>1, <2>2, <2>5 DEF Explorers
  <2> QED
    BY <2>3, <2>4, <2>5
<1> QED
  BY <1>3, <1>4, <1>5

\* The answer of the active browse, from the session of the card.
LEMMA RedisApplies ==
    ASSUME RedisInv, events # <<>>, NEW e, e = Head(events), events' = Tail(events),
           UNCHANGED <<operations, session, sessions>>, Kind(e.op) \in BrowseKinds, ApplyRedisEvent(e)
    PROVE  RedisInv'
<1> DEFINE scanned == e.answer = "loaded" /\ Kind(e.op) = "scan"
<1>1. BrowseInv(RedisRequests, RedisContents) /\ Recorded /\ explorer \in Explorers
  BY DEF RedisInv, RedisShaped
<1>2. /\ Len(events) \in Nat \ {0} /\ e = events[1] /\ e \in AnswersOf(RedisContents) /\ e.op \in Operation
      /\ e.op \in Nat \ {0} /\ conn.state # "Pending"
      /\ e.op = active /\ active' = 0
      /\ conn \in ConnectionStates /\ Connected(e.session) \in ConnectionStates
      /\ Disconnected \in ConnectionStates
  BY <1>1, NextEvent DEF ApplyRedisEvent
<1>3. BrowseInv(RedisRequests, RedisContents)'
  <2>1. active' = Finished(e.op) /\ conn' \in ConnectionStates
    BY <1>2 DEF ApplyRedisEvent, Finished, SessionTruth
  <2>2. \/ conn' = Disconnected
        \/ conn' = Connected(e.session) /\ e.disposition = "Keep"
        \/ conn' = conn /\ conn.state # "Pending" /\ e.disposition # "Evict"
    BY <1>2 DEF ApplyRedisEvent, SessionTruth
  <2> QED
    BY <1>1, <1>2, <2>1, <2>2, Taking
<1>4. cycle' \in {cycle, cycle + 1} /\ cycle \in Nat /\ cycle' \in Nat
  BY <1>1 DEF ApplyRedisEvent, Recorded
<1>5. adopted' = (adopted \/ Adopts(e)) /\ adopted' \in BOOLEAN
  BY DEF ApplyRedisEvent
<1>6. Recorded'
  <2> DEFINE v == IF e.answer = "failed" THEN e.op ELSE 0
  <2>1. failed' = [failed EXCEPT ![Kind(e.op)] = v] /\ recipes' \subseteq recipes /\ v \in {0, e.op}
    BY DEF ApplyRedisEvent, RecipesAfter
  <2> HIDE DEF v
  <2> QED
    BY <1>1, <1>2, <1>4, <1>5, <2>1, RecordTakes
<1>7. e.answer = "loaded" => e.content \in Contents(e.op)
  BY <1>2 DEF RedisInv, RedisShaped
<1>8. explorer' \in ExplorerAfter(e)
  BY DEF ApplyRedisEvent
<1>9. CASE scanned
  <2>1. explorer' \in KeysLoaded(e)
    BY <1>8, <1>9 DEF ExplorerAfter
  <2>2. e.content \in Pages(Request(e.op)) /\ active # 0
    BY <1>2, <1>7, <1>9 DEF Contents
  <2>3. /\ explorer' \in Explorers /\ explorer'.pendingScan \in {0, explorer.pendingScan}
        /\ explorer'.pendingInspect \in {0, explorer.pendingInspect}
        /\ ~explorer'.scan.requested => explorer'.scan.keys = {}
        /\ ~adopted /\ ~(explorer.pendingScan = e.op /\ ~Request(e.op).restart /\ Request(e.op).cycle # cycle)
              => Gathered(explorer'.scan)
    BY <1>2, <1>9, <2>1, <2>2, KeysLoadedHolds
  <2>4. ~adopted' => Gathered(explorer'.scan)
    BY <1>5, <1>9, <2>3 DEF Adopts
  <2>5. Continues'
    <3>1. failed'["scan"] = 0
      BY <1>1, <1>9 DEF ApplyRedisEvent, Recorded, BrowseKinds
    <3> QED
      BY <1>2, <3>1 DEF Continues
  <2> QED
    BY <1>3, <1>4, <1>6, <2>3, <2>4, <2>5, RedisTaken
<1>10. CASE ~scanned
  <2>1. /\ explorer' \in Explorers /\ explorer'.pendingScan \in {0, explorer.pendingScan}
        /\ explorer'.pendingInspect \in {0, explorer.pendingInspect}
        /\ explorer'.scan = explorer.scan \/ explorer'.scan = [explorer.scan EXCEPT !.stale = TRUE]
    BY <1>2, <1>7, <1>8, <1>10, OtherAfter
  <2>2. explorer.scan \in Scans
    BY <1>1 DEF Explorers
  <2>3. /\ explorer'.scan.filter = explorer.scan.filter /\ explorer'.scan.keys = explorer.scan.keys
        /\ explorer'.scan.next = explorer.scan.next /\ explorer'.scan.requested = explorer.scan.requested
        /\ explorer'.scan.truncated = explorer.scan.truncated
    BY <2>1, <2>2 DEF Scans
  <2>4. cycle' = cycle
    BY <1>10 DEF ApplyRedisEvent
  <2>5. ASSUME ~adopted' PROVE Gathered(explorer'.scan) /\ Continues'
    <3>1. Gathered(explorer.scan) /\ Continues
      BY <1>5, <2>5 DEF RedisInv
    <3>2. failed'["scan"] \in {0, failed["scan"], active}
      BY <1>1, <1>2 DEF ApplyRedisEvent, Recorded, BrowseKinds
    <3>3. \A o : ContinuesWith(o) => ContinuesWith(o)'
      BY <2>3, <2>4 DEF ContinuesWith, Kind, Request
    <3>4. Gathered(explorer'.scan)
      BY <2>3, <3>1 DEF Gathered
    <3>5. Continues'
      BY <1>2, <3>1, <3>2, <3>3 DEF Continues
    <3> QED
      BY <3>4, <3>5
  <2> QED
    BY <1>3, <1>4, <1>6, <2>1, <2>3, <2>5, RedisTaken DEF RedisInv
<1> QED
  BY <1>9, <1>10

\* An answer from another session than the card's ends the operation and is dropped; the
\* answer of a displaced operation is dropped.
LEMMA RedisDrops ==
    ASSUME RedisInv, events # <<>>, NEW e, e = Head(events), events' = Tail(events),
           UNCHANGED <<operations, session, sessions>>, Kind(e.op) \in BrowseKinds,
           StaleTerminal(e) \/ IgnoreRedisEvent(e)
    PROVE  RedisInv'
<1>1. BrowseInv(RedisRequests, RedisContents) /\ Recorded /\ explorer \in Explorers
  BY DEF RedisInv, RedisShaped
<1>2. UNCHANGED <<conn, failed, cycle, adopted, explorer>> /\ active' = Finished(e.op) /\ recipes' \subseteq recipes
  BY DEF StaleTerminal, IgnoreRedisEvent, Finished
<1>3. /\ e.op \in Operation /\ e.op \in Nat /\ conn' \in ConnectionStates
      /\ e.op = active => conn.state # "Pending"
      /\ e.op = active /\ e.disposition = "Evict" /\ conn.state = "Connected" => e.session = conn.at
  BY <1>1, <1>2, NextEvent
<1>4. e.op = active /\ e.disposition = "Evict" => conn.state # "Connected"
  BY <1>3 DEF StaleTerminal, IgnoreRedisEvent, AcceptsSession
<1>5. BrowseInv(RedisRequests, RedisContents)'
  BY <1>1, <1>2, <1>3, <1>4, Taking
<1>6. cycle' \in Nat /\ adopted' \in BOOLEAN /\ 0 \in {0, e.op}
  BY <1>1, <1>2 DEF Recorded
<1>7. Recorded'
  BY <1>1, <1>2, <1>3, <1>6, RecordTakes
<1>8. ASSUME ~adopted' PROVE Gathered(explorer'.scan) /\ Continues'
  <2>1. Gathered(explorer.scan) /\ Continues /\ active' \in {0, active}
    BY <1>2, <1>8 DEF RedisInv, Finished
  <2>2. \A o : ContinuesWith(o) => ContinuesWith(o)'
    BY <1>2 DEF ContinuesWith, Kind, Request
  <2> QED
    BY <1>2, <2>1, <2>2 DEF Continues
<1>9. cycle' \in {cycle, cycle + 1} /\ explorer' \in Explorers
  BY <1>1, <1>2
<1> QED
  BY <1>2, <1>5, <1>7, <1>8, <1>9, RedisTaken DEF RedisInv

\* The answer of connection work: the list is kept, or forgotten with its cycle.
LEMMA RedisConnects ==
    ASSUME RedisInv, events # <<>>, NEW e, e = Head(events), events' = Tail(events),
           UNCHANGED <<operations, session, sessions>>, Kind(e.op) \notin BrowseKinds, ApplyConnectionEvent(e)
    PROVE  RedisInv'
<1>1. BrowseInv(RedisRequests, RedisContents) /\ Recorded /\ explorer \in Explorers
  BY DEF RedisInv, RedisShaped
<1>2. UNCHANGED <<failed, adopted>> /\ active' = Finished(e.op) /\ recipes' \subseteq recipes /\ conn' = FoldConnection(e)
  BY DEF ApplyConnectionEvent, RecipesAfter
<1>3. /\ conn' \in ConnectionStates
      /\ e.op # active => conn' = conn
      /\ e.op = active => \/ conn' = Disconnected
                          \/ conn' = Connected(e.session) /\ e.disposition = "Keep"
  BY <1>1, <1>2, ConnectionFolds
<1>4. BrowseInv(RedisRequests, RedisContents)'
  BY <1>1, <1>2, <1>3, Taking
<1>5. cycle' \in {cycle, cycle + 1} /\ cycle \in Nat /\ cycle' \in Nat
  BY <1>1 DEF ApplyConnectionEvent, Recorded
<1>6. Recorded'
  <2>1. Operation' = Operation
    BY DEF Operation
  <2> QED
    BY <1>1, <1>2, <1>5, <2>1 DEF Recorded, Kind
<1>7. CASE ForgetsExplorer(e)
  <2>1. explorer' = NewExplorer /\ cycle' = cycle + 1
    BY <1>7 DEF ApplyConnectionEvent
  <2>2. EmptyFilter \in Filters
    BY KeyspaceAssumption
  <2>3. /\ explorer' \in Explorers /\ explorer'.pendingScan = 0 /\ explorer'.pendingInspect = 0
        /\ explorer'.scan.keys = {} /\ Gathered(explorer'.scan)
    BY <2>1, <2>2, NewExplorerHolds
  <2>4. \A o \in Operation : ContinuesWith(o)'
    <3>1. \A o \in Operation : Kind(o) = "scan" => Request(o).cycle \in Nat /\ Request(o).cycle <= cycle
      BY DEF RedisInv, RedisShaped, RequestsOfCycle, ScanRequests
    <3> QED
      BY <1>5, <2>1, <3>1 DEF ContinuesWith, Kind, Request
  <2>5. active' \in {0} \cup Operation /\ failed'["scan"] \in {0} \cup Operation
    BY <1>1, <1>2 DEF BrowseInv, Shaped, Operation, Recorded, BrowseKinds, Finished
  <2>6. Continues'
    BY <2>4, <2>5 DEF Continues
  <2> QED
    BY <1>4, <1>5, <1>6, <2>3, <2>6, RedisTaken
<1>8. CASE ~ForgetsExplorer(e)
  <2>1. explorer' = explorer /\ cycle' = cycle
    BY <1>8 DEF ApplyConnectionEvent
  <2>2. ASSUME ~adopted' PROVE Gathered(explorer'.scan) /\ Continues'
    <3>1. Gathered(explorer.scan) /\ Continues /\ active' \in {0, active}
      BY <1>2, <2>2 DEF RedisInv, Finished
    <3>2. \A o : ContinuesWith(o) => ContinuesWith(o)'
      BY <2>1 DEF ContinuesWith, Kind, Request
    <3> QED
      BY <1>2, <2>1, <3>1, <3>2 DEF Continues
  <2>3. explorer' \in Explorers
    BY <1>1, <2>1
  <2> QED
    BY <1>4, <1>5, <1>6, <2>1, <2>2, <2>3, RedisTaken DEF RedisInv
<1> QED
  BY <1>7, <1>8

\* Every step keeps the invariant.
LEMMA RedisStep ==
    ASSUME RedisInv, [Next]_vars
    PROVE  RedisInv'
<1>1. CASE PollEvent
  <2> DEFINE e == Head(events)
  <2>1. events # <<>> /\ events' = Tail(events) /\ UNCHANGED <<operations, session, sessions>> /\ e = Head(events)
    BY <1>1 DEF PollEvent
  <2>2. \/ Kind(e.op) \in BrowseKinds /\ ApplyRedisEvent(e)
        \/ Kind(e.op) \in BrowseKinds /\ (StaleTerminal(e) \/ IgnoreRedisEvent(e))
        \/ Kind(e.op) \notin BrowseKinds /\ ApplyConnectionEvent(e)
    BY <1>1 DEF PollEvent
  <2> HIDE DEF e
  <2> QED
    BY <2>1, <2>2, RedisApplies, RedisDrops, RedisConnects
<1>2. ASSUME NEW op \in Operation, RuntimeStep(op) PROVE RedisInv'
  <2>1. BrowseInv(RedisRequests, RedisContents) /\ NoContent \in RedisContents
    BY DEF RedisInv, RedisContents
  <2>2. CASE Finish(op)
    <3>1. PICK c \in Contents(op) : FinishBrowse(op, c)
      BY <2>2 DEF Finish
    <3>2. c \in RedisContents /\ explorer' = explorer
      <4>1. CASE Kind(op) = "scan"
        <5>1. Request(op) \in ScanRequests /\ c \in Pages(Request(op)) /\ explorer' = explorer
          BY <1>2, <2>2, <3>1, <4>1 DEF Finish, Contents, RedisInv, RedisShaped
        <5> QED
          BY <5>1, PageHolds DEF RedisContents
      <4>2. CASE Kind(op) = "inspect"
        <5>1. /\ Request(op) \in KeyRequests /\ c = [key |-> Request(op).key, stale |-> FALSE]
              /\ explorer' = explorer
          BY <1>2, <2>2, <3>1, <4>2 DEF Finish, Contents, RedisInv, RedisShaped
        <5> QED
          BY <5>1 DEF RedisContents, KeyPreviews, KeyRequests
      <4> QED
        BY <2>2, <4>1, <4>2 DEF Finish
    <3>3. BrowseInv(RedisRequests, RedisContents)' /\ TaskFrame /\ Sends(op, Contents(op))
      BY <1>2, <2>1, <3>1, <3>2, BrowseFinishes
    <3> QED
      BY <1>2, <3>2, <3>3, RedisTask
  <2>3. CASE TaskStep(op) /\ UNCHANGED explorer
    <3>1. BrowseInv(RedisRequests, RedisContents)' /\ TaskFrame /\ Sends(op, Contents(op))
      BY <1>2, <2>1, <2>3, TaskSteps
    <3> QED
      BY <1>2, <2>3, <3>1, RedisTask
  <2> QED
    BY <1>2, <2>2, <2>3 DEF RuntimeStep
<1>3. CASE UNCHANGED vars
  <2>1. UNCHANGED <<operations, active, conn, session, sessions, events, cycle, adopted, recipes, failed, explorer>>
    BY <1>3 DEF vars, browseVars
  <2>2. explorer' \in Explorers
    BY <2>1 DEF RedisInv, RedisShaped
  <2> QED
    BY <2>1, <2>2, RedisLocal
<1> QED
  BY <1>1, <1>2, <1>3, RedisUser DEF Next

-----------------------------------------------------------------------------
(* The inductive invariant of the Redis explorer holds of every behaviour  *)
(* of the window, the tasks and the session cache.                         *)
THEOREM RedisSafe == Spec => []RedisInv
<1>1. Init => RedisInv
  BY RedisStarts
<1>2. RedisInv /\ [Next]_vars => RedisInv'
  BY RedisStep
<1> QED
  BY <1>1, <1>2, PTL DEF Spec

(* Whatever browses, retries, cancellations, reconnects and disconnects    *)
(* interleave, a card that says Connected names the cached session, or the *)
(* event that corrects it is queued (apply_redis_session_truth and         *)
(* UiModel::fold against the evictions of run_redis_scan, run_redis_inspect *)
(* and run_profile_control).                                               *)
THEOREM RedisCardIsLive == Spec => []ConnectedIsLive
<1>1. RedisInv => ConnectedIsLive
  BY LiveFollows DEF RedisInv
<1> QED
  BY <1>1, RedisSafe, PTL

(* A list that is complete and not truncated holds every stable key that   *)
(* matches its filter, for every keyspace, cap and number of operations    *)
(* (RedisScanAccumulator::apply_page, load_more_intent and handle_event).  *)
THEOREM RedisScanComplete == Spec => []ScanComplete
<1>1. ASSUME RedisInv PROVE ScanComplete
  <2>1. BrowseInv(RedisRequests, RedisContents) /\ Recorded /\ RedisShaped
    BY <1>1 DEF RedisInv
  <2>2. BrowsingTypeOK
    BY <2>1, BrowsingTyped
  <2>3. explorer \in Explorers /\ explorer.scan \in Scans
    BY <2>1 DEF RedisShaped, Explorers
  <2>4. explorer.pendingScan \in 0..MaxOperations /\ explorer.pendingInspect \in 0..MaxOperations
    BY <2>1, BrowsingBoundsAssumption DEF RedisShaped, Operation, BrowseInv, Shaped
  <2>5. \A k \in DOMAIN explorer : k \in DOMAIN NewExplorer
    BY <2>3 DEF Explorers, NewExplorer
  <2>6. TypeOK
    BY <2>2, <2>3, <2>4, <2>5 DEF TypeOK, Explorers, Scans
  <2>7. ASSUME ~adopted
        PROVE  /\ explorer.scan.keys \subseteq Matching[explorer.scan.filter]
               /\ IsComplete(explorer.scan) /\ ~explorer.scan.truncated =>
                    (Stable \cap Matching[explorer.scan.filter]) \ Oversize \subseteq explorer.scan.keys
    BY <1>1, <2>7 DEF RedisInv, Gathered, IsComplete
  <2> QED
    BY <2>6, <2>7 DEF ScanComplete
<1> QED
  BY <1>1, RedisSafe, PTL

-----------------------------------------------------------------------------
(* The catalog of a MySQL profile                                          *)


Tokens == [after : Nat, count : Nat]
PageRequests == [branch : Branches, prefix : Prefixes, token : Tokens]
CatalogRequests == {NoContent} \cup PageRequests
CatalogContents == {NoContent} \cup [nodes : SUBSET Nodes, truncated : BOOLEAN, next : Tokens]
BranchStates == [loaded : BOOLEAN, nodes : SUBSET Nodes, next : Tokens, truncated : BOOLEAN,
                 stale : BOOLEAN, prefix : Prefixes \cup {"none"}]

\* Requests and answers are of pages, and each branch holds its own nodes.
CatalogShaped ==
    /\ \A o \in Operation : Kind(o) \in BrowseKinds => Kind(o) = "page" /\ Request(o) \in PageRequests
    /\ \A o \in Operation : \A k \in 1..Len(events) :
         events[k].op = o /\ events[k].answer = "loaded" =>
             Kind(o) = "page" /\ events[k].content \in CatalogPages(Request(o))
    /\ tree \in [Branches -> BranchStates]
    /\ \A b \in Branches :
         /\ \A x \in tree[b].nodes : x[1] = b
         /\ tree[b].next # NoToken => tree[b].loaded /\ ~tree[b].truncated
         /\ tree[b].loaded => tree[b].prefix \in Prefixes
    /\ retained = UNION {tree[b].nodes : b \in Branches}

\* The outstanding page, running or answered, is the one of pending.
OnePageOut ==
    /\ pending \subseteq Operation
    /\ \A p \in pending : Kind(p) = "page" /\ (Running(p) \/ \E k \in 1..Len(events) : events[k].op = p)
    /\ \A p, q \in pending : p = q
    /\ \A o \in Operation : Kind(o) = "page" =>
         /\ Running(o) => o \in pending
         /\ \A k \in 1..Len(events) : events[k].op = o => o \in pending
    /\ \A j, k \in 1..Len(events) : events[j].op = events[k].op => j = k

\* No cap is passed by the nodes held.
WithinCaps(held) ==
    /\ Cardinality(held) <= TotalCap
    /\ \A b \in Branches :
         /\ Cardinality({x \in held : Level[x[1]] = Level[b]}) <= LevelCap[Level[b]]
         /\ Level[b] = "columns" => Cardinality({x \in held : x[1] = b}) <= BranchCap

\* The nodes, of a branch read with a prefix, that a page ending at next must not miss.
Covers(nodes, b, prefix, after, next) ==
    \A x \in StableNodes : /\ x[1] = b /\ x[2] \in MatchingPlaces[prefix]
                           /\ x[2] > after /\ (next = NoToken \/ x[2] <= next.after)
                           => x \in nodes

BranchCovered(b) ==
    tree[b].loaded /\ ~tree[b].truncated => Covers(tree[b].nodes, b, tree[b].prefix, 0, tree[b].next)

\* A request that continues a loaded branch continues it as it is now.
Resumes(p) ==
    Kind(p) = "page" /\ Request(p).token # NoToken /\ tree[Request(p).branch].loaded =>
        /\ tree[Request(p).branch].next = Request(p).token
        /\ tree[Request(p).branch].prefix = Request(p).prefix

CatalogInv ==
    /\ BrowseInv(CatalogRequests, CatalogContents) /\ Recorded /\ CatalogShaped /\ OnePageOut
    /\ WithinCaps(retained)
    /\ ~adopted => /\ \A b \in Branches : BranchCovered(b)
                   /\ \A p \in pending : Resumes(p)
                   /\ failed["page"] # 0 => Resumes(failed["page"])

-----------------------------------------------------------------------------
(* The order of the rows.                                                  *)

\* Rows the queries sort: finitely many, each at its own place.
Ordered(S) ==
    /\ IsFiniteSet(S) /\ \A x \in S : x[2] \in Nat \ {0}
    /\ \A x, y \in S : x[2] = y[2] => x = y

Rank(S, x) == Cardinality({y \in S : y[2] < x[2]})

\* The nodes of one branch are so.
LEMMA BranchOrdered ==
    ASSUME NEW S \in SUBSET Nodes, NEW b, \A x \in S : x[1] = b
    PROVE  Ordered(S)
<1>1. IsFiniteSet(S)
  BY CatalogAssumption, FS_Subset
<1>2. \A x \in S : x \in Branches \X (Nat \ {0})
  BY CatalogAssumption
<1> QED
  BY <1>1, <1>2 DEF Ordered

LEMMA SubsetOrdered ==
    ASSUME NEW S, Ordered(S), NEW T \in SUBSET S
    PROVE  Ordered(T)
BY FS_Subset DEF Ordered

\* Later rows have a higher rank.
LEMMA RankGrows ==
    ASSUME NEW S, Ordered(S)
    PROVE  /\ \A x \in S : Rank(S, x) \in Nat
           /\ \A x, y \in S : x[2] <= y[2] => Rank(S, x) <= Rank(S, y)
           /\ \A x, y \in S : x[2] < y[2] => Rank(S, x) < Rank(S, y)
<1>1. \A x \in S : IsFiniteSet({z \in S : z[2] < x[2]})
  BY FS_Subset DEF Ordered
<1>2. \A x \in S : Rank(S, x) \in Nat
  BY <1>1, FS_CardinalityType DEF Rank
<1>3. ASSUME NEW x \in S, NEW y \in S, x[2] <= y[2]
      PROVE  Rank(S, x) <= Rank(S, y) /\ (x[2] < y[2] => Rank(S, x) < Rank(S, y))
  <2> DEFINE A == {z \in S : z[2] < x[2]}
             B == {z \in S : z[2] < y[2]}
  <2>1. A \in SUBSET B
    BY <1>3 DEF Ordered
  <2>2. x[2] < y[2] => x \in B /\ x \notin A
    BY <1>3 DEF Ordered
  <2>3. IsFiniteSet(B)
    BY <1>1
  <2> HIDE DEF A, B
  <2>4. Cardinality(A) <= Cardinality(B) /\ (Cardinality(B) = Cardinality(A) => B = A)
    BY <2>1, <2>3, FS_Subset
  <2>5. Cardinality(A) = Rank(S, x) /\ Cardinality(B) = Rank(S, y)
    BY DEF Rank, A, B
  <2> QED
    BY <1>2, <2>2, <2>4, <2>5
<1>4. \A x \in S : x[2] \in Nat
  BY DEF Ordered
<1> QED
  BY <1>2, <1>3, <1>4

\* LIMIT n returns at most n rows, and no row without the ones before it.
LEMMA FirstNHolds ==
    ASSUME NEW S, Ordered(S), NEW n \in Nat
    PROVE  /\ FirstN(S, n) \subseteq S /\ IsFiniteSet(FirstN(S, n))
           /\ Cardinality(FirstN(S, n)) \in Nat /\ Cardinality(FirstN(S, n)) <= n
           /\ \A x \in FirstN(S, n) : \A y \in S : y[2] <= x[2] => y \in FirstN(S, n)
           /\ \A x \in S : x \in FirstN(S, n) <=> Rank(S, x) < n
<1> DEFINE F == FirstN(S, n)
<1>1. F \subseteq S /\ \A x \in S : x \in F <=> Rank(S, x) < n
  BY DEF FirstN, Rank
<1>2. IsFiniteSet(F) /\ Cardinality(F) \in Nat
  BY <1>1, FS_Subset, FS_CardinalityType DEF Ordered
<1> HIDE DEF F
<1>3. \A x \in F : \A y \in S : y[2] <= x[2] => y \in F
  <2>1. SUFFICES ASSUME NEW x \in F, NEW y \in S, y[2] <= x[2] PROVE y \in F
    OBVIOUS
  <2>2. Rank(S, y) \in Nat /\ Rank(S, x) \in Nat /\ Rank(S, y) <= Rank(S, x) /\ Rank(S, x) < n
    BY <1>1, <2>1, RankGrows
  <2> QED
    BY <1>1, <2>1, <2>2
<1>4. Cardinality(F) <= n
  <2> DEFINE f == [x \in F |-> Rank(S, x)]
  <2>1. \A x \in F : Rank(S, x) \in 0..(n - 1)
    BY <1>1, RankGrows
  <2>2. \A x, y \in F : Rank(S, x) = Rank(S, y) => x = y
    <3>1. SUFFICES ASSUME NEW x \in F, NEW y \in F, x # y PROVE Rank(S, x) # Rank(S, y)
      OBVIOUS
    <3>2. x \in S /\ y \in S /\ x[2] \in Nat /\ y[2] \in Nat /\ x[2] # y[2]
      BY <1>1, <3>1 DEF Ordered
    <3>3. /\ Rank(S, x) \in Nat /\ Rank(S, y) \in Nat
          /\ x[2] < y[2] => Rank(S, x) < Rank(S, y)
          /\ y[2] < x[2] => Rank(S, y) < Rank(S, x)
      BY <3>2, RankGrows
    <3> QED
      BY <3>2, <3>3
  <2>3. f \in Injection(F, 0..(n - 1))
    BY <2>1, <2>2 DEF Injection, IsInjective
  <2>4. IsFiniteSet(0..(n - 1)) /\ Cardinality(0..(n - 1)) = n
    BY FS_Interval
  <2> HIDE DEF f
  <2>5. Cardinality(F) <= Cardinality(0..(n - 1))
    BY <2>3, <2>4, FS_Injection
  <2> QED
    BY <2>4, <2>5
<1> QED
  BY <1>1, <1>2, <1>3, <1>4 DEF F

\* A set of naturals has a least element.
LEMMA LeastNumber ==
    ASSUME NEW T \in SUBSET Nat, T # {}
    PROVE  \E x \in T : \A y \in T : x <= y
<1> DEFINE less == OpToRel(<, Nat)
<1>1. IsWellFoundedOn(less, Nat)
  BY NatLessThanWellFounded
<1>2. \A x, y \in Nat : <<y, x>> \in less <=> y < x
  BY DEF OpToRel
<1> HIDE DEF less
<1>3. PICK x \in T : \A y \in T : ~ (<<y, x>> \in less)
  BY <1>1, WFMin
<1>4. \A y \in T : x \in Nat /\ y \in Nat /\ ~(y < x)
  BY <1>2, <1>3
<1> QED
  BY <1>4

\* Some rows, none after place n: there is a last one, and a first.
LEMMA LastRow ==
    ASSUME NEW S, S # {}, \A x \in S : x[2] \in Nat, NEW n \in Nat, \A x \in S : x[2] <= n
    PROVE  \E m \in S : \A x \in S : x[2] <= m[2]
<1> DEFINE U == {u \in Nat : \A x \in S : x[2] <= u}
<1>1. U \in SUBSET Nat /\ U # {}
  OBVIOUS
<1>2. PICK u \in U : \A v \in U : u <= v
  BY <1>1, LeastNumber
<1>3. PICK y \in S : TRUE
  OBVIOUS
<1>4. CASE u = 0
  BY <1>2, <1>3, <1>4
<1>5. CASE u # 0
  <2>1. u - 1 \in Nat /\ u - 1 \notin U
    BY <1>2, <1>5
  <2>2. PICK m \in S : ~(m[2] <= u - 1)
    BY <2>1
  <2> QED
    BY <1>2, <1>5, <2>1, <2>2
<1> QED
  BY <1>4, <1>5

LEMMA FirstRow ==
    ASSUME NEW S, S # {}, \A x \in S : x[2] \in Nat
    PROVE  \E m \in S : \A x \in S : m[2] <= x[2]
<1> DEFINE T == {x[2] : x \in S}
<1>1. T \in SUBSET Nat /\ T # {}
  OBVIOUS
<1>2. PICK p \in T : \A q \in T : p <= q
  BY <1>1, LeastNumber
<1> QED
  BY <1>2

\* When one row more than a page was asked for and no more than a page came, that is all.
LEMMA NothingBeyond ==
    ASSUME NEW S, Ordered(S), NEW n \in Nat, FirstN(FirstN(S, n + 1), n) = FirstN(S, n + 1)
    PROVE  FirstN(S, n + 1) = S
<1> DEFINE F == FirstN(S, n + 1)
           Z == S \ F
<1>1. n + 1 \in Nat /\ F \subseteq S /\ \A x \in S : x \in F <=> Rank(S, x) < n + 1
  BY FirstNHolds
<1>2. FirstN(F, n) = F
  OBVIOUS
<1>3. Ordered(F) /\ \A x \in S : x[2] \in Nat
  BY <1>1, SubsetOrdered DEF Ordered
<1> HIDE DEF F
<1>4. SUFFICES ASSUME Z # {} PROVE FALSE
  BY <1>1 DEF F
<1>5. PICK z \in Z : \A y \in Z : z[2] <= y[2]
  BY <1>3, <1>4, FirstRow
<1> DEFINE B == {y \in S : y[2] < z[2]}
<1>6. z \in S /\ z[2] \in Nat /\ Rank(S, z) = Cardinality(B) /\ Cardinality(B) \in Nat
  BY <1>3, RankGrows DEF Rank
<1>7. Cardinality(B) > n /\ IsFiniteSet(B)
  BY <1>1, <1>6, FS_Subset DEF Ordered
<1>8. B \subseteq F
  BY <1>3, <1>5, <1>6
<1>9. B # {}
  BY <1>6, <1>7, FS_EmptySet
<1>10. PICK m \in B : \A y \in B : y[2] <= m[2]
  <2>1. \A y \in B : y[2] \in Nat /\ y[2] <= z[2]
    BY <1>3, <1>6
  <2> HIDE DEF B
  <2> QED
    BY <1>6, <1>9, <2>1, LastRow
<1>11. {y \in F : y[2] < m[2]} = B \ {m}
  <2>1. ASSUME NEW y \in F, y[2] < m[2] PROVE y \in B \ {m}
    BY <1>1, <1>3, <1>6, <1>10, <2>1
  <2>2. ASSUME NEW y \in B \ {m} PROVE y \in F /\ y[2] < m[2]
    <3>1. y \in S /\ m \in S /\ y[2] \in Nat /\ m[2] \in Nat /\ y[2] <= m[2] /\ y # m
      BY <1>3, <1>10, <2>2
    <3>2. y[2] # m[2]
      BY <3>1 DEF Ordered
    <3> QED
      BY <1>8, <2>2, <3>1, <3>2
  <2> HIDE DEF B
  <2> QED
    BY <2>1, <2>2
<1> HIDE DEF B
<1>12. Rank(F, m) = Cardinality(B) - 1
  BY <1>7, <1>10, <1>11, FS_RemoveElement DEF Rank
<1>13. m \in F /\ (m \in FirstN(F, n) <=> Rank(F, m) < n)
  BY <1>3, <1>8, <1>10, FirstNHolds
<1> QED
  BY <1>2, <1>6, <1>7, <1>12, <1>13

\* A page brings rows of its branch, and misses none from its token to the next one.
LEMMA PageCovers ==
    ASSUME NEW request \in PageRequests, NEW page \in CatalogPages(request)
    PROVE  /\ page \in CatalogContents /\ page.nodes \subseteq Nodes /\ page.next \in Tokens
           /\ page.truncated \in BOOLEAN /\ \A x \in page.nodes : x[1] = request.branch
           /\ ~page.truncated =>
                Covers(page.nodes, request.branch, request.prefix, request.token.after, page.next)
<1> DEFINE volatile == {x \in Nodes \ StableNodes : x[1] = request.branch}
<1>1. PICK x \in SUBSET volatile : page = FinishPage(request, Fetched(request, StableNodes \cup x, PageSize + 1))
  BY DEF CatalogPages
<1> DEFINE S == {y \in StableNodes \cup x : /\ y[1] = request.branch /\ y[2] > request.token.after
                                            /\ y[2] \in MatchingPlaces[request.prefix]}
           fetched == FirstN(S, PageSize + 1)
           rows == FirstN(fetched, PageSize)
           room == DriverRoom(request.branch, request.token.count)
           kept == FirstN(rows, room)
           cut == kept # rows \/ (fetched # rows /\ Cardinality(rows) >= room)
           next == IF fetched # rows /\ ~cut
                   THEN [after |-> Max({y[2] : y \in kept}), count |-> request.token.count + Cardinality(kept)]
                   ELSE NoToken
<1>2. page = [nodes |-> kept, truncated |-> cut, next |-> next]
  BY <1>1 DEF FinishPage, Fetched
<1>3. S \in SUBSET Nodes /\ \A y \in S : y[1] = request.branch
  BY <1>1, CatalogAssumption
<1>4. Ordered(S) /\ PageSize \in Nat \ {0} /\ PageSize + 1 \in Nat
  BY <1>3, BranchOrdered, CatalogAssumption
<1>5. /\ fetched \subseteq S
      /\ \A u \in fetched : \A v \in S : v[2] <= u[2] => v \in fetched
  BY <1>4, FirstNHolds
<1>6. Ordered(fetched)
  BY <1>4, <1>5, SubsetOrdered
<1>7. fetched = rows => fetched = S
  BY <1>4, NothingBeyond
<1> HIDE DEF fetched
<1>8. /\ rows \subseteq fetched
      /\ \A u \in rows : \A v \in fetched : v[2] <= u[2] => v \in rows
      /\ \A u \in fetched : u \in rows <=> Rank(fetched, u) < PageSize
  BY <1>4, <1>6, FirstNHolds
<1> HIDE DEF rows
<1>9. kept \subseteq rows
  BY DEF FirstN
<1> HIDE DEF kept
<1>10. IsFiniteSet(kept) /\ Cardinality(kept) \in Nat /\ kept \subseteq S
  BY <1>4, <1>5, <1>8, <1>9, FS_Subset, FS_CardinalityType DEF Ordered
<1>11. cut \in BOOLEAN
  OBVIOUS
<1>12. ASSUME fetched # rows, ~cut
       PROVE  \E m \in kept : Max({y[2] : y \in kept}) = m[2] /\ \A y \in kept : y[2] <= m[2]
  <2>1. kept = rows
    BY <1>12
  <2>2. PICK z \in fetched : z \notin rows
    BY <1>8, <1>12
  <2>3. \A y \in fetched : y[2] \in Nat
    BY <1>6 DEF Ordered
  <2>4. PICK f \in fetched : \A y \in fetched : f[2] <= y[2]
    BY <2>2, <2>3, FirstRow
  <2>5. f \in rows
    <3>1. {y \in fetched : y[2] < f[2]} = {}
      BY <2>3, <2>4
    <3>2. Rank(fetched, f) = 0
      BY <3>1, FS_EmptySet DEF Rank
    <3> QED
      BY <1>4, <1>8, <2>4, <3>2
  <2>6. \A y \in rows : y[2] <= z[2]
    BY <1>8, <2>2, <2>3
  <2>7. PICK m \in rows : \A y \in rows : y[2] <= m[2]
    <3>1. rows # {} /\ z[2] \in Nat /\ \A y \in rows : y[2] \in Nat
      BY <1>8, <2>2, <2>3, <2>5
    <3> QED
      BY <2>6, <3>1, LastRow
  <2> DEFINE places == {y[2] : y \in kept}
  <2>8. m[2] \in places /\ \A p \in places : p \in Nat /\ p <= m[2]
    BY <1>8, <2>1, <2>3, <2>7
  <2> HIDE DEF places
  <2>9. Max(places) \in places /\ \A p \in places : Max(places) >= p
    <3>1. m[2] \in Nat /\ \A p \in places : m[2] >= p
      BY <2>8
    <3> QED
      BY <2>8, <3>1 DEF Max
  <2>10. Max(places) = m[2]
    BY <2>8, <2>9
  <2> QED
    BY <2>1, <2>7, <2>10 DEF places
<1>13. next \in Tokens /\ (fetched # rows /\ ~cut => next.after \in Nat \ {0})
  <2>1. request.token \in Tokens /\ request.token.count \in Nat
    BY DEF PageRequests, Tokens
  <2>2. CASE fetched # rows /\ ~cut
    <3>1. PICK m \in kept : Max({y[2] : y \in kept}) = m[2]
      BY <1>12, <2>2
    <3>2. m[2] \in Nat \ {0}
      BY <1>4, <1>10, <3>1 DEF Ordered
    <3>3. next = [after |-> m[2], count |-> request.token.count + Cardinality(kept)]
      BY <2>2, <3>1
    <3> HIDE DEF next
    <3> QED
      BY <1>10, <2>1, <3>2, <3>3 DEF Tokens
  <2>3. CASE ~(fetched # rows /\ ~cut)
    BY <2>3 DEF NoToken, Tokens
  <2> QED
    BY <2>2, <2>3
<1>14. ASSUME ~cut
       PROVE  Covers(kept, request.branch, request.prefix, request.token.after, next)
  <2>1. kept = rows
    BY <1>14
  <2>2. SUFFICES ASSUME NEW y \in StableNodes, y \in S, next = NoToken \/ y[2] <= next.after
                 PROVE  y \in rows
    BY <1>1, <2>1 DEF Covers
  <2>3. CASE fetched = rows
    BY <1>7, <2>2, <2>3
  <2>4. CASE fetched # rows
    <3>1. PICK m \in kept : Max({w[2] : w \in kept}) = m[2]
      BY <1>12, <1>14, <2>4
    <3>2. next.after = m[2] /\ next.after # 0
      BY <1>13, <1>14, <2>4, <3>1
    <3>3. next # NoToken
      BY <3>2 DEF NoToken
    <3>4. m \in rows /\ m \in fetched /\ y[2] <= m[2]
      BY <1>8, <2>1, <2>2, <3>1, <3>2, <3>3
    <3> QED
      BY <1>5, <1>8, <2>2, <3>4
  <2> QED
    BY <2>3, <2>4
<1> HIDE DEF next, cut
<1>15. page \in [nodes : SUBSET Nodes, truncated : BOOLEAN, next : Tokens]
  BY <1>2, <1>3, <1>10, <1>11, <1>13
<1> QED
  BY <1>2, <1>3, <1>10, <1>11, <1>13, <1>14, <1>15 DEF CatalogContents

-----------------------------------------------------------------------------
(* The retained budget.                                                    *)

LEMMA NodesFinite ==
    ASSUME NEW S \in SUBSET Nodes
    PROVE  IsFiniteSet(S) /\ Cardinality(S) \in Nat
BY CatalogAssumption, FS_Subset, FS_CardinalityType

LEMMA NodesFewer ==
    ASSUME NEW S \in SUBSET Nodes, NEW T \in SUBSET S
    PROVE  Cardinality(T) \in Nat /\ Cardinality(S) \in Nat /\ Cardinality(T) <= Cardinality(S)
<1>1. IsFiniteSet(S) /\ Cardinality(S) \in Nat /\ T \in SUBSET Nodes
  BY NodesFinite
<1>2. Cardinality(T) \in Nat
  BY <1>1, NodesFinite
<1> QED
  BY <1>1, <1>2, FS_Subset

LEMMA NodesTogether ==
    ASSUME NEW S \in SUBSET Nodes, NEW T \in SUBSET Nodes
    PROVE  /\ Cardinality(S) \in Nat /\ Cardinality(T) \in Nat /\ Cardinality(S \cup T) \in Nat
           /\ Cardinality(S \cup T) <= Cardinality(S) + Cardinality(T)
<1>1. /\ IsFiniteSet(S) /\ Cardinality(S) \in Nat
      /\ IsFiniteSet(T) /\ Cardinality(T) \in Nat
  BY NodesFinite
<1>2. S \cup T \in SUBSET Nodes /\ S \cap T \in SUBSET Nodes
  OBVIOUS
<1>3. Cardinality(S \cup T) \in Nat /\ Cardinality(S \cap T) \in Nat
  BY <1>2, NodesFinite
<1>4. Cardinality(S \cup T) = Cardinality(S) + Cardinality(T) - Cardinality(S \cap T)
  BY <1>1, FS_Union
<1> QED
  BY <1>1, <1>3, <1>4

\* Giving nodes back passes no cap.
LEMMA CapsGiveBack ==
    ASSUME NEW held \in SUBSET Nodes, WithinCaps(held), NEW fewer \in SUBSET held
    PROVE  WithinCaps(fewer)
<1>1. Cardinality(fewer) <= TotalCap
  <2>1. Cardinality(fewer) \in Nat /\ Cardinality(held) \in Nat /\ Cardinality(fewer) <= Cardinality(held)
    BY NodesFewer
  <2> QED
    BY <2>1, CatalogAssumption DEF WithinCaps
<1>2. ASSUME NEW b \in Branches
      PROVE  /\ Cardinality({x \in fewer : Level[x[1]] = Level[b]}) <= LevelCap[Level[b]]
             /\ Level[b] = "columns" => Cardinality({x \in fewer : x[1] = b}) <= BranchCap
  <2> DEFINE A == {x \in held : Level[x[1]] = Level[b]}
             B == {x \in fewer : Level[x[1]] = Level[b]}
             C == {x \in held : x[1] = b}
             D == {x \in fewer : x[1] = b}
  <2>1. A \in SUBSET Nodes /\ B \in SUBSET A /\ C \in SUBSET Nodes /\ D \in SUBSET C
    OBVIOUS
  <2>2. Cardinality(A) <= LevelCap[Level[b]] /\ (Level[b] = "columns" => Cardinality(C) <= BranchCap)
    BY <1>2 DEF WithinCaps
  <2>3. LevelCap[Level[b]] \in Nat /\ BranchCap \in Nat
    BY <1>2, CatalogAssumption
  <2> HIDE DEF A, B, C, D
  <2>4. /\ Cardinality(B) \in Nat /\ Cardinality(A) \in Nat /\ Cardinality(B) <= Cardinality(A)
        /\ Cardinality(D) \in Nat /\ Cardinality(C) \in Nat /\ Cardinality(D) <= Cardinality(C)
    BY <2>1, NodesFewer
  <2>5. Cardinality(B) <= LevelCap[Level[b]] /\ (Level[b] = "columns" => Cardinality(D) <= BranchCap)
    BY <2>2, <2>3, <2>4
  <2> QED
    BY <2>5 DEF B, D
<1> QED
  BY <1>1, <1>2 DEF WithinCaps

LEMMA LeastOfThree ==
    ASSUME NEW a \in Int, NEW b \in Int, NEW c \in Int, NEW T, T = {a, b} \/ T = {a, b} \cup {c}
    PROVE  Min(T) \in T /\ \A y \in T : Min(T) <= y
<1>1. \E x \in T : \A y \in T : x <= y
  <2>1. CASE a <= b /\ a <= c
    BY <2>1
  <2>2. CASE b <= a /\ b <= c
    BY <2>2
  <2>3. CASE c <= a /\ c <= b
    BY <2>3
  <2> QED
    BY <2>1, <2>2, <2>3
<1> QED
  BY <1>1 DEF Min

\* CatalogRetention::retain takes new nodes of the branch, as many as fit every cap.
LEMMA AcceptedFits ==
    ASSUME NEW held \in SUBSET Nodes, WithinCaps(held), NEW branch \in Branches,
           NEW nodes \in SUBSET Nodes, \A x \in nodes : x[1] = branch,
           NEW accepted, accepted = Accepted(held, nodes, branch)
    PROVE  accepted \subseteq nodes /\ WithinCaps(held \cup accepted)
<1> DEFINE ofLevel == {x \in held : Level[x[1]] = Level[branch]}
           ofBranch == {x \in held : x[1] = branch}
           a == LevelCap[Level[branch]] - Cardinality(ofLevel)
           t == TotalCap - Cardinality(held)
           c == BranchCap - Cardinality(ofBranch)
           caps == {a, t} \cup (IF Level[branch] = "columns" THEN {c} ELSE {})
           room == Min(caps)
<1>1. /\ LevelCap[Level[branch]] \in Nat /\ TotalCap \in Nat /\ BranchCap \in Nat
      /\ ofLevel \in SUBSET Nodes /\ ofBranch \in SUBSET Nodes
  BY CatalogAssumption
<1>2. Cardinality(ofLevel) \in Nat /\ Cardinality(held) \in Nat /\ Cardinality(ofBranch) \in Nat
  BY <1>1, NodesFinite
<1>3. /\ Cardinality(ofLevel) <= LevelCap[Level[branch]] /\ Cardinality(held) <= TotalCap
      /\ Level[branch] = "columns" => Cardinality(ofBranch) <= BranchCap
  BY DEF WithinCaps
<1>4. accepted = FirstN(nodes \ held, room)
  BY DEF Accepted
<1> HIDE DEF ofLevel, ofBranch
<1>5. a \in Nat /\ t \in Nat /\ c \in Int /\ (Level[branch] = "columns" => c \in Nat)
  BY <1>1, <1>2, <1>3
<1>6. caps = {a, t} \/ caps = {a, t} \cup {c}
  OBVIOUS
<1> HIDE DEF a, t, c
<1>7. room \in caps /\ \A y \in caps : room <= y
  <2> HIDE DEF caps
  <2> QED
    BY <1>5, <1>6, LeastOfThree
<1>8. room \in Nat /\ room <= a /\ room <= t /\ (Level[branch] = "columns" => room <= c)
  BY <1>5, <1>7
<1> HIDE DEF room, caps
<1>9. accepted \subseteq nodes \ held /\ Cardinality(accepted) \in Nat /\ Cardinality(accepted) <= room
  <2>1. Ordered(nodes \ held)
    BY BranchOrdered
  <2> QED
    BY <1>4, <1>8, <2>1, FirstNHolds
<1>10. accepted \in SUBSET Nodes /\ \A x \in accepted : x[1] = branch
  BY <1>9
<1>11. Cardinality(held \cup accepted) <= TotalCap
  <2>1. Cardinality(held \cup accepted) \in Nat /\ Cardinality(held \cup accepted) <= Cardinality(held) + Cardinality(accepted)
    BY <1>10, NodesTogether
  <2> QED
    BY <1>1, <1>2, <1>8, <1>9, <2>1 DEF t
<1>12. ASSUME NEW b \in Branches
       PROVE  Cardinality({x \in held \cup accepted : Level[x[1]] = Level[b]}) <= LevelCap[Level[b]]
  <2>1. CASE Level[b] = Level[branch]
    <3>1. {x \in held \cup accepted : Level[x[1]] = Level[b]} = ofLevel \cup accepted
      BY <1>10, <2>1 DEF ofLevel
    <3>2. /\ Cardinality(ofLevel \cup accepted) \in Nat
          /\ Cardinality(ofLevel \cup accepted) <= Cardinality(ofLevel) + Cardinality(accepted)
      BY <1>1, <1>10, NodesTogether
    <3>3. Cardinality(ofLevel) + Cardinality(accepted) <= LevelCap[Level[branch]]
      BY <1>1, <1>2, <1>8, <1>9 DEF a
    <3>4. Cardinality(ofLevel \cup accepted) <= LevelCap[Level[branch]]
      BY <1>1, <1>2, <1>9, <3>2, <3>3
    <3> QED
      BY <2>1, <3>1, <3>4
  <2>2. CASE Level[b] # Level[branch]
    <3>1. {x \in held \cup accepted : Level[x[1]] = Level[b]} = {x \in held : Level[x[1]] = Level[b]}
      BY <1>10, <2>2
    <3> QED
      BY <1>12, <3>1 DEF WithinCaps
  <2> QED
    BY <2>1, <2>2
<1>13. ASSUME NEW b \in Branches, Level[b] = "columns"
       PROVE  Cardinality({x \in held \cup accepted : x[1] = b}) <= BranchCap
  <2>1. CASE b = branch
    <3>1. {x \in held \cup accepted : x[1] = b} = ofBranch \cup accepted
      BY <1>10, <2>1 DEF ofBranch
    <3>2. /\ Cardinality(ofBranch \cup accepted) \in Nat
          /\ Cardinality(ofBranch \cup accepted) <= Cardinality(ofBranch) + Cardinality(accepted)
      BY <1>1, <1>10, NodesTogether
    <3>3. Cardinality(ofBranch) + Cardinality(accepted) <= BranchCap
      BY <1>1, <1>2, <1>8, <1>9, <1>13, <2>1 DEF c
    <3>4. Cardinality(ofBranch \cup accepted) <= BranchCap
      BY <1>1, <1>2, <1>9, <3>2, <3>3
    <3> QED
      BY <3>1, <3>4
  <2>2. CASE b # branch
    <3>1. {x \in held \cup accepted : x[1] = b} = {x \in held : x[1] = b}
      BY <1>10, <2>2
    <3> QED
      BY <1>13, <3>1 DEF WithinCaps
  <2> QED
    BY <2>1, <2>2
<1> QED
  BY <1>9, <1>11, <1>12, <1>13 DEF WithinCaps

-----------------------------------------------------------------------------
(* The steps.                                                              *)

\* What the driver may answer to op.
CatalogAnswers(op) == {page \in CatalogPages(Request(op)) : Kind(op) = "page"}

LEMMA CatalogStarts ==
    ASSUME CatalogInit
    PROVE  CatalogInv
<1>1. /\ BrowsingInit /\ tree = [b \in Branches |-> NotLoaded] /\ pending = {} /\ retained = {}
  BY DEF CatalogInit
<1>2. BrowseInv(CatalogRequests, CatalogContents) /\ Recorded
  BY <1>1, BrowseStarts, RecordStarts
<1>3. Operation = {} /\ Len(events) = 0 /\ failed["page"] = 0
  BY <1>1 DEF BrowsingInit, Operation, BrowseKinds
<1>4. /\ NotLoaded \in BranchStates /\ NotLoaded.nodes = {} /\ NotLoaded.next = NoToken
      /\ NotLoaded.loaded = FALSE
  BY DEF NotLoaded, BranchStates, NoToken, Tokens
<1>5. CatalogShaped
  BY <1>1, <1>3, <1>4 DEF CatalogShaped
<1>6. OnePageOut
  BY <1>1, <1>3 DEF OnePageOut
<1>7. WithinCaps(retained)
  <2>1. Cardinality({}) = 0
    BY FS_EmptySet
  <2>2. \A b \in Branches : LevelCap[Level[b]] \in Nat
    BY CatalogAssumption
  <2>3. \A b \in Branches : {x \in retained : Level[x[1]] = Level[b]} = {} /\ {x \in retained : x[1] = b} = {}
    BY <1>1
  <2> QED
    BY <1>1, <2>1, <2>2, <2>3, CatalogAssumption DEF WithinCaps
<1>8. \A b \in Branches : BranchCovered(b)
  BY <1>1, <1>4 DEF BranchCovered
<1> QED
  BY <1>1, <1>2, <1>3, <1>5, <1>6, <1>7, <1>8 DEF CatalogInv

\* A step of a task, whose answer is one the driver gives to the request.
LEMMA CatalogTask ==
    ASSUME CatalogInv, NEW op \in Operation, BrowseInv(CatalogRequests, CatalogContents)', TaskFrame,
           Sends(op, CatalogAnswers(op)), UNCHANGED explorerVars
    PROVE  CatalogInv'
<1>1. Operation' = Operation /\ UNCHANGED <<active, failed, cycle, adopted, tree, pending, retained>>
  BY DEF TaskFrame, Operation, explorerVars
<1>2. \A o \in Operation :
        /\ operations'[o].kind = operations[o].kind /\ operations'[o].request = operations[o].request
        /\ operations[o].task = "done" => operations'[o].task = "done"
  BY DEF TaskFrame
<1>3. Recorded'
  BY RecordStays DEF CatalogInv
<1>4. /\ CatalogShaped /\ OnePageOut /\ Len(events) \in Nat
      /\ \A k \in 1..Len(events) : events[k].op \in Operation /\ ~Running(events[k].op)
  <2>1. ActiveAnswersLast /\ Shaped(CatalogRequests, CatalogContents)
    BY DEF CatalogInv, BrowseInv
  <2>2. Len(events) \in Nat
    BY <2>1 DEF Shaped
  <2>3. \A k \in 1..Len(events) : events[k].op \in Operation /\ ~Running(events[k].op)
    BY <2>1 DEF ActiveAnswersLast
  <2> QED
    BY <2>2, <2>3 DEF CatalogInv
<1>5. \/ events' = events /\ \A o \in Operation : operations'[o].task = "done" => operations[o].task = "done"
      \/ \E e : /\ Running(op) /\ \A o \in Operation \ {op} : operations'[o].task = "done" => operations[o].task = "done"
                /\ e.op = op /\ (e.answer = "loaded" => e.content \in CatalogAnswers(op))
                /\ Len(events') = Len(events) + 1 /\ events'[Len(events) + 1] = e
                /\ \A k \in 1..Len(events) : events'[k] = events[k]
  <2>1. events \in Seq(AnswersOf(CatalogContents))
    BY DEF CatalogInv, BrowseInv, Shaped
  <2>2. ASSUME NEW e, events' = Append(events, e)
        PROVE  /\ Len(events') = Len(events) + 1 /\ events'[Len(events) + 1] = e
               /\ \A k \in 1..Len(events) : events'[k] = events[k]
    BY <2>1, <2>2
  <2> QED
    BY <2>2 DEF Sends
<1>6. ASSUME NEW o \in Operation, NEW k \in 1..Len(events'), events'[k].op = o, events'[k].answer = "loaded"
      PROVE  Kind(o) = "page" /\ events'[k].content \in CatalogPages(Request(o))
  <2>1. CASE k \in 1..Len(events) /\ events'[k] = events[k]
    BY <1>4, <1>6, <2>1 DEF CatalogShaped
  <2>2. CASE o = op /\ events'[k].content \in CatalogAnswers(op)
    BY <2>2 DEF CatalogAnswers
  <2> QED
    BY <1>4, <1>5, <1>6, <2>1, <2>2
<1>7. CatalogShaped'
  <2>1. \A o \in Operation' : \A k \in 1..Len(events') :
           events'[k].op = o /\ events'[k].answer = "loaded" =>
              operations'[o].kind = "page" /\ events'[k].content \in CatalogPages(operations'[o].request)
    BY <1>1, <1>2, <1>6 DEF Kind, Request
  <2>2. \A o \in Operation' : operations'[o].kind \in BrowseKinds =>
           operations'[o].kind = "page" /\ operations'[o].request \in PageRequests
    BY <1>1, <1>2, <1>4 DEF CatalogShaped, Kind, Request
  <2> QED
    BY <1>1, <1>4, <2>1, <2>2 DEF CatalogShaped, Kind, Request
<1>8. OnePageOut'
  <2>1. ASSUME NEW p \in pending
        PROVE  operations'[p].kind = "page" /\ (operations'[p].task # "done" \/ \E k \in 1..Len(events') : events'[k].op = p)
    <3>1. p \in Operation /\ Kind(p) = "page" /\ (Running(p) \/ \E k \in 1..Len(events) : events[k].op = p)
      BY <1>4, <2>1 DEF OnePageOut
    <3> QED
      BY <1>2, <1>4, <1>5, <3>1 DEF Kind, Running
  <2>2. ASSUME NEW o \in Operation, operations'[o].kind = "page"
        PROVE  /\ operations'[o].task # "done" => o \in pending
               /\ \A k \in 1..Len(events') : events'[k].op = o => o \in pending
    <3>1. Kind(o) = "page"
      BY <1>2, <2>2 DEF Kind
    <3> QED
      BY <1>2, <1>4, <1>5, <2>2, <3>1 DEF OnePageOut, Running
  <2>3. \A j, k \in 1..Len(events') : events'[j].op = events'[k].op => j = k
    BY <1>4, <1>5 DEF OnePageOut
  <2> QED
    BY <1>1, <1>4, <2>1, <2>2, <2>3 DEF OnePageOut, Kind, Running
<1>9. \A o \in Operation : Resumes(o) => Resumes(o)'
  BY <1>1, <1>2 DEF Resumes, Kind, Request
<1>10. failed["page"] \in {0} \cup Operation
  BY DEF CatalogInv, Recorded, BrowseKinds
<1>11. \A b \in Branches : BranchCovered(b) => BranchCovered(b)'
  BY <1>1 DEF BranchCovered, Covers
<1> QED
  BY <1>1, <1>3, <1>4, <1>7, <1>8, <1>9, <1>10, <1>11 DEF CatalogInv, OnePageOut, WithinCaps

\* With nothing under way no page is outstanding.
LEMMA NothingOut ==
    ASSUME CatalogInv, active = 0
    PROVE  pending = {} /\ Len(events) = 0
<1>1. OnlyActiveRuns /\ ActiveAnswersLast /\ Shaped(CatalogRequests, CatalogContents) /\ OnePageOut
  BY DEF CatalogInv, BrowseInv
<1>2. \A o \in Operation : ~Running(o) /\ o # 0
  BY <1>1 DEF OnlyActiveRuns, Operation
<1>3. \A k \in 1..Len(events) : FALSE
  BY <1>1, <1>2 DEF ActiveAnswersLast
<1>4. Len(events) \in Nat
  BY <1>1 DEF Shaped
<1> QED
  BY <1>1, <1>2, <1>3, <1>4 DEF OnePageOut

\* A submission: a page while nothing is under way, or connection work.
LEMMA CatalogSubmit ==
    ASSUME CatalogInv, NEW kind, NEW request, Submitted(kind, request),
           BrowseInv(CatalogRequests, CatalogContents)', Recorded', UNCHANGED <<tree, retained>>,
           \/ /\ kind = "page" /\ active = 0 /\ request \in PageRequests
              /\ pending' = pending \cup {Len(operations) + 1}
              /\ ~adopted /\ request.token # NoToken /\ tree[request.branch].loaded =>
                    tree[request.branch].next = request.token /\ tree[request.branch].prefix = request.prefix
           \/ kind \notin BrowseKinds /\ pending' = pending
    PROVE  CatalogInv'
<1>0. PICK n : n = Len(operations) + 1
  OBVIOUS
<1>1. /\ Len(operations) \in Nat /\ Operation' = Operation \cup {n} /\ n \notin Operation
      /\ UNCHANGED <<events, failed, cycle, adopted>>
  BY <1>0 DEF CatalogInv, BrowseInv, Shaped, Submitted, Operation
<1>2. /\ \A o \in Operation : operations'[o] = operations[o]
      /\ operations'[n].kind = kind /\ operations'[n].request = request /\ operations'[n].task = "queued"
  BY <1>0 DEF Submitted
<1>3. CatalogShaped /\ OnePageOut /\ \A k \in 1..Len(events) : events[k].op \in Operation
  BY DEF CatalogInv, BrowseInv, ActiveAnswersLast
<1>4. "page" \in BrowseKinds
  BY DEF BrowseKinds
<1>5. /\ kind = "page" => request \in PageRequests /\ pending' = {n} /\ pending = {}
      /\ kind # "page" => kind \notin BrowseKinds /\ pending' = pending
  BY <1>0, <1>4, NothingOut
<1>6. CatalogShaped'
  <2>1. \A o \in Operation' : operations'[o].kind \in BrowseKinds =>
           operations'[o].kind = "page" /\ operations'[o].request \in PageRequests
    BY <1>1, <1>2, <1>3, <1>5 DEF CatalogShaped, Kind, Request
  <2>2. \A o \in Operation' : \A k \in 1..Len(events) :
           events[k].op = o /\ events[k].answer = "loaded" =>
              operations'[o].kind = "page" /\ events[k].content \in CatalogPages(operations'[o].request)
    BY <1>1, <1>2, <1>3 DEF CatalogShaped, Kind, Request
  <2> QED
    BY <1>1, <1>3, <2>1, <2>2 DEF CatalogShaped, Kind, Request
<1>7. OnePageOut'
  <2>1. pending' \subseteq Operation' /\ \A p, q \in pending' : p = q
    BY <1>1, <1>3, <1>5 DEF OnePageOut
  <2>2. ASSUME NEW p \in pending'
        PROVE  operations'[p].kind = "page" /\ (operations'[p].task # "done" \/ \E k \in 1..Len(events) : events[k].op = p)
    BY <1>2, <1>3, <1>5, <2>2 DEF OnePageOut, Kind, Running
  <2>3. ASSUME NEW o \in Operation', operations'[o].kind = "page"
        PROVE  /\ operations'[o].task # "done" => o \in pending'
               /\ \A k \in 1..Len(events) : events[k].op = o => o \in pending'
    BY <1>1, <1>2, <1>3, <1>5, <2>3 DEF OnePageOut, Kind, Running
  <2> QED
    BY <1>1, <1>3, <2>1, <2>2, <2>3 DEF OnePageOut, Kind, Running
<1>8. \A o \in Operation : Resumes(o) => Resumes(o)'
  BY <1>2 DEF Resumes, Kind, Request
<1>9. kind = "page" /\ ~adopted => Resumes(n)'
  BY <1>2, <1>4 DEF Resumes, Kind, Request
<1>10. failed["page"] \in {0} \cup Operation
  BY DEF CatalogInv, Recorded, BrowseKinds
<1>11. \A b \in Branches : BranchCovered(b) => BranchCovered(b)'
  BY DEF BranchCovered, Covers
<1>12. ~adopted => \A p \in pending' : Resumes(p)'
  BY <1>3, <1>5, <1>8, <1>9 DEF CatalogInv, OnePageOut
<1> QED
  BY <1>1, <1>6, <1>7, <1>8, <1>10, <1>11, <1>12 DEF CatalogInv, WithinCaps

\* A step of the user that leaves the tree.
LEMMA CatalogLocal ==
    ASSUME CatalogInv, UNCHANGED <<operations, active, conn, session, sessions, events, cycle, adopted>>,
           UNCHANGED explorerVars, recipes' \subseteq recipes,
           failed' = failed \/ failed' = [failed EXCEPT !["page"] = 0]
    PROVE  CatalogInv'
<1>1. BrowseInv(CatalogRequests, CatalogContents)'
  BY BrowseStays DEF CatalogInv
<1>2. Operation' = Operation /\ UNCHANGED <<tree, pending, retained>>
  BY DEF Operation, explorerVars
<1>3. failed' \in [BrowseKinds -> Nat] /\ \A k \in BrowseKinds : failed'[k] \in {0, failed[k]}
  BY DEF CatalogInv, Recorded, BrowseKinds
<1>4. Recorded'
  BY <1>2, <1>3 DEF CatalogInv, Recorded, Kind
<1>5. CatalogShaped'
  BY <1>2 DEF CatalogInv, CatalogShaped, Kind, Request
<1>6. OnePageOut'
  BY <1>2 DEF CatalogInv, OnePageOut, Kind, Running
<1>7. \A o : Resumes(o) => Resumes(o)'
  BY <1>2 DEF Resumes, Kind, Request
<1>8. \A b \in Branches : BranchCovered(b) => BranchCovered(b)'
  BY <1>2 DEF BranchCovered, Covers
<1>9. failed'["page"] \in {0, failed["page"]}
  BY <1>3 DEF BrowseKinds
<1> QED
  BY <1>1, <1>2, <1>4, <1>5, <1>6, <1>7, <1>8, <1>9 DEF CatalogInv, WithinCaps

\* Clear catalog: the branches and the budget are emptied together, with no page outstanding.
LEMMA CatalogClears ==
    ASSUME CatalogInv, Clear
    PROVE  CatalogInv'
<1>1. /\ pending = {} /\ pending' = {} /\ tree' = [b \in Branches |-> NotLoaded] /\ retained' = {}
      /\ UNCHANGED <<operations, active, conn, recipes, failed, session, sessions, events, cycle, adopted>>
  BY DEF Clear, browseVars
<1>2. BrowseInv(CatalogRequests, CatalogContents)' /\ Operation' = Operation
  BY <1>1, BrowseStays DEF CatalogInv, Operation
<1>3. Recorded'
  BY <1>1, <1>2 DEF CatalogInv, Recorded, Kind
<1>4. /\ NotLoaded \in BranchStates /\ NotLoaded.nodes = {} /\ NotLoaded.next = NoToken
      /\ NotLoaded.loaded = FALSE
  BY DEF NotLoaded, BranchStates, NoToken, Tokens
<1>5. CatalogShaped'
  <2>1. tree' \in [Branches -> BranchStates] /\ \A b \in Branches : tree'[b] = NotLoaded
    BY <1>1, <1>4
  <2>2. retained' = UNION {tree'[b].nodes : b \in Branches}
    BY <1>1, <1>4, <2>1
  <2> QED
    BY <1>1, <1>2, <1>4, <2>1, <2>2 DEF CatalogInv, CatalogShaped, Kind, Request
<1>6. OnePageOut'
  BY <1>1, <1>2 DEF CatalogInv, OnePageOut, Kind, Running
<1>7. WithinCaps(retained)'
  <2>1. retained \in SUBSET Nodes
    BY DEF CatalogInv, CatalogShaped, BranchStates
  <2>2. WithinCaps({})
    BY <2>1, CapsGiveBack DEF CatalogInv
  <2> QED
    BY <1>1, <2>2 DEF WithinCaps
<1>8. \A b \in Branches : BranchCovered(b)'
  BY <1>1, <1>4 DEF BranchCovered
<1>9. failed["page"] # 0 => Resumes(failed["page"])'
  <2>1. ASSUME failed["page"] # 0 PROVE Resumes(failed["page"])'
    <3>1. failed["page"] \in Operation /\ Kind(failed["page"]) = "page"
      BY <2>1 DEF CatalogInv, Recorded, BrowseKinds
    <3>2. Request(failed["page"]).branch \in Branches
      BY <3>1 DEF CatalogInv, CatalogShaped, BrowseKinds, PageRequests
    <3> QED
      BY <1>1, <1>4, <3>2 DEF Resumes, Request
  <2> QED
    BY <2>1
<1> QED
  BY <1>1, <1>2, <1>3, <1>5, <1>6, <1>7, <1>8, <1>9 DEF CatalogInv

\* A page is asked for: Refresh and Show, Load more, Retry.
LEMMA PageSubmits ==
    ASSUME CatalogInv, NEW request \in PageRequests, NEW known \in SUBSET recipes,
           SubmitPage(request, known),
           ~adopted /\ request.token # NoToken /\ tree[request.branch].loaded =>
               tree[request.branch].next = request.token /\ tree[request.branch].prefix = request.prefix
    PROVE  CatalogInv'
<1>1. /\ SubmitBrowse("page", request, known) /\ pending' = pending \cup {Len(operations) + 1}
      /\ UNCHANGED <<tree, retained>>
  BY DEF SubmitPage
<1>2. request \in CatalogRequests /\ "page" \in BrowseKinds
  BY DEF CatalogRequests, BrowseKinds
<1>3. BrowseInv(CatalogRequests, CatalogContents) /\ Recorded
  BY DEF CatalogInv
<1>4. /\ BrowseInv(CatalogRequests, CatalogContents)' /\ Recorded'
      /\ Submitted("page", request) /\ active = 0
  BY <1>1, <1>2, <1>3, BrowseSubmits
<1> QED
  BY <1>1, <1>4, CatalogSubmit

\* Every step of the user keeps the invariant.
LEMMA CatalogUser ==
    ASSUME CatalogInv, CatalogUserStep
    PROVE  CatalogInv'
<1>1. BrowseInv(CatalogRequests, CatalogContents) /\ Recorded /\ CatalogShaped /\ NoContent \in CatalogRequests
  BY DEF CatalogInv, CatalogRequests
<1>2. tree \in [Branches -> BranchStates] /\ NoToken \in Tokens
  BY <1>1 DEF CatalogShaped, NoToken, Tokens
<1>3. ASSUME NEW b \in Branches, NEW p \in Prefixes, LoadBranch(b, p) PROVE CatalogInv'
  <2>1. PICK request : request = PageRequest(b, p, NoToken)
    OBVIOUS
  <2>2. request \in PageRequests /\ request.token = NoToken
    BY <1>2, <2>1 DEF PageRequest, PageRequests
  <2>3. SubmitPage(request, recipes)
    BY <1>3, <2>1 DEF LoadBranch
  <2> QED
    BY <2>2, <2>3, PageSubmits
<1>4. ASSUME NEW b \in Branches, LoadMoreNodes(b) PROVE CatalogInv'
  <2>1. PICK request : request = PageRequest(b, tree[b].prefix, tree[b].next)
    OBVIOUS
  <2>2. tree[b].prefix \in Prefixes /\ tree[b].next \in Tokens
    BY <1>1, <1>2, <1>4 DEF LoadMoreNodes, CatalogShaped, BranchStates
  <2>3. /\ request \in PageRequests /\ request.branch = b /\ request.token = tree[b].next
        /\ request.prefix = tree[b].prefix
    BY <2>1, <2>2 DEF PageRequest, PageRequests
  <2>4. SubmitPage(request, recipes)
    BY <1>4, <2>1 DEF LoadMoreNodes
  <2> QED
    BY <2>3, <2>4, PageSubmits
<1>5. CASE RetryPage
  <2>1. PICK op : op = failed["page"]
    OBVIOUS
  <2>2. op \in Operation /\ op # 0 /\ Kind(op) = "page" /\ "page" \in BrowseKinds
    BY <1>1, <1>5, <2>1 DEF RetryPage, Recorded, Operation, BrowseKinds
  <2>3. PICK request : request = Request(op)
    OBVIOUS
  <2>4. request \in PageRequests
    BY <1>1, <2>2, <2>3 DEF CatalogShaped
  <2>5. ~adopted => Resumes(op)
    BY <2>1, <2>2 DEF CatalogInv
  <2>6. CASE SubmitPage(request, recipes \ {op})
    <3>1. recipes \ {op} \in SUBSET recipes
      OBVIOUS
    <3> QED
      BY <2>2, <2>3, <2>4, <2>5, <2>6, <3>1, PageSubmits DEF Resumes
  <2>7. CASE /\ recipes' = recipes \ {op}
             /\ UNCHANGED <<operations, active, conn, failed, session, sessions, events, cycle, adopted>>
             /\ UNCHANGED explorerVars
    BY <2>7, CatalogLocal
  <2> QED
    BY <1>5, <2>1, <2>3, <2>6, <2>7 DEF RetryPage
<1>6. CASE DismissPageError
  <2>1. /\ recipes' \subseteq recipes /\ failed' = [failed EXCEPT !["page"] = 0]
        /\ UNCHANGED <<operations, active, conn, session, sessions, events, cycle, adopted>>
        /\ UNCHANGED explorerVars
    BY <1>6 DEF DismissPageError
  <2> QED
    BY <2>1, CatalogLocal
<1>7. ASSUME NEW kind \in {"connect", "reconnect"}, SubmitConnect(kind), UNCHANGED explorerVars PROVE CatalogInv'
  <2>1. /\ BrowseInv(CatalogRequests, CatalogContents)' /\ Recorded' /\ Submitted(kind, NoContent)
        /\ kind \notin BrowseKinds /\ UNCHANGED <<tree, pending, retained>>
    BY <1>1, <1>7, ConnectSubmits DEF BrowseKinds, explorerVars
  <2> QED
    BY <2>1, CatalogSubmit
<1>8. CASE SubmitDisconnect /\ UNCHANGED explorerVars
  <2>1. /\ BrowseInv(CatalogRequests, CatalogContents)' /\ Recorded' /\ Submitted("disconnect", NoContent)
        /\ "disconnect" \notin BrowseKinds /\ UNCHANGED <<tree, pending, retained>>
    BY <1>1, <1>8, DisconnectSubmits DEF BrowseKinds, explorerVars
  <2> QED
    BY <2>1, CatalogSubmit
<1> QED
  BY <1>3, <1>4, <1>5, <1>6, <1>7, <1>8, CatalogClears DEF CatalogUserStep

\* An event taken, given what it does to the tree.
LEMMA CatalogTaken ==
    ASSUME CatalogInv, events # <<>>, NEW e, e = Head(events), events' = Tail(events),
           UNCHANGED operations, BrowseInv(CatalogRequests, CatalogContents)', Recorded',
           pending' = pending \ {e.op}, tree' \in [Branches -> BranchStates],
           \A b \in Branches :
             /\ \A x \in tree'[b].nodes : x[1] = b
             /\ tree'[b].next # NoToken => tree'[b].loaded /\ ~tree'[b].truncated
             /\ tree'[b].loaded => tree'[b].prefix \in Prefixes,
           retained' = UNION {tree'[b].nodes : b \in Branches}, WithinCaps(retained)',
           ~adopted' => /\ \A b \in Branches : BranchCovered(b)'
                        /\ \A p \in pending' : Resumes(p)'
                        /\ failed'["page"] # 0 => Resumes(failed["page"])'
    PROVE  CatalogInv'
<1>1. CatalogShaped /\ OnePageOut /\ Operation' = Operation
  BY DEF CatalogInv, Operation
<1>2. Len(events) \in Nat \ {0} /\ e = events[1] /\ e.op \in Operation /\ ~Running(e.op)
  BY NextEvent DEF CatalogInv
<1>3. \A k \in 1..Len(events') : events'[k] = events[k + 1] /\ k + 1 \in 1..Len(events) /\ k + 1 # 1
  BY NextEvent DEF CatalogInv
<1>4. CatalogShaped'
  <2>1. \A o \in Operation : \A k \in 1..Len(events') :
           events'[k].op = o /\ events'[k].answer = "loaded" =>
             operations[o].kind = "page" /\ events'[k].content \in CatalogPages(operations[o].request)
    BY <1>1, <1>3 DEF CatalogShaped, Kind, Request
  <2> QED
    BY <1>1, <2>1 DEF CatalogShaped, Kind, Request
<1>5. OnePageOut'
  <2>1. \A j, k \in 1..Len(events') : events'[j].op = events'[k].op => j = k
    BY <1>1, <1>3 DEF OnePageOut
  <2>2. \A k \in 1..Len(events') : events'[k].op # e.op
    BY <1>1, <1>2, <1>3 DEF OnePageOut
  <2>3. ASSUME NEW p \in pending'
        PROVE  Kind(p) = "page" /\ (Running(p) \/ \E k \in 1..Len(events') : events'[k].op = p)
    <3>1. p \in pending /\ p # e.op
      OBVIOUS
    <3>2. CASE Running(p)
      BY <1>1, <3>1, <3>2 DEF OnePageOut
    <3>3. CASE ~Running(p)
      <4>1. PICK k \in 1..Len(events) : events[k].op = p
        BY <1>1, <3>1, <3>3 DEF OnePageOut
      <4>2. Len(events') = Len(events) - 1 /\ k # 1
        BY <1>2, <3>1, <4>1 DEF CatalogInv, BrowseInv, Shaped
      <4>3. k - 1 \in 1..Len(events') /\ events'[k - 1] = events[k]
        BY <1>2, <1>3, <4>1, <4>2
      <4> QED
        BY <1>1, <3>1, <4>1, <4>3 DEF OnePageOut
    <3> QED
      BY <3>2, <3>3
  <2>4. ASSUME NEW o \in Operation, Kind(o) = "page"
        PROVE  /\ Running(o) => o \in pending'
               /\ \A k \in 1..Len(events') : events'[k].op = o => o \in pending'
    <3>1. Running(o) => o \in pending'
      BY <1>1, <1>2, <2>4 DEF OnePageOut
    <3>2. \A k \in 1..Len(events') : events'[k].op = o => o \in pending'
      BY <1>1, <1>3, <2>2, <2>4 DEF OnePageOut
    <3> QED
      BY <3>1, <3>2
  <2>5. pending' \subseteq Operation' /\ \A p, q \in pending' : p = q
    BY <1>1 DEF OnePageOut
  <2> QED
    BY <1>1, <2>1, <2>3, <2>4, <2>5 DEF OnePageOut, Kind, Running
<1> QED
  BY <1>4, <1>5 DEF CatalogInv

\* A page goes into its branch: the budget is charged for what the branch then holds.
LEMMA PageLoadedHolds ==
    ASSUME CatalogInv, NEW e, e.op \in pending, NEW request \in PageRequests, request = Request(e.op),
           e.content \in CatalogPages(request), PageLoaded(e)
    PROVE  /\ tree' \in [Branches -> BranchStates]
           /\ \A b \in Branches :
                /\ \A x \in tree'[b].nodes : x[1] = b
                /\ tree'[b].next # NoToken => tree'[b].loaded /\ ~tree'[b].truncated
                /\ tree'[b].loaded => tree'[b].prefix \in Prefixes
           /\ retained' = UNION {tree'[b].nodes : b \in Branches} /\ WithinCaps(retained)'
           /\ /\ \A b \in Branches : BranchCovered(b)
              /\ Resumes(e.op) /\ Kind(e.op) = "page"
              /\ request.token = NoToken \/ tree[request.branch].loaded
              => \A b \in Branches : BranchCovered(b)'
<1>1. PICK branch : branch = request.branch
  OBVIOUS
<1>2. PICK old : old = IF request.token # NoToken THEN tree[branch].nodes ELSE {}
  OBVIOUS
<1>3. PICK held : held = IF request.token # NoToken THEN retained ELSE retained \ tree[branch].nodes
  OBVIOUS
<1>4. PICK accepted : accepted = Accepted(held, e.content.nodes, branch)
  OBVIOUS
<1>5. PICK truncated \in BOOLEAN : truncated = (e.content.truncated \/ ~(e.content.nodes \subseteq held \cup accepted))
  OBVIOUS
<1>6. PICK next : next = IF truncated THEN NoToken ELSE e.content.next
  OBVIOUS
<1>7. PICK new : new = [loaded |-> TRUE, nodes |-> old \cup accepted, truncated |-> truncated, stale |-> FALSE,
                        next |-> next, prefix |-> request.prefix]
  OBVIOUS
<1>8. retained' = held \cup accepted /\ tree' = [tree EXCEPT ![branch] = new]
  <2>1. (e.op \in pending /\ request.token # NoToken) <=> request.token # NoToken
    OBVIOUS
  <2>2. (truncated \/ e.op \notin pending) <=> truncated
    OBVIOUS
  <2> QED
    BY <1>1, <1>2, <1>3, <1>4, <1>5, <1>6, <1>7, <2>1, <2>2 DEF PageLoaded
<1>9. /\ tree \in [Branches -> BranchStates] /\ retained = UNION {tree[b].nodes : b \in Branches}
      /\ \A b \in Branches : /\ \A x \in tree[b].nodes : x[1] = b
                             /\ tree[b].next # NoToken => tree[b].loaded /\ ~tree[b].truncated
                             /\ tree[b].loaded => tree[b].prefix \in Prefixes
  BY DEF CatalogInv, CatalogShaped
<1>10. /\ branch \in Branches /\ request.prefix \in Prefixes /\ request.token \in Tokens
       /\ tree[branch] \in BranchStates /\ \A b \in Branches : tree[b].nodes \subseteq Nodes
  BY <1>1, <1>9 DEF PageRequests, BranchStates
<1>11. /\ e.content.nodes \in SUBSET Nodes /\ e.content.next \in Tokens /\ e.content.truncated \in BOOLEAN
       /\ \A x \in e.content.nodes : x[1] = branch
       /\ ~e.content.truncated =>
             Covers(e.content.nodes, branch, request.prefix, request.token.after, e.content.next)
  BY <1>1, PageCovers
<1>12. retained \in SUBSET Nodes /\ held \in SUBSET retained /\ held \in SUBSET Nodes
  BY <1>3, <1>9, <1>10
<1>13. WithinCaps(held)
  BY <1>12, CapsGiveBack DEF CatalogInv
<1>14. accepted \subseteq e.content.nodes /\ WithinCaps(held \cup accepted)
  BY <1>4, <1>10, <1>11, <1>12, <1>13, AcceptedFits
<1>15. next \in Tokens /\ (next # NoToken => ~truncated)
  BY <1>6, <1>11 DEF NoToken, Tokens
<1>16. /\ new \in BranchStates /\ new.nodes = old \cup accepted /\ new.loaded = TRUE /\ new.truncated = truncated
       /\ new.next = next /\ new.prefix = request.prefix /\ \A x \in new.nodes : x[1] = branch
  <2>1. old \in SUBSET Nodes /\ accepted \in SUBSET Nodes /\ old \cup accepted \in SUBSET Nodes
    BY <1>2, <1>10, <1>11, <1>14
  <2>2. \A x \in old \cup accepted : x[1] = branch
    BY <1>2, <1>9, <1>10, <1>11, <1>14
  <2> QED
    BY <1>5, <1>7, <1>10, <1>15, <2>1, <2>2 DEF BranchStates
<1>17. /\ tree' \in [Branches -> BranchStates] /\ tree'[branch] = new
       /\ \A b \in Branches : b # branch => tree'[b] = tree[b]
  BY <1>8, <1>9, <1>10, <1>16
<1>18. \A b \in Branches :
         /\ \A x \in tree'[b].nodes : x[1] = b
         /\ tree'[b].next # NoToken => tree'[b].loaded /\ ~tree'[b].truncated
         /\ tree'[b].loaded => tree'[b].prefix \in Prefixes
  BY <1>9, <1>10, <1>15, <1>16, <1>17
<1>19. \A x \in retained : x[1] = branch => x \in tree[branch].nodes
  BY <1>9
<1>20. retained' = UNION {tree'[b].nodes : b \in Branches}
  <2>1. ASSUME NEW x \in held \cup accepted PROVE \E b \in Branches : x \in tree'[b].nodes
    <3>1. CASE x \in accepted
      BY <1>10, <1>16, <1>17, <3>1
    <3>2. CASE x \in held
      <4>1. PICK b \in Branches : x \in tree[b].nodes
        BY <1>9, <1>12, <3>2
      <4>2. CASE b = branch
        BY <1>2, <1>3, <1>10, <1>16, <1>17, <3>2, <4>1, <4>2
      <4>3. CASE b # branch
        BY <1>17, <4>1, <4>3
      <4> QED
        BY <4>2, <4>3
    <3> QED
      BY <3>1, <3>2
  <2>2. ASSUME NEW b \in Branches, NEW x \in tree'[b].nodes PROVE x \in held \cup accepted
    <3>1. CASE b = branch
      <4>1. x \in old \/ x \in accepted
        BY <1>16, <1>17, <3>1, <2>2
      <4> QED
        BY <1>2, <1>3, <1>9, <1>10, <4>1
    <3>2. CASE b # branch
      <4>1. x \in tree[b].nodes /\ x[1] # branch /\ x \in retained
        BY <1>9, <1>17, <2>2, <3>2
      <4>2. x \notin tree[branch].nodes
        BY <1>9, <1>10, <4>1
      <4> QED
        BY <1>3, <4>1, <4>2
    <3> QED
      BY <3>1, <3>2
  <2> QED
    BY <1>8, <2>1, <2>2
<1>21. WithinCaps(retained)'
  BY <1>8, <1>14 DEF WithinCaps
<1>22. ASSUME \A b \in Branches : BranchCovered(b), Resumes(e.op), Kind(e.op) = "page",
              request.token = NoToken \/ tree[branch].loaded
       PROVE  \A b \in Branches : BranchCovered(b)'
  <2>1. ASSUME ~truncated PROVE Covers(new.nodes, branch, request.prefix, 0, next)
    <3>1. /\ ~e.content.truncated /\ e.content.nodes \subseteq held \cup accepted /\ next = e.content.next
          /\ Covers(e.content.nodes, branch, request.prefix, request.token.after, next)
      BY <1>5, <1>6, <1>11, <2>1
    <3>2. ASSUME NEW x \in StableNodes, x[1] = branch, x[2] \in MatchingPlaces[request.prefix], x[2] > 0,
                 next = NoToken \/ x[2] <= next.after
          PROVE  x \in new.nodes
      <4>1. x[2] \in Nat /\ request.token.after \in Nat /\ NoToken.after = 0
        BY <1>10, CatalogAssumption DEF Tokens, NoToken
      <4>2. CASE x[2] > request.token.after
        <5>1. x \in e.content.nodes
          BY <3>1, <3>2, <4>2 DEF Covers
        <5>2. CASE x \in accepted
          BY <1>16, <5>2
        <5>3. CASE x \in held
          <6>1. x \in tree[branch].nodes
            BY <1>12, <1>19, <3>2, <5>3
          <6> QED
            BY <1>2, <1>3, <1>16, <5>3, <6>1
        <5> QED
          BY <3>1, <5>1, <5>2, <5>3
      <4>3. CASE ~(x[2] > request.token.after)
        <5>1. request.token # NoToken /\ x[2] <= request.token.after
          BY <3>2, <4>1, <4>3
        <5>2. tree[branch].loaded /\ tree[branch].next = request.token /\ tree[branch].prefix = request.prefix
          BY <1>1, <1>22, <5>1 DEF Resumes
        <5>3. ~tree[branch].truncated /\ BranchCovered(branch)
          BY <1>9, <1>10, <1>22, <5>1, <5>2
        <5>4. Covers(tree[branch].nodes, branch, request.prefix, 0, request.token)
          BY <5>2, <5>3 DEF BranchCovered
        <5>5. x \in tree[branch].nodes
          BY <3>2, <5>1, <5>4 DEF Covers
        <5> QED
          BY <1>2, <1>16, <5>1, <5>5
      <4> QED
        BY <4>2, <4>3
    <3> QED
      BY <3>2 DEF Covers
  <2>2. ASSUME NEW b \in Branches PROVE BranchCovered(b)'
    <3>1. CASE b = branch
      BY <1>16, <1>17, <2>1, <3>1 DEF BranchCovered, Covers
    <3>2. CASE b # branch
      <4>1. BranchCovered(b) /\ tree'[b] = tree[b]
        BY <1>17, <1>22, <3>2
      <4> QED
        BY <4>1 DEF BranchCovered, Covers
    <3> QED
      BY <3>1, <3>2
  <2> QED
    BY <2>2
<1> QED
  BY <1>1, <1>17, <1>18, <1>20, <1>21, <1>22

\* A failed page marks its branch stale, and nothing else of the tree changes.
LEMMA PageFailedHolds ==
    ASSUME CatalogInv, NEW e, NEW request \in PageRequests, request = Request(e.op), PageFailed(e)
    PROVE  /\ tree' \in [Branches -> BranchStates] /\ retained' = retained
           /\ \A b \in Branches :
                /\ tree'[b].loaded = tree[b].loaded /\ tree'[b].nodes = tree[b].nodes
                /\ tree'[b].next = tree[b].next /\ tree'[b].truncated = tree[b].truncated
                /\ tree'[b].prefix = tree[b].prefix
<1>1. PICK branch \in Branches : branch = request.branch
  BY DEF PageRequests
<1>2. tree \in [Branches -> BranchStates] /\ tree[branch] \in BranchStates
  BY <1>1 DEF CatalogInv, CatalogShaped
<1>3. PICK stale \in BOOLEAN : stale = (tree[branch].stale \/ tree[branch].loaded)
  BY <1>2 DEF BranchStates
<1>4. PICK new : new = [tree[branch] EXCEPT !.stale = stale]
  OBVIOUS
<1>5. tree' = [tree EXCEPT ![branch] = new] /\ retained' = retained
  BY <1>1, <1>2, <1>3, <1>4 DEF PageFailed
<1>6. /\ new \in BranchStates /\ new.loaded = tree[branch].loaded /\ new.nodes = tree[branch].nodes
      /\ new.next = tree[branch].next /\ new.truncated = tree[branch].truncated
      /\ new.prefix = tree[branch].prefix
  BY <1>2, <1>3, <1>4 DEF BranchStates
<1>7. \A b \in Branches : tree'[b] = IF b = branch THEN new ELSE tree[b]
  BY <1>1, <1>2, <1>5
<1> QED
  BY <1>1, <1>2, <1>5, <1>6, <1>7

\* The answer of a page, of the active operation or of one a Disconnect has displaced.
LEMMA CatalogApplies ==
    ASSUME CatalogInv, events # <<>>, NEW e, e = Head(events), events' = Tail(events),
           UNCHANGED <<operations, session, sessions>>, Kind(e.op) = "page", ApplyCatalogEvent(e)
    PROVE  CatalogInv'
<1>1. BrowseInv(CatalogRequests, CatalogContents) /\ Recorded /\ CatalogShaped /\ OnePageOut
  BY DEF CatalogInv
<1>2. /\ Len(events) \in Nat \ {0} /\ e = events[1] /\ e \in AnswersOf(CatalogContents)
      /\ e.op \in Operation /\ e.op \in Nat \ {0}
      /\ e.op # active => active # 0 /\ Kind(active) = "disconnect"
      /\ e.op = active /\ Kind(e.op) \in BrowseKinds => conn.state # "Pending"
      /\ e.op = active /\ e.disposition = "Evict" /\ conn.state = "Connected" => e.session = conn.at
      /\ conn \in ConnectionStates /\ Connected(e.session) \in ConnectionStates
      /\ Disconnected \in ConnectionStates
  BY <1>1, NextEvent
<1>3. /\ active' = Finished(e.op) /\ recipes' \subseteq recipes /\ conn' = SessionAfter(e)
      /\ pending' = pending \ {e.op} /\ UNCHANGED cycle
  BY DEF ApplyCatalogEvent, RecipesAfter
<1>4. "page" \in BrowseKinds /\ "disconnect" \notin BrowseKinds
  BY DEF BrowseKinds
<1>5. BrowseInv(CatalogRequests, CatalogContents)'
  <2>1. conn' \in ConnectionStates
    BY <1>2, <1>3 DEF SessionAfter
  <2>2. e.op # active => conn' = conn
    <3>1. e.op # active => conn = Pending(active)
      BY <1>1, <1>2, <1>4 DEF BrowseInv, PendingIsActive
    <3>2. e.op # active => conn.state = "Pending"
      BY <3>1 DEF Pending
    <3> QED
      BY <1>3, <3>2 DEF SessionAfter
  <2>3. e.disposition \in {"none", "Keep", "Evict"}
    BY <1>2 DEF AnswersOf
  <2>4. ASSUME e.op = active
        PROVE  \/ conn' = Disconnected
               \/ conn' = Connected(e.session) /\ e.disposition = "Keep"
               \/ /\ conn' = conn /\ conn.state # "Pending"
                  /\ e.disposition = "Evict" => conn.state # "Connected"
    BY <1>2, <1>3, <1>4, <2>3, <2>4 DEF SessionAfter
  <2> QED
    BY <1>1, <1>3, <2>1, <2>2, <2>4, Taking
<1>6. PICK request : request = Request(e.op)
  OBVIOUS
<1>7. e.op \in pending /\ request \in PageRequests /\ request.branch \in Branches
  <2>1. request \in PageRequests
    BY <1>1, <1>2, <1>4, <1>6 DEF CatalogShaped
  <2>2. 1 \in 1..Len(events)
    BY <1>2
  <2>3. e.op \in pending
    BY <1>1, <1>2, <2>2 DEF OnePageOut
  <2> QED
    BY <2>1, <2>3 DEF PageRequests
<1>8. pending' = {}
  BY <1>1, <1>3, <1>7 DEF OnePageOut
<1>9. /\ adopted \in BOOLEAN /\ tree[request.branch].loaded \in BOOLEAN
      /\ adopted' = (adopted \/ /\ e.answer = "loaded" /\ request.token # NoToken
                                /\ ~tree[request.branch].loaded)
      /\ adopted' \in BOOLEAN
  BY <1>1, <1>6, <1>7 DEF ApplyCatalogEvent, Recorded, CatalogShaped, BranchStates
<1>10. /\ e.answer = "failed" => failed'["page"] = e.op
       /\ e.answer # "failed" => failed'["page"] = 0
       /\ Recorded'
  <2>1. PICK v : v = IF e.answer = "failed" THEN e.op ELSE 0
    OBVIOUS
  <2>2. failed' = [failed EXCEPT !["page"] = v] /\ v \in {0, e.op} /\ cycle' \in Nat /\ failed'["page"] = v
    BY <1>1, <1>3, <1>4, <2>1 DEF ApplyCatalogEvent, Recorded
  <2>3. Recorded'
    BY <1>1, <1>2, <1>3, <1>4, <1>9, <2>2, RecordTakes
  <2> QED
    BY <2>1, <2>2, <2>3
<1>11. ~adopted => (\A b \in Branches : BranchCovered(b)) /\ Resumes(e.op)
  BY <1>7 DEF CatalogInv
<1>12. CASE e.answer = "loaded" /\ PageLoaded(e)
  <2>1. e.content \in CatalogPages(request)
    <3>1. 1 \in 1..Len(events)
      BY <1>2
    <3> QED
      BY <1>1, <1>2, <1>6, <1>12, <3>1 DEF CatalogShaped
  <2>2. /\ tree' \in [Branches -> BranchStates]
        /\ \A b \in Branches :
             /\ \A x \in tree'[b].nodes : x[1] = b
             /\ tree'[b].next # NoToken => tree'[b].loaded /\ ~tree'[b].truncated
             /\ tree'[b].loaded => tree'[b].prefix \in Prefixes
        /\ retained' = UNION {tree'[b].nodes : b \in Branches} /\ WithinCaps(retained)'
        /\ /\ \A b \in Branches : BranchCovered(b)
           /\ Resumes(e.op) /\ Kind(e.op) = "page"
           /\ request.token = NoToken \/ tree[request.branch].loaded
           => \A b \in Branches : BranchCovered(b)'
    BY <1>6, <1>7, <1>12, <2>1, PageLoadedHolds
  <2>3. ~adopted' => \A b \in Branches : BranchCovered(b)'
    BY <1>9, <1>11, <1>12, <2>2
  <2>4. failed'["page"] = 0
    BY <1>10, <1>12
  <2> QED
    BY <1>3, <1>5, <1>8, <1>10, <2>2, <2>3, <2>4, CatalogTaken
<1>13. CASE e.answer = "failed" /\ PageFailed(e)
  <2>1. /\ tree' \in [Branches -> BranchStates] /\ retained' = retained
        /\ \A b \in Branches :
             /\ tree'[b].loaded = tree[b].loaded /\ tree'[b].nodes = tree[b].nodes
             /\ tree'[b].next = tree[b].next /\ tree'[b].truncated = tree[b].truncated
             /\ tree'[b].prefix = tree[b].prefix
    BY <1>6, <1>7, <1>13, PageFailedHolds
  <2>2. \A b \in Branches :
           /\ \A x \in tree'[b].nodes : x[1] = b
           /\ tree'[b].next # NoToken => tree'[b].loaded /\ ~tree'[b].truncated
           /\ tree'[b].loaded => tree'[b].prefix \in Prefixes
    BY <1>1, <2>1 DEF CatalogShaped
  <2>3. retained' = UNION {tree'[b].nodes : b \in Branches}
    <3>1. \A x : (\E b \in Branches : x \in tree'[b].nodes) <=> x \in retained
      BY <1>1, <2>1 DEF CatalogShaped
    <3> QED
      BY <2>1, <3>1
  <2>4. WithinCaps(retained)'
    BY <2>1 DEF CatalogInv, WithinCaps
  <2>5. ASSUME ~adopted'
        PROVE  /\ \A b \in Branches : BranchCovered(b)'
               /\ failed'["page"] # 0 => Resumes(failed["page"])'
    <3>1. \A b \in Branches : BranchCovered(b)'
      BY <1>9, <1>11, <2>1, <2>5 DEF BranchCovered, Covers
    <3>2. Resumes(e.op)
      BY <1>9, <1>11, <2>5
    <3>3. failed'["page"] = e.op
      BY <1>10, <1>13
    <3>4. Resumes(failed["page"])'
      BY SMTT(60), <1>6, <1>7, <2>1, <3>2, <3>3 DEF Resumes, Kind, Request
    <3> QED
      BY <3>1, <3>4
  <2> QED
    BY <1>3, <1>5, <1>8, <1>10, <2>1, <2>2, <2>3, <2>4, <2>5, CatalogTaken
<1> QED
  BY <1>12, <1>13 DEF ApplyCatalogEvent

\* The answer of connection work leaves the catalog.
LEMMA CatalogConnects ==
    ASSUME CatalogInv, events # <<>>, NEW e, e = Head(events), events' = Tail(events),
           UNCHANGED <<operations, session, sessions>>, Kind(e.op) # "page", ApplyConnectionWork(e)
    PROVE  CatalogInv'
<1>1. BrowseInv(CatalogRequests, CatalogContents) /\ Recorded /\ CatalogShaped /\ OnePageOut
  BY DEF CatalogInv
<1>2. /\ UNCHANGED <<failed, cycle, adopted, tree, pending, retained>>
      /\ active' = Finished(e.op) /\ recipes' \subseteq recipes /\ conn' = FoldConnection(e)
  BY DEF ApplyConnectionWork, RecipesAfter, explorerVars
<1>3. e.op \in Operation
  BY <1>1, NextEvent
<1>4. Kind(e.op) \notin BrowseKinds /\ e.op \notin pending
  BY <1>1, <1>3 DEF CatalogShaped, OnePageOut
<1>5. /\ conn' \in ConnectionStates
      /\ e.op # active => conn' = conn
      /\ e.op = active => \/ conn' = Disconnected
                          \/ conn' = Connected(e.session) /\ e.disposition = "Keep"
  BY <1>1, <1>2, <1>4, ConnectionFolds
<1>6. BrowseInv(CatalogRequests, CatalogContents)'
  BY <1>1, <1>2, <1>5, Taking
<1>7. Recorded'
  <2>1. Operation' = Operation
    BY DEF Operation
  <2> QED
    BY <1>1, <1>2, <2>1 DEF Recorded, Kind
<1>8. pending' = pending \ {e.op} /\ tree' \in [Branches -> BranchStates]
  BY <1>1, <1>2, <1>4 DEF CatalogShaped
<1>9. /\ \A b \in Branches :
           /\ \A x \in tree'[b].nodes : x[1] = b
           /\ tree'[b].next # NoToken => tree'[b].loaded /\ ~tree'[b].truncated
           /\ tree'[b].loaded => tree'[b].prefix \in Prefixes
      /\ retained' = UNION {tree'[b].nodes : b \in Branches}
  BY <1>1, <1>2 DEF CatalogShaped
<1>10. WithinCaps(retained)'
  BY <1>2 DEF CatalogInv, WithinCaps
<1>11. ASSUME ~adopted'
       PROVE  /\ \A b \in Branches : BranchCovered(b)'
              /\ \A p \in pending' : Resumes(p)'
              /\ failed'["page"] # 0 => Resumes(failed["page"])'
  <2>1. /\ \A b \in Branches : BranchCovered(b)
        /\ \A p \in pending : Resumes(p)
        /\ failed["page"] # 0 => Resumes(failed["page"])
    BY <1>2, <1>11 DEF CatalogInv
  <2>2. \A o : Resumes(o) => Resumes(o)'
    BY <1>2 DEF Resumes, Kind, Request
  <2>3. \A b \in Branches : BranchCovered(b)'
    BY <1>2, <2>1 DEF BranchCovered, Covers
  <2> QED
    BY <1>2, <2>1, <2>2, <2>3
<1> QED
  BY <1>6, <1>7, <1>8, <1>9, <1>10, <1>11, CatalogTaken

\* Every step keeps the invariant.
LEMMA CatalogStep ==
    ASSUME CatalogInv, [CatalogNext]_catalogVars
    PROVE  CatalogInv'
<1>1. CASE PollCatalogEvent
  <2>1. PICK e : e = Head(events)
    OBVIOUS
  <2>2. /\ events # <<>> /\ events' = Tail(events) /\ UNCHANGED <<operations, session, sessions>>
        /\ \/ Kind(e.op) = "page" /\ ApplyCatalogEvent(e)
           \/ Kind(e.op) # "page" /\ ApplyConnectionWork(e)
    BY <1>1, <2>1 DEF PollCatalogEvent
  <2> QED
    BY <2>1, <2>2, CatalogApplies, CatalogConnects
<1>2. ASSUME NEW op \in Operation, CatalogRuntimeStep(op) PROVE CatalogInv'
  <2>1. BrowseInv(CatalogRequests, CatalogContents) /\ NoContent \in CatalogContents
    BY DEF CatalogInv, CatalogContents
  <2>2. CASE FinishCatalog(op)
    <3>1. PICK c \in CatalogPages(Request(op)) : FinishBrowse(op, c)
      BY <2>2 DEF FinishCatalog
    <3>2. Kind(op) = "page" /\ Request(op) \in PageRequests /\ UNCHANGED explorerVars
      BY <1>2, <2>2 DEF FinishCatalog, CatalogInv, CatalogShaped, BrowseKinds
    <3>3. c \in CatalogContents /\ c \in CatalogAnswers(op)
      BY <3>1, <3>2, PageCovers DEF CatalogAnswers
    <3>4. BrowseInv(CatalogRequests, CatalogContents)' /\ TaskFrame /\ Sends(op, CatalogAnswers(op))
      BY <1>2, <2>1, <3>1, <3>3, BrowseFinishes
    <3> QED
      BY <1>2, <3>2, <3>4, CatalogTask
  <2>3. CASE TaskStep(op) /\ UNCHANGED explorerVars
    <3>1. BrowseInv(CatalogRequests, CatalogContents)' /\ TaskFrame /\ Sends(op, CatalogAnswers(op))
      BY <1>2, <2>1, <2>3, TaskSteps
    <3> QED
      BY <1>2, <2>3, <3>1, CatalogTask
  <2> QED
    BY <1>2, <2>2, <2>3 DEF CatalogRuntimeStep
<1>3. CASE UNCHANGED catalogVars
  <2>1. /\ UNCHANGED <<operations, active, conn, session, sessions, events, cycle, adopted, recipes, failed>>
        /\ UNCHANGED explorerVars
    BY <1>3 DEF catalogVars, browseVars, explorerVars
  <2> QED
    BY <2>1, CatalogLocal
<1> QED
  BY <1>1, <1>2, <1>3, CatalogUser DEF CatalogNext

-----------------------------------------------------------------------------
(* The inductive invariant of the catalog explorer holds of every          *)
(* behaviour of the window, the tasks and the session cache.               *)
THEOREM CatalogSafe == CatalogSpec => []CatalogInv
<1>1. CatalogInit => CatalogInv
  BY CatalogStarts
<1>2. CatalogInv /\ [CatalogNext]_catalogVars => CatalogInv'
  BY CatalogStep
<1> QED
  BY <1>1, <1>2, PTL DEF CatalogSpec

(* Whatever browses, retries, reconnects and disconnects interleave, a     *)
(* card that says Connected names the cached session, or the event that    *)
(* corrects it is queued (fold_catalog_session and UiModel::fold against   *)
(* the evictions of run_catalog_browse and run_profile_control).           *)
THEOREM CatalogCardIsLive == CatalogSpec => []ConnectedIsLive
<1>1. CatalogInv => ConnectedIsLive
  BY LiveFollows DEF CatalogInv
<1> QED
  BY <1>1, CatalogSafe, PTL

(* The budget is charged for exactly the nodes the branches hold and no    *)
(* cap is passed, for every catalog, page size and caps                    *)
(* (MySqlExplorerState::handle_loaded and CatalogRetention).               *)
THEOREM CatalogIsAccounted == CatalogSpec => []CatalogAccounted
<1>1. ASSUME CatalogInv PROVE CatalogAccounted
  <2>1. BrowseInv(CatalogRequests, CatalogContents) /\ Recorded /\ CatalogShaped /\ OnePageOut /\ WithinCaps(retained)
    BY <1>1 DEF CatalogInv
  <2>2. BrowsingTypeOK
    BY <2>1, BrowsingTyped
  <2>3. /\ tree \in [Branches -> BranchStates] /\ retained = UNION {tree[b].nodes : b \in Branches}
        /\ \A b \in Branches : \A x \in tree[b].nodes : x[1] = b
    BY <2>1 DEF CatalogShaped
  <2>4. CatalogTypeOK
    <3>1. \A b \in Branches : tree[b].nodes \subseteq Nodes /\ tree[b].prefix \in Prefixes \cup {"none"}
      BY <2>3 DEF BranchStates
    <3>2. retained \subseteq Nodes
      BY <2>3, <3>1
    <3> QED
      BY <2>1, <2>2, <2>3, <3>1, <3>2 DEF CatalogTypeOK, OnePageOut
  <2>5. ASSUME NEW b \in Branches, Level[b] = "columns" PROVE Cardinality(tree[b].nodes) <= BranchCap
    <3>1. tree[b].nodes = {x \in retained : x[1] = b}
      BY <2>3
    <3> QED
      BY <2>1, <2>5, <3>1 DEF WithinCaps
  <2> QED
    BY <2>1, <2>3, <2>4, <2>5 DEF CatalogAccounted, WithinCaps
<1> QED
  BY <1>1, CatalogSafe, PTL

(* A branch shown without "Load more" and without a cap notice holds every *)
(* node that stayed in the catalog and matches its prefix, for every       *)
(* catalog, page size and caps (finish_page, load_more and handle_loaded). *)
THEOREM CatalogIsComplete == CatalogSpec => []CatalogComplete
<1>1. ASSUME CatalogInv PROVE CatalogComplete
  <2>1. ASSUME NEW b \in Branches, tree[b].loaded, ~tree[b].truncated, tree[b].next = NoToken, ~adopted,
               NEW x \in StableNodes, x[1] = b, x[2] \in MatchingPlaces[tree[b].prefix]
        PROVE  x \in tree[b].nodes
    <3>1. Covers(tree[b].nodes, b, tree[b].prefix, 0, NoToken)
      BY <1>1, <2>1 DEF CatalogInv, BranchCovered
    <3>2. x[2] > 0
      BY <2>1, CatalogAssumption
    <3> QED
      BY <2>1, <3>1, <3>2 DEF Covers
  <2> QED
    BY <2>1 DEF CatalogComplete
<1> QED
  BY <1>1, CatalogSafe, PTL
=============================================================================
