------------------------------ MODULE Frontend ------------------------------
(***************************************************************************)
(* catwalk/static/app.js: the table, its pages and the rollup panels, with *)
(* answers that arrive in any order, late, or not at all.  The folder tree *)
(* has records of its own and is not modelled.                             *)
(*                                                                         *)
(* JavaScript runs to the next await: a click, a timer or the arrival of   *)
(* an answer is one step, with every continuation of the promise that      *)
(* settles.  A token is modelled as the load that drew its present value,  *)
(* None once that load is over: another load finds its own token stale.    *)
(***************************************************************************)
EXTENDS Integers, Sequences, FiniteSets, SequencesExt

CONSTANTS Paths, Root,            \* directories, and the one shown first
          Sorts, FirstSort,       \* sort, order, type and page size
          Names, NoName,          \* texts of the name filter, and none
          PagesOf,                \* pages of each directory's listing
          PageCacheMax,           \* PAGE_CACHE_MAX
          MaxLoads, MaxRollups,   \* bounds: page loads outstanding; rollup loads
                                  \* outstanding and jobs watched
          None

Loads   == 1..MaxLoads
Fetches == 1..(MaxLoads + PageCacheMax + 1)
Rollups == 1..MaxRollups
Views   == [path : Paths, sort : Sorts, name : Names]

(* The pages that somebody can ask for.                                    *)
LastPage == Max({PagesOf[p] : p \in Paths})
Pages    == 1..LastPage

ASSUME FrontendAssumption ==
  /\ Root \in Paths /\ FirstSort \in Sorts /\ NoName \in Names
  /\ IsFiniteSet(Paths)
  /\ PagesOf \in [Paths -> Nat \ {0}]
  /\ {PageCacheMax, MaxLoads, MaxRollups} \subseteq Nat \ {0}
  /\ None \notin Paths \cup Nat \cup [view : Views, page : Pages]

VARIABLES
  view,             \* listingKey(): state.path, sort and order and type, filter
  page,             \* state.page
  pageCache, fetch, \* promises in pageCache, oldest first; the promises
  load,             \* pending loadPage calls: promise, navigate's target
  listingToken,
  wanted,           \* history: the page that was asked for last, as served
  listing, mark,    \* what the table shows, and its cells for directories
  pager,            \* what the pager allows
  stage, of,        \* pending loadRollup calls, and their paths
  job,              \* the server's job for each, while it counts this page
                    \* among its watchers
  deletes,          \* jobs whose DELETE was sent and has not been served
  rollupToken, rollupInFlight,
  active,           \* activeRollupJobId and activeRollupCancelToken
  panel             \* what the rollup panels show

tableVars  == <<page, listing, mark, pager>>
loadVars   == <<pageCache, fetch, load, listingToken, wanted>>
jobVars    == <<job, deletes, active>>
rollupVars == <<stage, of, jobVars, rollupToken, rollupInFlight, panel>>
vars == <<view, page, pageCache, fetch, load, listingToken, wanted,
          listing, mark, pager, stage, of, job, deletes, rollupToken,
          rollupInFlight, active, panel>>

Promises == [view : Views, page : Pages \cup {LastPage + 1},
             state : {"pending", "ok"}]
Blank == [kind |-> "blank", path |-> None]

ListingTypes ==
  /\ view \in Views /\ page \in Pages
  /\ pageCache \in Seq(Fetches) /\ fetch \in [Fetches -> Promises \cup {None}]
  /\ load \in [Loads -> [fetch : Fetches, target : Paths \cup {None}]
                        \cup {None}]
  /\ listingToken \in Loads \cup {None}
  /\ wanted \in Pages
  /\ listing \in [view : Views, page : Pages] \cup {None}
  /\ listing # None => listing.page \in 1..PagesOf[listing.view.path]
  /\ mark \in {"none", "dots"}
  /\ pager \in [prev : BOOLEAN, next : BOOLEAN, max : 0..LastPage]

RollupTypes ==
  /\ stage \in [Rollups -> {"idle", "asked", "polling"}]
  /\ of \in [Rollups -> Paths \cup {None}]
  /\ job \in [Rollups -> {"none", "running", "ended"}]
  /\ deletes \subseteq Rollups
  /\ rollupToken \in Rollups \cup {None}
  /\ rollupInFlight \in Paths \cup {None}
  /\ active \in Rollups \cup {None}
  /\ panel \in [kind : {"blank", "computing", "result", "failed"},
                path : Paths \cup {None}]

(* The type invariant.                                                     *)
TypeOK == ListingTypes /\ RollupTypes
-----------------------------------------------------------------------------
(* fetchPage.  S is the pair of pageCache and the promises.                *)

Hits(S, v, n) ==
  {f \in ToSet(S.cache) : S.fetch[f].view = v /\ S.fetch[f].page = n}

Newest(c) ==
  SubSeq(c, IF Len(c) > PageCacheMax THEN Len(c) - PageCacheMax + 1 ELSE 1,
         Len(c))

Held(c) == ToSet(c) \cup {load[l].fetch : l \in {k \in Loads : load[k] # None}}

Fetched(S, v, n) ==
  IF Hits(S, v, n) # {} THEN S
  ELSE LET f == CHOOSE i \in Fetches \ Held(S.cache) : TRUE
       IN  [cache |-> Newest(Append(S.cache, f)),
            fetch |-> [S.fetch EXCEPT
                         ![f] = [view |-> v, page |-> n, state |-> "pending"]]]

(* The prefetch of the next page, and on a forward streak of one more      *)
(* (forwardStreak, which serves nothing else, is left open).               *)
Prefetched(S, v, n, streak) ==
  LET one == IF n < PagesOf[v.path] THEN Fetched(S, v, n + 1) ELSE S
  IN  IF streak /\ n + 2 =< PagesOf[v.path] THEN Fetched(one, v, n + 2)
      ELSE one

(* A promise that is neither cached nor awaited has no effect any more.    *)
Keep(S) ==
  /\ pageCache' = S.cache
  /\ fetch' = [f \in Fetches |->
                IF \/ f \in ToSet(S.cache)
                   \/ \E l \in Loads : load'[l] # None /\ load'[l].fetch = f
                THEN S.fetch[f] ELSE None]
-----------------------------------------------------------------------------
(* The server answers with its last page for any page beyond.              *)
(* Mutation: it answers with the page it was asked for.                    *)
ServedAsAsked(v, n) == n
Served(v, n) == IF n > PagesOf[v.path] THEN PagesOf[v.path] ELSE n

(* What renderTable puts in the cells of directories of path p: dots while *)
(* a rollup is in flight, or the statistics of an older one (whether it is *)
(* still known is left open) or a dash, none of which is dots.             *)
Marks(p, inFlight) ==
  {"none", IF inFlight = p THEN "dots" ELSE "none"}

(* loadPage, once its page n of view v is there.                           *)
Show(S, v, n) ==
  LET p == Served(v, n)
  IN  /\ listing' = [view |-> v, page |-> p]
      /\ page' = p
      /\ mark' \in Marks(v.path, rollupInFlight)
      /\ pager' = [prev |-> p > 1, next |-> p < PagesOf[v.path],
                   max |-> PagesOf[v.path]]
      /\ \E T \in {Prefetched(S, v, p, streak) : streak \in BOOLEAN} : Keep(T)

ClearListingUI ==
  /\ listing' = None /\ mark' = "none"
  /\ pager' = [prev |-> FALSE, next |-> FALSE, max |-> 0]
  /\ UNCHANGED page

(* A load without its token does nothing more, unless a navigation awaits  *)
(* it.                                                                     *)
Superseded ==
  [l \in Loads |-> IF load[l] # None /\ load[l].target # None THEN load[l]
                  ELSE None]

(* loadPage of page n for the view after this step, from an emptied cache  *)
(* after resetListing: a page that is there is shown at once.              *)
LoadPage(l, n, target, reset) ==
  /\ Superseded[l] = None
  /\ \A k \in Loads : Superseded[k] = None => l =< k
  /\ wanted' = Served(view', n)
  /\ LET c == IF reset THEN <<>> ELSE pageCache
     IN  \E S \in {Fetched([cache |-> c, fetch |-> fetch], view', n)} :
         \E f \in Hits(S, view', n) :
           IF S.fetch[f].state = "ok"
           THEN /\ listingToken' = None /\ load' = Superseded
                /\ Show(S, view', n)
           ELSE /\ listingToken' = l
                /\ load' = [Superseded EXCEPT
                             ![l] = [fetch |-> f, target |-> target]]
                /\ Keep(S)
                /\ page' = (IF reset THEN 1 ELSE page)
                /\ UNCHANGED <<listing, mark, pager>>
-----------------------------------------------------------------------------
(* A DELETE is sent for each job of S (to the server, one that has ended is*)
(* no job any more).  It may arrive at any time or be lost, which the page *)
(* does not look at: .catch(() => {}).                                     *)
Delete(S) ==
  /\ deletes' = deletes \cup {r \in S : job[r] = "running"}
  /\ job' = [r \in Rollups |-> IF r \in S /\ job[r] = "ended" THEN "none"
                              ELSE job[r]]

(* cancelActiveRollup: the chain of the current rollup loses its token and *)
(* the server is told to stop watching.                                    *)
CancelActiveRollup ==
  /\ rollupToken' = None /\ rollupInFlight' = None /\ active' = None
  /\ Delete({active} \cap Rollups)

(* loadRollup, up to its request.                                          *)
Free(r) == stage[r] = "idle" /\ job[r] = "none"

LoadRollup(r, p) ==
  /\ Free(r) /\ \A q \in Rollups : Free(q) => r =< q
  /\ rollupToken' = r /\ rollupInFlight' = p /\ active' = None
  /\ Delete({active} \cap Rollups)
  /\ stage' = [stage EXCEPT ![r] = "asked"] /\ of' = [of EXCEPT ![r] = p]
  /\ panel' = [kind |-> "computing", path |-> p]

(* navigate, up to the await of its loadPage.                              *)
Navigate(l, p) ==
  /\ view' = [path |-> p, sort |-> view.sort, name |-> NoName]
  /\ LoadPage(l, 1, p, TRUE)
  /\ CancelActiveRollup /\ panel' = Blank
  /\ UNCHANGED <<stage, of>>

(* refreshListing, after a click on a header or a change of type or size.  *)
Sort(l, s) ==
  /\ view' = [view EXCEPT !.sort = s]
  /\ LoadPage(l, 1, None, TRUE)
  /\ UNCHANGED rollupVars

(* filterTimer.  The text is any: what was typed last, or none if a        *)
(* navigation, which leaves the timer running, has emptied the input.      *)
Filter(l, n) ==
  /\ view' = [view EXCEPT !.name = n]
  /\ LoadPage(l, 1, None, TRUE)
  /\ UNCHANGED rollupVars

PrevPage(l) ==
  /\ pager.prev /\ page > 1
  /\ UNCHANGED view
  /\ LoadPage(l, page - 1, None, FALSE)
  /\ UNCHANGED rollupVars

NextPage(l) ==
  /\ pager.next
  /\ UNCHANGED view
  /\ LoadPage(l, page + 1, None, FALSE)
  /\ UNCHANGED rollupVars

(* The form accepts no page beyond its max, if it has one.                 *)
Jump(l, n) ==
  /\ pager.max = 0 \/ n =< pager.max
  /\ UNCHANGED view
  /\ LoadPage(l, n, None, FALSE)
  /\ UNCHANGED rollupVars

Click(l) ==
  \/ \E p \in Paths : Navigate(l, p)
  \/ \E s \in Sorts : Sort(l, s)
  \/ \E n \in Names : Filter(l, n)
  \/ PrevPage(l) \/ NextPage(l)
  \/ \E n \in Pages : Jump(l, n)
-----------------------------------------------------------------------------
(* A promise settles: fetchPage, loadPage and navigate go on.              *)

Waiting(f) == {l \in Loads : load[l] # None /\ load[l].fetch = f}
Resumed(f) ==
  load' = [l \in Loads |-> IF l \in Waiting(f) THEN None ELSE load[l]]
Pending(f) == fetch[f] # None /\ fetch[f].state = "pending"

(* Whether a load that waits for f still owns the table.                   *)
(* Mutation: the check of the token is forgotten.                          *)
OwnsByView(f) == Waiting(f) # {} /\ fetch[f].view = view
Owns(f) == listingToken \in Waiting(f) /\ fetch[f].view = view

(* navigate goes on to loadRollup for the loads in L, unless its path was  *)
(* left.                                                                   *)
Proceed(L) ==
  IF \E l \in L : load[l].target = view.path
  THEN \E r \in Rollups : LoadRollup(r, view.path)
  ELSE UNCHANGED rollupVars

Settle(f) ==
  /\ Pending(f) /\ Resumed(f)
  /\ listingToken' = (IF listingToken \in Waiting(f) THEN None
                      ELSE listingToken)
  /\ UNCHANGED <<view, wanted>>

PageArrives(f) ==
  /\ Settle(f)
  /\ \E S \in {[cache |-> pageCache,
                fetch |-> [fetch EXCEPT ![f].state = "ok"]]} :
       IF Owns(f) THEN Show(S, view, fetch[f].page)
       ELSE Keep(S) /\ UNCHANGED tableVars
  /\ Proceed(Waiting(f))

(* The cache without promise f, if it still has it.                        *)
Dropped(c, f) ==
  IF f \in ToSet(c) THEN RemoveAt(c, CHOOSE i \in DOMAIN c : c[i] = f) ELSE c

(* A load that was superseded is no failure, even if its page failed.      *)
PageFails(f) ==
  /\ Settle(f)
  /\ IF Owns(f) THEN ClearListingUI ELSE UNCHANGED tableVars
  /\ Keep([cache |-> Dropped(pageCache, f), fetch |-> fetch])
  /\ Proceed(Waiting(f) \ {listingToken})
-----------------------------------------------------------------------------
(* The rest of loadRollup.                                                 *)

(* Whether load r of a rollup owns the panels.                             *)
(* Mutation: a poll does not check its token.                              *)
OwnerOrPolling(r) == rollupToken = r \/ stage[r] = "polling"
Owner(r) == rollupToken = r

Over(r) == stage' = [stage EXCEPT ![r] = "idle"] /\ of' = [of EXCEPT ![r] = None]
Release(r) == rollupToken' = (IF rollupToken = r THEN None ELSE rollupToken)
Forget(r) == active' = IF active = r THEN None ELSE active

TableIsHere == listing # None /\ listing.view.path = view.path

(* renderRollup                                                            *)
RenderRollup(p) ==
  /\ rollupInFlight' = None
  /\ panel' = [kind |-> "result", path |-> p]
  /\ mark' = (IF TableIsHere /\ p = view.path THEN "none" ELSE mark)

(* rollupSettled, after a message in the panel.                            *)
(* Mutation: the table is not drawn again.                                 *)
FailSilently(p) ==
  /\ rollupInFlight' = None
  /\ panel' = [kind |-> "failed", path |-> p]
  /\ UNCHANGED mark
Fail(p) ==
  /\ rollupInFlight' = None
  /\ panel' = [kind |-> "failed", path |-> p]
  /\ IF TableIsHere THEN mark' \in Marks(view.path, None) ELSE UNCHANGED mark

Quiet == UNCHANGED <<rollupInFlight, panel, mark>>
Still == UNCHANGED <<view, loadVars, page, listing, pager>>

(* The answer to GET /api/rollup: the result, ...                          *)
Answer200(r) ==
  /\ stage[r] = "asked" /\ Over(r) /\ Release(r)
  /\ IF Owner(r) THEN RenderRollup(of[r]) ELSE Quiet
  /\ UNCHANGED jobVars /\ Still

(* ... an error, among them 403 for the root, ...                          *)
AnswerError(r) ==
  /\ stage[r] = "asked" /\ Over(r) /\ Release(r)
  /\ IF Owner(r) THEN Fail(of[r]) ELSE Quiet
  /\ UNCHANGED jobVars /\ Still

(* ... or a job to poll, which is deleted if nobody waits for it.          *)
(* Mutation: it is not.                                                    *)
Answer202Kept(r) ==
  /\ stage[r] = "asked"
  /\ job' = [job EXCEPT ![r] = "running"]
  /\ IF Owner(r) THEN /\ stage' = [stage EXCEPT ![r] = "polling"]
                      /\ active' = r /\ UNCHANGED of
     ELSE Over(r) /\ UNCHANGED active
  /\ UNCHANGED <<deletes, rollupToken>> /\ Quiet /\ Still
Answer202(r) ==
  /\ stage[r] = "asked"
  /\ job' = [job EXCEPT ![r] = "running"]
  /\ IF Owner(r) THEN /\ stage' = [stage EXCEPT ![r] = "polling"]
                      /\ active' = r /\ UNCHANGED <<of, deletes>>
     ELSE /\ Over(r) /\ UNCHANGED active
          /\ deletes' = deletes \cup {r}
  /\ UNCHANGED rollupToken /\ Quiet /\ Still

(* The chain of polls: its timers and its requests are one stage, and each *)
(* timer and answer checks the token.                                      *)
PollStale(r) ==
  /\ stage[r] = "polling" /\ ~Owner(r)
  /\ Over(r) /\ UNCHANGED <<jobVars, rollupToken>> /\ Quiet /\ Still

(* Mutation: the chain ends here.                                          *)
PollRunningOnce(r) ==
  /\ stage[r] = "polling" /\ Owner(r) /\ job[r] = "running"
  /\ Over(r)
  /\ UNCHANGED <<jobVars, rollupToken>> /\ Quiet /\ Still
PollRunning(r) ==
  /\ stage[r] = "polling" /\ Owner(r) /\ job[r] = "running"
  /\ UNCHANGED <<stage, of, jobVars, rollupToken>> /\ Quiet /\ Still

PollEnded(r) ==
  /\ stage[r] = "polling" /\ Owner(r) /\ job[r] # "running"
  /\ Over(r) /\ Release(r) /\ Forget(r)
  /\ job' = [job EXCEPT ![r] = "none"] /\ UNCHANGED deletes
  /\ RenderRollup(of[r]) \/ Fail(of[r])
  /\ Still

(* The poll fails, or its answer is lost: the job stays the active one.    *)
PollError(r) ==
  /\ stage[r] = "polling" /\ Owner(r)
  /\ Over(r) /\ Release(r) /\ Fail(of[r])
  /\ UNCHANGED jobVars /\ Still

(* The server, whose side is JobManager: a DELETE that was not lost, ...   *)
Deleted(r) ==
  /\ r \in deletes
  /\ job' = [job EXCEPT ![r] = "none"] /\ deletes' = deletes \ {r}
  /\ UNCHANGED <<stage, of, active, rollupToken>> /\ Quiet /\ Still

(* ... and the end of a job, of which a page that left it learns nothing.  *)
JobEnds(r) ==
  /\ job[r] = "running"
  /\ job' = [job EXCEPT ![r] = IF r \in deletes THEN "none" ELSE "ended"]
  /\ deletes' = deletes \ {r}
  /\ UNCHANGED <<stage, of, active, rollupToken>> /\ Quiet /\ Still

Answer(r) == Answer200(r) \/ AnswerError(r) \/ Answer202(r)
Serve(r) == Deleted(r) \/ JobEnds(r)
PollAnswer(r) == PollStale(r) \/ PollRunning(r) \/ PollEnded(r) \/ PollError(r)
-----------------------------------------------------------------------------
(* After init(): the first directory was navigated to.                     *)
Init ==
  /\ view = [path |-> Root, sort |-> FirstSort, name |-> NoName]
  /\ page = 1
  /\ pageCache = <<1>>
  /\ fetch = [f \in Fetches |->
               IF f = 1 THEN [view |-> view, page |-> 1, state |-> "pending"]
               ELSE None]
  /\ load = [l \in Loads |-> IF l = 1 THEN [fetch |-> 1, target |-> Root]
                            ELSE None]
  /\ listingToken = 1 /\ wanted = 1
  /\ listing = None /\ mark = "none"
  /\ pager = [prev |-> TRUE, next |-> TRUE, max |-> 0]
  /\ stage = [r \in Rollups |-> "idle"] /\ of = [r \in Rollups |-> None]
  /\ job = [r \in Rollups |-> "none"] /\ deletes = {}
  /\ rollupToken = None /\ rollupInFlight = None /\ active = None
  /\ panel = Blank

Next ==
  \/ \E l \in Loads : Click(l)
  \/ \E f \in Fetches : PageArrives(f) \/ PageFails(f)
  \/ \E r \in Rollups : Answer(r) \/ PollAnswer(r) \/ Serve(r)

Spec == Init /\ [][Next]_vars
-----------------------------------------------------------------------------
(* Properties.                                                             *)

(* Once no load owns the table any more, it shows what was asked for last, *)
(* in the directory, order and filter of now, or nothing after a failure;  *)
(* whichever answers came late, twice or from the cache (app.js:224-254).  *)
ShownIsAsked ==
  listingToken = None /\ listing # None =>
    listing = [view |-> view, page |-> wanted] /\ page = listing.page

(* The rollup panels never speak of another directory than the one shown   *)
(* (app.js:367-382 "a stale poll can never repaint panels").               *)
PanelIsOfThisPath == panel.kind # "blank" => panel.path = view.path

(* A job that runs for the page is either the active one, whose DELETE goes*)
(* out with the next transition, or its DELETE was sent: after failed polls*)
(* and late answers too, none is left unasked, and none is asked for while *)
(* the page still wants it (app.js:371-381, 480-487, 499-504).  One DELETE *)
(* is all there is, and its failure is swallowed: if it is lost, the job   *)
(* runs on to its own end (Deleted never happens, JobEnds does).           *)
LeftJobsAreDeleted ==
  \A r \in Rollups :
    job[r] = "running" => (r = active <=> r \notin deletes)

(* A rollup in flight is that of the shown directory, and has a load that  *)
(* will answer or poll a job of the server (app.js:459-532): the panels do *)
(* not stay at "computing", whichever answers fail.                        *)
InFlightIsWorkedOn ==
  rollupInFlight # None =>
    /\ panel = [kind |-> "computing", path |-> view.path]
    /\ \E r \in Rollups :
         /\ Owner(r) /\ of[r] = rollupInFlight /\ of[r] = view.path
         /\ \/ stage[r] = "asked"
            \/ stage[r] = "polling" /\ active = r /\ job[r] # "none"

(* tests/test_static.py:43: "computing" may only show in the table while a *)
(* rollup is in flight; so it is once no load owns the table any more.     *)
DotsAreHonest ==
  listingToken = None /\ mark = "dots" => rollupInFlight = view.path
=============================================================================
