----------------------------- MODULE Workspace -----------------------------
(***************************************************************************)
(* One page of the web application: its location, the queries it caches    *)
(* (react-query), the mutations of the routes and of the project sidebar,  *)
(* and the projects and threads on the server.  A redirect is part of the  *)
(* step that makes it due: React runs it before the next event.            *)
(***************************************************************************)
EXTENDS Naturals, Sequences, SequencesExt, FiniteSets

CONSTANTS
    None,       \* no project, no thread
    Projects,   \* ids a project may get
    Threads,    \* ids a thread may get
    FirstList,  \* the projects there are at first, newest first
    FirstOf,    \* their threads, newest first
    MaxActions, \* bound: actions of the user, background refetches, lost requests
    Mishaps     \* what may go wrong

ASSUME WorkspaceShape ==
    /\ Projects \cap Threads = {} /\ {None, "projects"} \cap (Projects \cup Threads) = {}
    /\ FirstList \in Seq(Projects) /\ IsInjective(FirstList) /\ FirstOf \in [Projects -> Seq(Threads)]
    /\ MaxActions \in Nat /\ Mishaps \subseteq {"fetch", "request", "retitle"}

VARIABLES
    projects, threads, named, \* the server: ids newest first, explicit titles
    born,                     \* ids given out
    loc,                      \* the address
    query,                    \* the query cache
    ops,                      \* mutations that are not finished
    route,                    \* the mounted WorkspaceRoute
    dialog,                   \* the name dialog of the sidebar
    actions

serverVars == <<projects, threads, named>>
vars == <<serverVars, born, loc, query, ops, route, dialog, actions>>

Keys == {"projects"} \cup Projects \cup Threads

Index      == [page |-> "index", project |-> None, thread |-> None]
ProjectAt(p)    == [page |-> "work", project |-> p, thread |-> None]
ThreadAt(p, t)  == [page |-> "work", project |-> p, thread |-> t]
ToolsAt(p) == [page |-> "tools", project |-> p, thread |-> None]

NoData   == [loaded |-> FALSE, ids |-> <<>>, named |-> {}]
NoAnswer == [ok |-> FALSE, data |-> NoData]
Absent   == [status |-> "pending", data |-> NoData, stale |-> TRUE, fetch |-> "idle",
             answer |-> NoAnswer]
NewRoute == [requested |-> FALSE, opening |-> "idle", titled |-> {}]
NoDialog == [subject |-> None, failed |-> {}, pending |-> {}]

Places == {Index} \cup {ThreadAt(p, t) : p \in Projects, t \in Threads \cup {None}}
                  \cup {ToolsAt(p) : p \in Projects}
IdsOf(k) == CASE k = "projects" -> Seq(Projects)
              [] k \in Projects -> Seq(Threads)
              [] OTHER          -> {<<>>}
DataOf(k)  == [loaded : BOOLEAN, ids : IdsOf(k), named : SUBSET Threads]
EntryOf(k) == [status : {"pending", "success", "error"}, data : DataOf(k), stale : BOOLEAN,
               fetch : {"idle", "sent", "read"}, answer : [ok : BOOLEAN, data : DataOf(k)]]
OpsOf(kinds, ts) == [kind : kinds, project : Projects, thread : ts, active : BOOLEAN,
                     phase : {"sent", "applied", "refetch", "missed"}]
OfThread  == {"open", "new", "delete", "title"}
OfProject == {"create", "first", "rename", "remove"}

TypeOK ==
    /\ projects \in Seq(Projects) /\ threads \in [Projects -> Seq(Threads)]
    /\ named \subseteq Threads /\ born \subseteq Projects \cup Threads
    /\ loc \in Places
    /\ DOMAIN query = Keys /\ \A k \in Keys : query[k] \in EntryOf(k)
    /\ ops \subseteq OpsOf(OfThread, Threads) \cup OpsOf(OfProject, {None})
    /\ route \in [requested : BOOLEAN, titled : SUBSET Threads,
                  opening : {"idle", "pending", "error", "success"}]
    /\ dialog \in [subject : Projects \cup {None, "create"},
                   failed : SUBSET (Projects \cup {"create"}),
                   pending : SUBSET (Projects \cup {"create"})]
    /\ actions \in 0..MaxActions

-----------------------------------------------------------------------------
(* What a location shows, and where it leads                               *)

Success(q, k) == q[k].status = "success"
Lists(q, k, id) == Contains(q[k].data.ids, id)

\* The conversation with the sidebar beside it, once the bootstrap is there.
Shown(l, q) == l.page = "work" /\ l.thread # None /\ Success(q, l.thread)
SidebarShown(l, q) == Shown(l, q) \/ l.page = "tools"

\* ProjectEntry: the newest thread of the first project.
Entered(l, q) ==
    IF l.page = "index" /\ Success(q, "projects") /\ q["projects"].data.ids # <<>>
    THEN LET p == Head(q["projects"].data.ids)
         IN  IF q[p].status = "pending" THEN l
             ELSE IF q[p].data.ids = <<>> THEN ProjectAt(p)
             ELSE ThreadAt(p, Head(q[p].data.ids))
    ELSE l

\* A thread that the project does not list leads to the project's page.
Bounced(l, q) ==
    IF /\ l.page = "work" /\ l.thread # None
       /\ Success(q, l.project) /\ ~Lists(q, l.project, l.thread)
    THEN ProjectAt(l.project) ELSE l

\* A project's page leads to its newest thread.
Forwarded(l, q) ==
    IF /\ l.page = "work" /\ l.thread = None
       /\ Success(q, l.project) /\ q[l.project].data.ids # <<>>
    THEN ThreadAt(l.project, Head(q[l.project].data.ids)) ELSE l

Landed(l, q) == Forwarded(Bounced(Entered(l, q), q), q)

-----------------------------------------------------------------------------
(* Queries                                                                 *)

Observed(l, q) ==
    IF l.page = "index"
    THEN {"projects"} \cup {p \in Projects : q["projects"].data.ids # <<>>
                                            /\ p = Head(q["projects"].data.ids)}
    ELSE ({l.project, l.thread} \ {None})
         \cup (IF SidebarShown(l, q) THEN {"projects"} \cup Range(q["projects"].data.ids)
               ELSE {})

Fetched(q) == [q EXCEPT !.fetch = "sent", !.stale = FALSE, !.answer = NoAnswer,
                        !.status = IF @ = "error" /\ ~q.data.loaded THEN "pending" ELSE @]

\* A query that a component begins to use is fetched if it has no data, is
\* stale, or has failed.
Mounted(l, q) ==
    [k \in Keys |->
       IF /\ k \in Observed(l, q) /\ q[k].fetch = "idle"
          /\ q[k].stale \/ (q[k].status = "error" /\ k \notin Observed(loc, query))
       THEN Fetched(q[k]) ELSE q[k]]

\* invalidateQueries: a fetch that runs is replaced, a query nobody uses waits.
Invalidated(q, ks) ==
    [k \in Keys |-> IF k \notin ks THEN q[k]
                    ELSE IF k \in Observed(loc, q) THEN Fetched(q[k])
                    ELSE [q[k] EXCEPT !.stale = TRUE]]

\* Mutant of MayOpen: every render that finds the project empty starts one.
MayOpenAlways(r) == TRUE

\* requestedThread: one conversation is started per visit.
MayOpen(r) == ~r.requested

\* Another thread or page mounts another sidebar; a name dialog goes with the
\* old one, and what it has submitted no longer finds it.
Kept(l, q)  == /\ SidebarShown(loc, query) /\ SidebarShown(l, q)
               /\ l.page = loc.page /\ l.thread = loc.thread
Detached(o, kinds) == {IF x.kind \in kinds THEN [x EXCEPT !.active = FALSE] ELSE x : x \in o}

Op(kind, p, t, active) ==
    [kind |-> kind, project |-> p, thread |-> t, active |-> active, phase |-> "sent"]

\* A page without conversation forgets which titles the route has asked for.
MayForget(l, o) == \/ loc.page # "work" \/ l.page = "work" \/ "retitle" \in Mishaps
                   \/ ~\E x \in o : x.kind = "title"

\* One render of the page at l, with the query cache q, the mutations o, the
\* WorkspaceRoute r and the dialog d: it redirects, uses its queries, and starts
\* the first conversation of a project that has none.  The two paths of
\* WorkspaceRoute share one instance of it.
Render(l, q, o, r, d) ==
    LET at    == Landed(l, q)
        same  == loc.page = "work" /\ l.page = "work"
        kept  == IF same THEN r ELSE NewRoute
        needs == /\ at.page = "work" /\ at.thread = None
                 /\ Success(q, at.project) /\ q[at.project].data.ids = <<>>
        opens == needs /\ MayOpen(kept) /\ Threads \ born # {}
        t     == CHOOSE x \in Threads \ born : TRUE
        left  == Detached(o, (IF same THEN {} ELSE {"open"})
                             \cup (IF Kept(at, q) THEN {} ELSE {"create", "rename"}))
    IN  /\ MayForget(l, o)
        /\ loc' = at
        /\ query' = Mounted(at, q)
        /\ route' = IF opens THEN [kept EXCEPT !.requested = TRUE, !.opening = "pending"]
                    ELSE kept
        /\ ops' = IF opens THEN left \cup {Op("open", at.project, t, TRUE)} ELSE left
        /\ born' = IF opens THEN born \cup {t} ELSE born
        /\ dialog' = IF Kept(at, q) THEN d ELSE NoDialog


Init ==
    /\ projects = FirstList /\ threads = FirstOf /\ named = {}
    /\ born = Range(FirstList) \cup UNION {Range(FirstOf[p]) : p \in Projects}
    /\ loc \in {Index} \cup {ProjectAt(p) : p \in Projects}
    /\ query = [k \in Keys |-> IF k \in {"projects", loc.project} THEN Fetched(Absent)
                               ELSE Absent]
    /\ ops = {} /\ route = NewRoute /\ dialog = NoDialog /\ actions = 0

-----------------------------------------------------------------------------
(* The user                                                                *)

Acts == actions < MaxActions /\ actions' = actions + 1 /\ UNCHANGED serverVars

Sends(o) == ops \cup {o}
ListedProjects == Range(query["projects"].data.ids)

\* A thread of the sidebar, or one of its pages.
GoTo(l) ==
    /\ Acts /\ SidebarShown(loc, query)
    /\ \/ l.page = "tools" /\ l.project = loc.project
       \/ l.page = "work" /\ l.project \in ListedProjects /\ Lists(query, l.project, l.thread)
    /\ Render(l, query, ops, route, dialog)

\* The button of the header waits for its own mutation, that of a project not.
NewThread(p, t) ==
    /\ Acts /\ SidebarShown(loc, query)
    /\ p \in ListedProjects /\ t \in Threads \ born
    /\ born' = born \cup {t} /\ ops' = Sends(Op("new", p, t, FALSE))
    /\ UNCHANGED <<loc, query, route, dialog>>

DeleteThread(p, t) ==
    /\ Acts /\ SidebarShown(loc, query)
    /\ p \in ListedProjects /\ Lists(query, p, t)
    /\ ops' = Sends(Op("delete", p, t, t = loc.thread))
    /\ UNCHANGED <<born, loc, query, route, dialog>>

\* A dialog opens as it was left, with the error of the last submission and
\* also while that is on its way: handleOpenChange only hears of closing.
OpenDialog(subject) ==
    /\ Acts /\ SidebarShown(loc, query)
    /\ dialog.subject = None /\ subject \in {"create"} \cup ListedProjects
    /\ dialog' = [dialog EXCEPT !.subject = subject]
    /\ UNCHANGED <<born, loc, query, ops, route>>

CloseDialog ==
    /\ dialog.subject # None /\ dialog' = [dialog EXCEPT !.subject = None]
    /\ UNCHANGED <<serverVars, born, loc, query, ops, route, actions>>

MaySubmit == dialog.subject # None /\ dialog.subject \notin dialog.pending

\* handleSubmit of ProjectNameDialog: create a project or rename one.
SubmitName(p) ==
    /\ Acts /\ MaySubmit
    /\ IF dialog.subject = "create"
       THEN p \in Projects \ born /\ born' = born \cup {p} /\ ops' = Sends(Op("create", p, None, TRUE))
       ELSE p = dialog.subject /\ ops' = Sends(Op("rename", p, None, TRUE)) /\ UNCHANGED born
    /\ dialog' = [dialog EXCEPT !.pending = @ \cup {dialog.subject},
                                !.failed = @ \ {dialog.subject}]
    /\ UNCHANGED <<loc, query, route>>

RemoveProject(p) ==
    /\ Acts /\ SidebarShown(loc, query) /\ p \in ListedProjects
    /\ ops' = Sends(Op("remove", p, None, p = loc.project))
    /\ UNCHANGED <<born, loc, query, route, dialog>>

\* EmptyBootstrap: the button that creates the first project.
FirstProject(p) ==
    /\ Acts /\ loc = Index /\ Success(query, "projects")
    /\ query["projects"].data.ids = <<>>
    /\ ~\E o \in ops : o.kind = "first"
    /\ p \in Projects \ born /\ born' = born \cup {p}
    /\ ops' = Sends(Op("first", p, None, FALSE))
    /\ UNCHANGED <<loc, query, route, dialog>>

\* threadTitle: an explicit title of the project's list or of the bootstrap.
TitleKnown(t) == t \in query[loc.project].data.named \cup query[t].data.named

\* Mutant of MayTitle: an attempt is not remembered.
MayTitleAgain(t) == ~TitleKnown(t)

MayTitle(t) == ~TitleKnown(t) /\ t \notin route.titled

\* handleUserMessagePersisted, for a message with visible text.
UserMessagePersisted ==
    /\ Acts /\ Shown(loc, query) /\ MayTitle(loc.thread)
    /\ route' = [route EXCEPT !.titled = @ \cup {loc.thread}]
    /\ ops' = Sends(Op("title", loc.project, loc.thread, FALSE))
    /\ UNCHANGED <<born, loc, query, dialog>>

\* The two error pages: start the conversation again, load it again.
Retry ==
    /\ Acts
    /\ \/ /\ loc.page = "work" /\ loc.thread = None /\ route.opening = "error"
          /\ Render(loc, query, ops, [route EXCEPT !.requested = FALSE, !.opening = "idle"],
                    dialog)
       \/ /\ loc.thread # None /\ query[loc.thread].status = "error"
          /\ query[loc.thread].fetch = "idle"
          /\ query' = [query EXCEPT ![loc.thread] = Fetched(@)]
          /\ UNCHANGED <<loc, ops, route, dialog, born>>

\* The window is focused again: what is in use and old is fetched anew.
Refetch(k) ==
    /\ Acts /\ k \in Observed(loc, query) /\ query[k].fetch = "idle"
    /\ query' = [query EXCEPT ![k] = Fetched(@)]
    /\ UNCHANGED <<born, loc, ops, route, dialog>>

-----------------------------------------------------------------------------
(* The server and its answers                                              *)

Holder(t) == {p \in Range(projects) : Contains(threads[p], t)}

Answer(k) ==
    CASE k = "projects" -> [ok |-> TRUE, data |-> [loaded |-> TRUE, ids |-> projects, named |-> {}]]
      [] k \in Projects -> [ok |-> Contains(projects, k),
                            data |-> [loaded |-> TRUE, ids |-> threads[k],
                                      named |-> named \cap Range(threads[k])]]
      [] k \in Threads  -> [ok |-> Holder(k) # {},
                            data |-> [loaded |-> TRUE, ids |-> <<>>, named |-> named \cap {k}]]

FetchRead(k) ==
    /\ query[k].fetch = "sent"
    /\ query' = [query EXCEPT ![k].fetch = "read", ![k].answer = Answer(k)]
    /\ UNCHANGED <<serverVars, born, loc, ops, route, dialog, actions>>

Mishap(m) == m \in Mishaps /\ actions < MaxActions /\ actions' = actions + 1

\* A conversation that was created goes on without its list.
Missed(k) == {IF x.phase = "refetch" /\ x.project = k THEN [x EXCEPT !.phase = "missed"]
              ELSE x : x \in ops}

\* An answer replaces the data; an error keeps what is there.
FetchDone(k) ==
    /\ query[k].fetch = "read"
    /\ \E ok \in BOOLEAN :
         /\ \/ ok = query[k].answer.ok /\ UNCHANGED actions
            \/ ~ok /\ query[k].answer.ok /\ Mishap("fetch")
         /\ LET q == [query[k] EXCEPT !.fetch = "idle", !.answer = NoAnswer,
                        !.status = IF ok THEN "success" ELSE "error",
                        !.stale = @ /\ ~ok,
                        !.data = IF ok THEN query[k].answer.data ELSE @]
            IN  Render(loc, [query EXCEPT ![k] = q], IF ok THEN ops ELSE Missed(k),
                       route, dialog)
    /\ UNCHANGED serverVars

Moved(o, phase) == (ops \ {o}) \cup {[o EXCEPT !.phase = phase]}

Applicable(o) ==
    CASE o.kind \in {"open", "new"}     -> Contains(projects, o.project)
      [] o.kind \in {"delete", "title"} -> Contains(threads[o.project], o.thread)
      [] o.kind \in {"create", "first"} -> TRUE
      [] OTHER                          -> Contains(projects, o.project)

\* A row is deleted; ids are unique.
Without(s, x) == IF Contains(s, x) THEN RemoveAt(s, CHOOSE i \in DOMAIN s : s[i] = x) ELSE s

Apply(o) ==
    /\ o.phase = "sent" /\ Applicable(o)
    /\ projects' = CASE o.kind \in {"create", "first"} -> <<o.project>> \o projects
                     [] o.kind = "remove" -> Without(projects, o.project)
                     [] OTHER -> projects
    /\ threads' = CASE o.kind \in {"open", "new"} ->
                         [threads EXCEPT ![o.project] = <<o.thread>> \o @]
                    [] o.kind = "delete" ->
                         [threads EXCEPT ![o.project] = Without(@, o.thread)]
                    [] o.kind = "remove" -> [threads EXCEPT ![o.project] = <<>>]
                    [] OTHER -> threads
    /\ named' = IF o.kind = "title" THEN named \cup {o.thread} ELSE named
    /\ ops' = Moved(o, "applied")
    /\ UNCHANGED <<born, loc, query, route, dialog, actions>>

Subject(o) == IF o.kind = "create" THEN "create" ELSE o.project

\* A request that is refused or lost: the route and the dialog show it, the
\* lists of the sidebar stay as they are.
Fails(o) ==
    /\ o.phase = "sent"
    /\ \/ ~Applicable(o) /\ UNCHANGED actions
       \/ Applicable(o) /\ Mishap("request")
    /\ ops' = ops \ {o}
    /\ route' = IF o.kind = "open" /\ o.active
                THEN [route EXCEPT !.opening = "error"] ELSE route
    /\ dialog' = IF o.kind \in {"create", "rename"} /\ o.active
                 THEN [dialog EXCEPT !.pending = @ \ {Subject(o)},
                                     !.failed = @ \cup {Subject(o)}]
                 ELSE dialog
    /\ UNCHANGED <<serverVars, born, loc, query>>

\* Mutant of Outdated: a deletion leaves the list alone.
OutdatedByNew(o) ==
    CASE o.kind \in {"open", "new"} -> {o.project}
      [] o.kind = "delete" -> {}
      [] OTHER -> {"projects"} \cup Projects

\* The queries a mutation makes invalid: a project's list, or every list.
Outdated(o) ==
    CASE o.kind \in {"open", "new", "delete"} -> {o.project}
      [] OTHER -> {"projects"} \cup Projects

\* setQueryData of the list and of the bootstrap, if they have data: it counts as
\* fresh, whatever fetch is under way or has failed.
Titled(q, o) ==
    [k \in Keys |->
       IF k \in {o.project, o.thread} /\ q[k].data.loaded
       THEN [q[k] EXCEPT !.status = "success", !.stale = FALSE,
                         !.data.named = IF k = o.thread \/ Lists(q, k, o.thread)
                                        THEN @ \cup {o.thread} ELSE @]
       ELSE q[k]]

\* The bootstrap was not read before the title and answered after it.
InOrder(o) == \/ "retitle" \in Mishaps
              \/ query[o.thread].answer.ok => o.thread \in query[o.thread].answer.data.named

\* The answer: what has changed is fetched again before anything is shown.  A
\* list that is not in use is not.
Succeeds(o) ==
    /\ o.phase = "applied"
    /\ IF o.kind = "title"
       THEN InOrder(o) /\ Render(loc, Titled(query, o), ops \ {o}, route, dialog)
       ELSE /\ query' = Invalidated(IF o.kind = "remove"
                                    THEN [query EXCEPT ![o.project] = Absent] ELSE query,
                                    Outdated(o))
            /\ ops' = Moved(o, IF Outdated(o) \cap Observed(loc, query) # {}
                               THEN "refetch" ELSE "missed")
            /\ UNCHANGED <<loc, route, dialog, born>>
    /\ UNCHANGED <<serverVars, actions>>

\* Mutant of Refetched: the new page is shown at once.
RefetchedLater(o) == TRUE

Refetched(o) == \A k \in Outdated(o) : query[k].fetch = "idle"

\* Where a finished mutation leads the page.
Leads(o) ==
    CASE o.kind \in {"open", "new"} -> ThreadAt(o.project, o.thread)
      [] o.kind = "delete" /\ o.active -> ProjectAt(o.project)
      [] o.kind = "create" \/ (o.kind = "first" /\ loc = Index) -> ProjectAt(o.project)
      [] o.kind = "remove" /\ o.active -> Index
      [] OTHER -> loc

\* The end of the mutation: its dialog closes, the page moves.
Finishes(o) ==
    /\ o.phase \in {"refetch", "missed"} /\ Refetched(o)
    /\ Render(Leads(o),
              IF o.kind = "delete" THEN [query EXCEPT ![o.thread] = Absent] ELSE query,
              ops \ {o},
              IF o.kind = "open" /\ o.active THEN [route EXCEPT !.opening = "success"] ELSE route,
              IF o.kind \in {"create", "rename"} /\ o.active
              THEN [dialog EXCEPT !.pending = @ \ {Subject(o)},
                                  !.subject = IF @ = Subject(o) THEN None ELSE @]
              ELSE dialog)
    /\ UNCHANGED <<serverVars, actions>>

-----------------------------------------------------------------------------
(* Specification                                                           *)

User ==
    \/ \E p \in Projects :
         \/ \E t \in Threads : GoTo(ThreadAt(p, t)) \/ NewThread(p, t) \/ DeleteThread(p, t)
         \/ GoTo(ToolsAt(p)) \/ SubmitName(p) \/ RemoveProject(p) \/ FirstProject(p)
    \/ \E s \in {"create"} \cup Projects : OpenDialog(s)
    \/ CloseDialog \/ UserMessagePersisted \/ Retry
    \/ \E k \in Keys : Refetch(k)

Fetches   == \E k \in Keys : FetchRead(k) \/ FetchDone(k)
Mutations == \E o \in ops : Apply(o) \/ Fails(o) \/ Succeeds(o) \/ Finishes(o)

Next == User \/ Fetches \/ Mutations

Spec == Init /\ [][Next]_vars

\* Every request is answered.
FairSpec == Spec /\ WF_vars(Fetches) /\ WF_vars(Mutations)

-----------------------------------------------------------------------------
(* Properties                                                              *)

\* A conversation that was just created is the one the page shows, unless its
\* project's list could not be fetched or was not in use, or it is gone again.
CreatedThreadOpens ==
    [][\A o \in ops \ ops' :
         /\ o.kind \in {"open", "new"} /\ o.phase = "refetch"
         /\ ~\E x \in ops' : x.thread = o.thread /\ x.kind = o.kind
         /\ Contains(threads[o.project], o.thread)
         => loc' = ThreadAt(o.project, o.thread)]_vars

\* However often the route renders and redirects, there is one conversation that
\* it is starting; only what an earlier visit has started may be on its way too.
OneOpening ==
    \A o, x \in ops : o.kind = "open" /\ x.kind = "open" /\ o.active /\ x.active => o = x

\* The automatic title never replaces one that a thread has got.
NamedThreadsKeepTitle ==
    [][\A o \in ops' \ ops : o.kind = "title" /\ o.phase = "sent" => o.thread \notin named]_vars

\* A thread that was deleted does not stay on the screen: the page leaves it,
\* unless its project's list cannot be fetched.  The title of a thread may make
\* that list count as fresh again; its thread then shows an error.
DeletedThreadLeft ==
    (loc.thread # None /\ Holder(loc.thread) = {})
      ~> \/ loc.thread = None \/ Holder(loc.thread) # {}
         \/ query[loc.project].status = "error"
         \/ loc.thread \in named /\ query[loc.thread].status = "error"

\* A project that is opened leads to a conversation or to an error page.
ProjectOpens ==
    (loc.page = "work" /\ loc.thread = None)
      ~> \/ loc.page # "work" \/ loc.thread # None
         \/ route.opening = "error" \/ query[loc.project].status = "error"
=============================================================================
