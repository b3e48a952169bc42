--------------------------- MODULE TombolaManager ---------------------------
(***************************************************************************)
(* Drawing from the manager page.                                          *)
(*                                                                         *)
(* GET /manager proposes a draft: for each prize with something left, a    *)
(* random free ticket. Each row of the draft is a form whose ticket id is  *)
(* encrypted under a salt and an iv made for this page and kept in the     *)
(* session as a TicketLink; POST /manager/... decrypts it with the         *)
(* TicketLink of the session and gives the prize. Nothing on that path     *)
(* looks at how many pieces of the prize are left: only a page that is out *)
(* of date failing to decrypt stands between a draft and an issue too      *)
(* many.                                                                   *)
(*                                                                         *)
(* Sessions live in Redis. A request loads its own copy before it reaches  *)
(* the controller and saves what it changed when it ends, both outside the *)
(* monitor of IndexController, which covers Draw, and setManager from      *)
(* Apply until its service call has committed. What the service does is    *)
(* TombolaTx, step by step: requests of REST callers, who pass no monitor  *)
(* of a controller, commit in between and write back rows they read before.*)
(***************************************************************************)
EXTENDS TombolaTx

CONSTANTS
  Cnt,        \* how many pieces of each prize there are, from prize-*.json
  Session,    \* HTTP sessions of users with the manager role
  NoSession   \* the session of an idle thread

\* Threads serving /manager.
Thread == FormClients

ASSUME CntAssumption == Cnt \in [Prize -> Nat]
ASSUME ActorAssumption ==
  /\ IsFiniteSet(Session) /\ Session # {} /\ NoSession \notin Session
  /\ IsFiniteSet(FormClients) /\ FormClients # {}

VARIABLES
  draft,   \* per session, the draft of the page its TicketLink belongs to
  shown,   \* per session, the rows of every page its browser may still show
  req      \* per thread, the request it serves

managerVars == <<vars, draft, shown, req>>

Free == Store!Free

\* A draft gives some of the prizes a ticket.
Draft == [Prize -> TicketId \cup {NoTicket}]
NoDraft == [p \in Prize |-> NoTicket]
\* Variant: a prize without a ticket gets a row as well.
RowsForAll(d) == {<<p, d[p]>> : p \in Prize}
Rows(d) == {row \in Prize \X TicketId : d[row[1]] = row[2]}

(***************************************************************************)
(* at: "get" before the handler runs, "drawn" after it and before the      *)
(* session is saved, "post" a submission before the handler runs, "patch"  *)
(* while the service gives the prize. fresh: the submitted page carries    *)
(* the salt and iv of the loaded session.                                  *)
(***************************************************************************)
Req == [ at : {"idle", "get", "drawn", "post", "patch"}, session : Session \cup {NoSession},
         draft : Draft, prize : Prize \cup {NoPrize},
         ticket : TicketId \cup {NoTicket}, fresh : BOOLEAN ]

NoReq == [ at |-> "idle", session |-> NoSession, draft |-> NoDraft,
           prize |-> NoPrize, ticket |-> NoTicket, fresh |-> FALSE ]

ManagerTypeOK ==
  /\ TypeOK
  /\ draft \in [Session -> Draft]
  /\ shown \in [Session -> SUBSET (Prize \X TicketId)]
  /\ req \in [Thread -> Req]

ManagerInit ==
  /\ Init
  /\ draft = [s \in Session |-> NoDraft]
  /\ shown = [s \in Session |-> {}]
  /\ req = [th \in Thread |-> NoReq]

-----------------------------------------------------------------------------
(* getTicketsPrizes *)

Left(p) == Cnt[p] - prize[p].issued
\* Variant: one piece too many.
ReadyAtZero == {p \in Prize : Left(p) >= 0}
Ready == {p \in Prize : Left(p) > 0}

\* The order of findByReadyToWin: most pieces left first, then the higher id.
Before(p, q) == Left(p) > Left(q) \/ (Left(p) = Left(q) /\ p > q)

\* Variant: the last free ticket is never drawn.
DrawableButLast ==
  {p \in Ready : Cardinality({q \in Ready : Before(q, p)}) + 1 < Cardinality(Free)}

\* The prizes that get a ticket before the free tickets run out.
Drawable == {p \in Ready : Cardinality({q \in Ready : Before(q, p)}) < Cardinality(Free)}

(***************************************************************************)
(* Every draft the random choice can make: a ticket is taken at most once. *)
(***************************************************************************)
Drafts ==
  { d \in [Prize -> Free \cup {NoTicket}] :
      \A p \in Prize :
        /\ d[p] # NoTicket <=> p \in Drawable
        /\ \A q \in Drawable \ {p} : p \in Drawable => d[p] # d[q] }

-----------------------------------------------------------------------------
(* GET /manager *)

EndRequest(th) == req' = [req EXCEPT ![th] = NoReq]

GetManager(th, s) ==
  /\ req[th] = NoReq
  /\ req' = [req EXCEPT ![th] = [NoReq EXCEPT !.at = "get", !.session = s]]
  /\ UNCHANGED <<vars, draft, shown>>

Draw(th) ==
  /\ req[th].at = "get"
  /\ formLock = Nobody /\ serviceLock = Nobody
  /\ \E d \in Drafts : req' = [req EXCEPT ![th].at = "drawn", ![th].draft = d]
  /\ UNCHANGED <<vars, draft, shown>>

\* The session is saved, the page reaches the browser.
Respond(th) ==
  LET s == req[th].session IN
  /\ req[th].at = "drawn"
  /\ draft' = [draft EXCEPT ![s] = req[th].draft]
  /\ shown' = [shown EXCEPT ![s] = @ \cup Rows(req[th].draft)]
  /\ EndRequest(th)
  /\ UNCHANGED vars

-----------------------------------------------------------------------------
(* POST /manager/page/{page}/prizeId/{prizeId}/ticketId/{ticketId} *)

Submit(th, s, p, t, fresh) ==
  /\ req[th] = NoReq
  /\ req' = [req EXCEPT ![th] = [ at |-> "post", session |-> s, draft |-> NoDraft,
                                   prize |-> p, ticket |-> t, fresh |-> fresh ]]
  /\ UNCHANGED <<vars, draft, shown>>

\* A row of the page the loaded TicketLink was made for, or of an older page.
SubmitFresh(th, s) ==
  \E p \in Prize : draft[s][p] # NoTicket /\ Submit(th, s, p, draft[s][p], TRUE)
SubmitStale(th, s) ==
  \E row \in shown[s] : Submit(th, s, row[1], row[2], FALSE)

\* setManager calls the service, from inside its own monitor.
CallService(th) ==
  /\ req[th].at = "post"
  /\ formLock = Nobody
  /\ formLock' = th
  /\ tx' = [tx EXCEPT ![th] = Asks("patchPrizeTicket", req[th].prize, req[th].ticket, NoName)]
  /\ req' = [req EXCEPT ![th].at = "patch"]
  /\ UNCHANGED <<setting, db, lastId, serviceLock, draft, shown>>

\* Variant: a row of any page is accepted, as if ids were sent in the clear.
ApplyAnyPage(th) == CallService(th)

\* Decrypted: the ticket wins, unless it is gone or has won meanwhile.
Apply(th) == req[th].fresh /\ CallService(th)

\* BadPadding or NumberFormat: the error page, and nothing has changed.
Undecipherable(th) ==
  /\ req[th].at = "post" /\ ~req[th].fresh
  /\ formLock = Nobody
  /\ EndRequest(th)
  /\ UNCHANGED <<vars, draft, shown>>

\* patchPrizeTicket: one of its steps, up to the commit, or an exception.
AsItEnds(th) ==
  /\ IF tx'[th] = Idle THEN EndRequest(th) ELSE UNCHANGED req
  /\ UNCHANGED <<setting, draft, shown>>
PatchStep(th) == Step(th) /\ AsItEnds(th)
PatchFails(th) == Fail(th) /\ AsItEnds(th)

-----------------------------------------------------------------------------
(* The rest of the application *)

\* Log out, or the session times out: the TicketLink is gone.
Expire(s) ==
  /\ draft' = [draft EXCEPT ![s] = NoDraft]
  /\ UNCHANGED <<vars, shown, req>>

\* REST callers, with the operations setting.ops.
RestBegins(c) == BeginRest(c) /\ UNCHANGED <<setting, draft, shown, req>>
RestStep(c) == Step(c) /\ UNCHANGED <<setting, draft, shown, req>>
RestFails(c) == Fail(c) /\ UNCHANGED <<setting, draft, shown, req>>

Get(th) == (\E s \in Session : GetManager(th, s)) \/ Draw(th) \/ Respond(th)
Post(th) ==
  \/ \E s \in Session : SubmitFresh(th, s) \/ SubmitStale(th, s)
  \/ Apply(th) \/ Undecipherable(th) \/ PatchStep(th)

\* What comes from outside: a REST call, or a failure.
Disturbed ==
  \/ \E c \in RestClients \cap setting.callers : RestBegins(c)
  \/ \E c \in RestClients : RestFails(c)
  \/ \E th \in Thread : PatchFails(th)

ManagerNext ==
  \/ \E th \in Thread \cap setting.callers : Get(th) \/ Post(th)
  \/ \E s \in Session : Expire(s)
  \/ \E c \in RestClients : RestStep(c)
  \/ Disturbed

ManagerSpec == ManagerInit /\ [][ManagerNext]_managerVars

\* A row of the current page that can still win.
SubmitWinning(th, s) ==
  \E p \in Prize : draft[s][p] \in Free /\ Submit(th, s, p, draft[s][p], TRUE)

(***************************************************************************)
(* The server's threads run on; managers go on drawing: they load the page *)
(* again and again, and a row that can win, whenever one keeps being       *)
(* shown, is submitted.                                                    *)
(***************************************************************************)
Fairness ==
  /\ \A th \in Thread :
       /\ WF_managerVars(Draw(th) \/ Respond(th) \/ Apply(th) \/ Undecipherable(th)
                        \/ PatchStep(th))
       /\ \A s \in Session :
            SF_managerVars(GetManager(th, s)) /\ SF_managerVars(SubmitWinning(th, s))
  /\ WF_managerVars(\E c \in RestClients : RestStep(c))

FairSpec == ManagerSpec /\ Fairness

-----------------------------------------------------------------------------
(* Properties *)

(***************************************************************************)
(* A prize can be issued too often, by managers who draw at the same time  *)
(* and by one who has several requests under way, for a draft counts only  *)
(* what is committed. Where REST callers only add tickets it is bounded by *)
(* how much: one piece for each session's page and for each request under  *)
(* way, less the one every draft needs. A deletion or a renaming that      *)
(* writes back an old issued breaks any such bound.                        *)
(***************************************************************************)
OverIssueBounded ==
  setting.ops \subseteq {"putTickets"} =>
    \A p \in Prize :
      prize[p].issued <= Cnt[p] + Cardinality(Session) + Cardinality(Thread) - 1

(***************************************************************************)
(* A single manager who waits for each answer never brings the issued of a *)
(* prize above its pieces, whichever of the pages still open the manager   *)
(* submits a row of, and however REST callers add and delete tickets       *)
(* meanwhile: a deletion writes back less than it has read. A renaming,    *)
(* which writes back what it has read, can bring it above.                 *)
(***************************************************************************)
NeverOverIssued ==
  setting.ops \subseteq {"putTickets", "deleteTicket"} =>
    \A p \in Prize : prize[p].issued <= Cnt[p]

(***************************************************************************)
(* Managers who go on drawing finish the raffle: no prize is left, or no   *)
(* free ticket. It takes that REST calls and failures cease at some time:  *)
(* two callers who rename a prize in turn can write an old issued back for *)
(* ever.                                                                   *)
(***************************************************************************)
RaffleEnds ==
  (<>[][~Disturbed]_managerVars) => <>[](Ready = {} \/ Free = {})
=============================================================================
