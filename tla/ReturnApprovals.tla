----------------------------- MODULE ReturnApprovals -----------------------------
(***************************************************************************)
(* Who lets a return pass.  A cashier who may not approve returns has      *)
(* somebody who may type a password, and gets an approval: it is of one    *)
(* session and one sale, lives for two minutes, and pays for one return.   *)
(*                                                                         *)
(* A request is authenticated first and awaits its body; it may come       *)
(* again, as the record of changes allows (MutationCoordinator), while it  *)
(* is being made or after it was cut.  Sessions and approvals live in the  *)
(* memory of the server.  A sale has one line; returns are not cancelled.  *)
(***************************************************************************)
EXTENDS Integers, Sequences, FiniteSetsExt

CONSTANTS
  LoginSession,     \* sessions, each used for one sign-in
  SessionUser,      \* ... whose they are
  Approver,         \* users other than the cashiers
  ApprovalToken,    \* approvals, each issued once
  ReturnRequest,    \* returns asked for, each with a name of its own
  SoldSale,
  SoldPieces,       \* pieces of a sale; a return is of one
  NoApproval,
  NoBody,
  MaxWaiting,       \* bound: requests that wait for their body at once
  MaxUpsets         \* bound: changes of rights, failed dispatches, ends of the server

VARIABLES
  sessionIs,        \* of each session: NONE, LIVE or ENDED
  managing,         \* users who may register returns: returns.manage
  approving,        \* users who may approve them: returns.approve
  soldIs,           \* status of each sale
  grants,           \* of each approval issued: its session, its sale, who gave it
  kept,             \* approvals in the store that did not expire
  body,             \* of each return asked for: its sale and approval
  arrived,          \* <<session, request>>: authenticated, and the body not read yet
  inProgress,       \* requests whose return is made and not recorded yet
  registered,       \* ... recorded: they are answered from then on
  accepted,         \* returns made: request, sale, session, approval, who approved
  upsets

approvals == <<grants, kept>>
rights == <<managing, approving>>
calls == <<body, arrived>>
returnsMade == <<inProgress, registered, accepted>>
approvalVars == <<sessionIs, rights, soldIs, approvals, calls, returnsMade, upsets>>

Person == Approver \union {SessionUser[s] : s \in LoginSession}

Grant == [session : LoginSession, sale : SoldSale, by : Person]
ReturnBody == [sale : SoldSale, approval : ApprovalToken \union {NoApproval}]

ASSUME ApprovalAssumption ==
  /\ NoApproval \notin ApprovalToken /\ NoApproval \notin Grant
  /\ NoBody \notin ReturnRequest
  /\ SoldPieces \in Nat /\ MaxWaiting \in Nat /\ MaxUpsets \in Nat

ApprovalInit ==
  /\ sessionIs = [s \in LoginSession |-> "NONE"]
  /\ managing = {SessionUser[s] : s \in LoginSession} /\ approving = Approver
  /\ soldIs = [s \in SoldSale |-> "COMPLETED"]
  /\ grants = [t \in ApprovalToken |-> NoApproval] /\ kept = {}
  /\ body = [r \in ReturnRequest |-> NoBody] /\ arrived = {}
  /\ inProgress = {} /\ registered = {} /\ accepted = <<>>
  /\ upsets = 0

-----------------------------------------------------------------------------
(* Sessions, rights and sales.                                             *)

Upset ==
  /\ upsets < MaxUpsets
  /\ upsets' = upsets + 1

SignIn(s) ==
  /\ sessionIs[s] = "NONE"
  /\ sessionIs' = [sessionIs EXCEPT ![s] = "LIVE"]
  /\ UNCHANGED <<rights, soldIs, approvals, calls, returnsMade, upsets>>

\* It expires, or its user signs out.
EndSession(s) ==
  /\ sessionIs[s] = "LIVE"
  /\ sessionIs' = [sessionIs EXCEPT ![s] = "ENDED"]
  /\ UNCHANGED <<rights, soldIs, approvals, calls, returnsMade, upsets>>

\* A profile is edited: u gets or loses one of the two rights.
ChangeRights(u) ==
  /\ Upset
  /\ \/ /\ approving' = SymDiff(approving, {u})
        /\ UNCHANGED managing
     \/ /\ u \notin Approver
        /\ managing' = SymDiff(managing, {u})
        /\ UNCHANGED approving
  /\ UNCHANGED <<sessionIs, soldIs, approvals, calls, returnsMade>>

CancelSoldSale(s) ==
  /\ soldIs[s] = "COMPLETED"
  /\ soldIs' = [soldIs EXCEPT ![s] = "CANCELLED"]
  /\ UNCHANGED <<sessionIs, rights, approvals, calls, returnsMade, upsets>>

-----------------------------------------------------------------------------
(* Approvals.                                                              *)

\* A request of a live session comes in; NoBody stands for one of an approval.
Arrive(s, r) ==
  /\ sessionIs[s] = "LIVE"
  /\ Cardinality(arrived) < MaxWaiting
  /\ arrived' = arrived \union {<<s, r>>}

AskApproval(s) ==
  /\ Arrive(s, NoBody)
  /\ UNCHANGED <<sessionIs, rights, soldIs, approvals, body, returnsMade, upsets>>

\* Who reads the password may approve at this moment; the sale is not returned yet.
Authorize(s, sale, u, t) ==
  /\ <<s, NoBody>> \in arrived
  /\ soldIs[sale] = "COMPLETED" /\ u \in approving /\ grants[t] = NoApproval
  /\ grants' = [grants EXCEPT ![t] = [session |-> s, sale |-> sale, by |-> u]]
  /\ kept' = kept \union {t}
  /\ arrived' = arrived \ {<<s, NoBody>>}
  /\ UNCHANGED <<sessionIs, rights, soldIs, body, returnsMade, upsets>>

\* A wrong password, one of somebody who may not approve, or a cancelled sale.
RefuseApproval(s) ==
  /\ <<s, NoBody>> \in arrived
  /\ arrived' = arrived \ {<<s, NoBody>>}
  /\ UNCHANGED <<sessionIs, rights, soldIs, approvals, body, returnsMade, upsets>>

\* After two minutes; it is asked for in vain from then on, like one never issued.
Expire(t) ==
  /\ t \in kept
  /\ kept' = kept \ {t}
  /\ UNCHANGED <<sessionIs, rights, soldIs, grants, calls, returnsMade, upsets>>

-----------------------------------------------------------------------------
(* Returns.                                                                *)

\* Asked for the first time with any content, then again with the same.
AskReturn(s, r, content) ==
  /\ body[r] \in {NoBody, content}
  /\ content.approval \in {NoApproval} \union {t \in ApprovalToken : grants[t] # NoApproval}
  /\ Arrive(s, r)
  /\ body' = [body EXCEPT ![r] = content]
  /\ UNCHANGED <<sessionIs, rights, soldIs, approvals, returnsMade, upsets>>

\* The body of r is read.
Read(s, r) ==
  /\ r # NoBody /\ <<s, r>> \in arrived
  /\ arrived' = arrived \ {<<s, r>>}
  /\ UNCHANGED body

\* Nobody makes this return or made it, and the cashier may ask for returns.
MayHandle(s, r) ==
  /\ r \notin inProgress \union registered
  /\ SessionUser[s] \in managing

NeedsApproval(s) == SessionUser[s] \notin approving

Matches(s, r, t) == grants[t].session = s /\ grants[t].sale = body[r].sale

\* createReturn: who approved still may, and the sale has a piece left.
Returnable(sale, by) ==
  /\ by \in approving /\ soldIs[sale] = "COMPLETED"
  /\ Cardinality({n \in DOMAIN accepted : accepted[n].sale = sale}) < SoldPieces

MakeReturn(s, r, t, by) ==
  /\ accepted' = Append(accepted, [request |-> r, sale |-> body[r].sale, session |-> s,
                                   approval |-> t, by |-> by])
  /\ inProgress' = inProgress \union {r}
  /\ UNCHANGED registered

\* The cashier may approve returns and needs nobody.
ReturnAlone(s, r) ==
  /\ Read(s, r) /\ MayHandle(s, r) /\ ~NeedsApproval(s)
  /\ Returnable(body[r].sale, SessionUser[s])
  /\ MakeReturn(s, r, NoApproval, SessionUser[s])
  /\ UNCHANGED <<sessionIs, rights, soldIs, approvals, upsets>>

\* Mutant: an approval lasts until it expires.
SpendKept(t) == UNCHANGED kept

\* consume: the approval leaves the store.
Spend(t) == kept' = kept \ {t}

\* A valid approval is spent before the return is tried: it is refused now, if
\* the sale was cancelled or returned, or the one who approved may no more.
ReturnApproved(s, r) ==
  LET t == body[r].approval IN
  /\ Read(s, r) /\ MayHandle(s, r) /\ NeedsApproval(s)
  /\ t \in kept /\ Matches(s, r, t)
  /\ Spend(t)
  /\ IF Returnable(body[r].sale, grants[t].by)
     THEN MakeReturn(s, r, t, grants[t].by)
     ELSE UNCHANGED returnsMade
  /\ UNCHANGED <<sessionIs, rights, soldIs, grants, upsets>>

\* It is refused without an effect, answered from the record, or waits.
AnswerOnly(s, r) ==
  /\ Read(s, r)
  /\ \/ ~MayHandle(s, r)
     \/ ~NeedsApproval(s) /\ ~Returnable(body[r].sale, SessionUser[s])
     \/ /\ NeedsApproval(s)
        /\ \/ body[r].approval \notin kept
           \/ body[r].approval \in kept /\ ~Matches(s, r, body[r].approval)
  /\ UNCHANGED <<sessionIs, rights, soldIs, approvals, returnsMade, upsets>>

RecordReturn(r) ==
  /\ r \in inProgress
  /\ inProgress' = inProgress \ {r} /\ registered' = registered \union {r}
  /\ UNCHANGED <<sessionIs, rights, soldIs, approvals, calls, accepted, upsets>>

\* The dispatch of the effects fails; the return stays, unrecorded.
FailReturn(r) ==
  /\ r \in inProgress /\ Upset
  /\ inProgress' = inProgress \ {r}
  /\ UNCHANGED <<sessionIs, rights, soldIs, approvals, calls, registered, accepted>>

\* What was in the memory of the server is gone.
EndServer ==
  /\ Upset
  /\ sessionIs' = [s \in LoginSession |-> IF sessionIs[s] = "LIVE" THEN "ENDED" ELSE sessionIs[s]]
  /\ kept' = {} /\ arrived' = {} /\ inProgress' = {}
  /\ UNCHANGED <<rights, soldIs, grants, body, registered, accepted>>

ApprovalNext ==
  \/ \E s \in LoginSession :
       \/ SignIn(s) \/ EndSession(s) \/ AskApproval(s) \/ RefuseApproval(s)
       \/ \E sale \in SoldSale, u \in Person, t \in ApprovalToken : Authorize(s, sale, u, t)
       \/ \E r \in ReturnRequest :
            \/ \E content \in ReturnBody : AskReturn(s, r, content)
            \/ ReturnAlone(s, r) \/ ReturnApproved(s, r) \/ AnswerOnly(s, r)
  \/ \E u \in Person : ChangeRights(u)
  \/ \E s \in SoldSale : CancelSoldSale(s)
  \/ \E t \in ApprovalToken : Expire(t)
  \/ \E r \in ReturnRequest : RecordReturn(r) \/ FailReturn(r)
  \/ EndServer

ApprovalSpec == ApprovalInit /\ [][ApprovalNext]_approvalVars

-----------------------------------------------------------------------------
\* Type invariant.
ApprovalTypeOK ==
  /\ sessionIs \in [LoginSession -> {"NONE", "LIVE", "ENDED"}]
  /\ managing \subseteq Person /\ approving \subseteq Person
  /\ soldIs \in [SoldSale -> {"COMPLETED", "CANCELLED"}]
  /\ grants \in [ApprovalToken -> Grant \union {NoApproval}]
  /\ kept \subseteq ApprovalToken
  /\ body \in [ReturnRequest -> ReturnBody \union {NoBody}]
  /\ arrived \subseteq LoginSession \X (ReturnRequest \union {NoBody})
  /\ inProgress \subseteq ReturnRequest /\ registered \subseteq ReturnRequest

Approved == {n \in DOMAIN accepted : accepted[n].approval # NoApproval}

\* An approval has paid for one return at most, and one that may still be used for none.
EachPaysOnce ==
  \A n \in Approved :
    /\ accepted[n].approval \notin kept
    /\ \A m \in Approved : accepted[m].approval = accepted[n].approval => m = n

\* ... of the sale and the session it was given for.
EachFitsItsGrant ==
  \A n \in Approved :
    LET grant == grants[accepted[n].approval]
    IN /\ grant.sale = accepted[n].sale /\ grant.session = accepted[n].session
       /\ grant.by = accepted[n].by

(* However requests are repeated, cut, late or mixed up between sessions   *)
(* and sales, every return of a cashier who may not approve it had an      *)
(* approval of its own, given for it; a repeat of a return already made    *)
(* finds the approval gone and makes no second one.                        *)
ApprovalsAreSpent == EachPaysOnce /\ EachFitsItsGrant

=============================================================================
