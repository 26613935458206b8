------------------------------ MODULE ChanRequest ------------------------------
(* modules/chanrequest with chanserv_access: somebody asks for the bot in a     *)
(* channel, it joins through chanjoin, asks ChanServ or looks for an op, and    *)
(* registers the channel; or somebody with access at ChanServ takes over a      *)
(* registered one.  One channel, since channels share nothing.  Of chanjoin     *)
(* only what it promises is here: a ref is told of success, also anew after a   *)
(* rejoin, or of an error and is gone then.  Lines that are read together come  *)
(* before the timers that the first of them adds.                               *)
EXTENDS Naturals, Sequences, FiniteSets

CONSTANTS RNick, RAccount, NoAccount,
          MaxAsked,    \* requests to ChanServ at a time; bound
          MaxCleaners  \* chanrequest_success_cleaner timers at a time; bound

ASSUME ChanRequestAssumption == NoAccount \notin RAccount /\ MaxAsked \in Nat \ {0} /\ MaxCleaners \in Nat \ {0}

VARIABLES accountOf,      \* who has the nick now, by his account
          activeRequest,  \* the channel is in activeRequests
          cj_ref,         \* the ref at chanjoin: its state and the nick it was added with
          access,         \* chanserv_access_requests, in the order of the answers
          cleaners,       \* timers that delete the ref
          blockedChannel, \* "record": an expired record of a failure
          regs,     \* how many struct chanreg the channel has
          owners,         \* accounts with UL_OWNER
          request_errors  \* history only

crVars == <<accountOf, activeRequest, cj_ref, access, cleaners, blockedChannel, regs, owners, request_errors>>

NoRef == [st |-> "none", nick |-> "none"]
Person == RAccount \cup {NoAccount}
HasAccount(n) == accountOf[n] # NoAccount

RequestErrors == {"double", \* registered although it was already
                  "stuck",  \* a request came before the timer of the last one, which deletes its ref: it is never answered
                  "crash"}  \* an answer for a module that is not there

crInit ==
    /\ accountOf \in [RNick -> Person]
    /\ activeRequest = FALSE /\ cj_ref = NoRef /\ access = <<>> /\ cleaners = 0
    /\ blockedChannel = "none" /\ regs = 0 /\ owners = {} /\ request_errors = {}

-----------------------------------------------------------------------------
(* Pieces.                                                                     *)

chanserv_get_access_callback(n, takeover) ==
    Len(access) < MaxAsked /\ access' = Append(access, [nick |-> n, takeover |-> takeover])

\* The first failure is only remembered; the next one blocks.
setChannelBlock == blockedChannel' = IF blockedChannel = "none" THEN "record" ELSE "blocked"

\* A channel that is registered by now gets a second struct chanreg.
registerChannelToNick(n) ==
    IF HasAccount(n)
    THEN /\ regs' = regs + 1 /\ owners' = {accountOf[n]}
         /\ request_errors' = request_errors \cup (IF regs > 0 THEN {"double"} ELSE {})
    ELSE UNCHANGED <<regs, owners, request_errors>>

\* removeChannelFromActiveRequests, and the timer that deletes the ref
request_done == cleaners < MaxCleaners /\ activeRequest' = FALSE /\ cleaners' = cleaners + 1

-----------------------------------------------------------------------------
(* Command "request".                                                          *)

\* chanjoin has a ref of this module if the last one was not deleted yet: its assertion fails then.
request(n) ==
    /\ HasAccount(n) /\ regs = 0 /\ blockedChannel # "blocked" /\ ~activeRequest
    /\ activeRequest' = TRUE
    /\ IF cj_ref = NoRef THEN cj_ref' = [st |-> "joining", nick |-> n] /\ UNCHANGED request_errors
       ELSE request_errors' = request_errors \cup {"stuck"} /\ UNCHANGED cj_ref
    /\ UNCHANGED <<accountOf, access, cleaners, blockedChannel, regs, owners>>

\* ... for a channel that is registered to somebody else, where ChanServ is
takeover(n) ==
    /\ HasAccount(n) /\ regs > 0 /\ accountOf[n] \notin owners
    /\ chanserv_get_access_callback(n, TRUE)
    /\ UNCHANGED <<accountOf, activeRequest, cj_ref, cleaners, blockedChannel, regs, owners, request_errors>>

-----------------------------------------------------------------------------
(* What chanjoin tells.                                                        *)

\* How it finds the channel: registered at ChanServ with or without ChanServ in it, or the asker opped,
\* not opped, or not there
chanrequest_chanjoin_success ==
    /\ cj_ref.st # "none"
    /\ cj_ref' = [cj_ref EXCEPT !.st = "in"]
    /\ \/ /\ chanserv_get_access_callback(cj_ref.nick, FALSE)
          /\ UNCHANGED <<activeRequest, cleaners, blockedChannel, regs, owners, request_errors>>
       \/ /\ request_done
          /\ UNCHANGED <<access, blockedChannel, regs, owners, request_errors>>
       \/ /\ request_done /\ registerChannelToNick(cj_ref.nick)
          /\ UNCHANGED <<access, blockedChannel>>
       \/ /\ request_done /\ setChannelBlock
          /\ UNCHANGED <<access, regs, owners, request_errors>>
    /\ UNCHANGED accountOf

\* Then the ref is gone.
chanrequest_chanjoin_error ==
    /\ cj_ref.st # "none" /\ cj_ref' = NoRef
    /\ setChannelBlock /\ activeRequest' = FALSE
    /\ UNCHANGED <<accountOf, access, cleaners, regs, owners, request_errors>>

\* If chanjoin gave the channel up in between, its assertion fails; if somebody asked again after that,
\* it is his ref that is deleted.
chanrequest_success_tmr ==
    /\ cleaners > 0 /\ cleaners' = cleaners - 1 /\ cj_ref' = NoRef
    /\ request_errors' = request_errors \cup (IF activeRequest THEN {"stuck"} ELSE {})
    /\ UNCHANGED <<accountOf, activeRequest, access, blockedChannel, regs, owners>>

chanrequest_cleanup_blockedChannel_tmr ==
    /\ blockedChannel # "none" /\ blockedChannel' = "none"
    /\ UNCHANGED <<accountOf, activeRequest, cj_ref, access, cleaners, regs, owners, request_errors>>

-----------------------------------------------------------------------------
(* ChanServ answers.                                                           *)

\* Enough access or not, or none of the lines that are understood.  Who has the nick now is the owner.
registration_callback(n) ==
    /\ request_done
    /\ registerChannelToNick(n) \/ UNCHANGED <<regs, owners, request_errors>>

\* Owners are lowered to 499 and the new one is raised, if there is still something to take over.
takeover_callback(n) ==
    /\ owners' \in {owners} \cup (IF regs > 0 /\ HasAccount(n) THEN {{accountOf[n]}} ELSE {})
    /\ UNCHANGED <<activeRequest, cleaners, regs, request_errors>>

chanserv_access_response ==
    /\ access # <<>> /\ access' = Tail(access)
    /\ LET req == Head(access)
       IN  IF req.takeover THEN takeover_callback(req.nick) ELSE registration_callback(req.nick)
    /\ UNCHANGED <<accountOf, cj_ref, blockedChannel>>

\* The module is loaded anew: refs of requests that run are deleted, and what ChanServ will answer is not
\* cancelled.  A ref that waits for its timer stays at chanjoin, which forgets it as it does for every
\* module that goes.
chanrequest_fini ==
    /\ activeRequest' = FALSE /\ cj_ref' = NoRef /\ cleaners' = 0 /\ blockedChannel' = "none"
    /\ request_errors' = request_errors \cup (IF access # <<>> THEN {"crash"} ELSE {})
    /\ UNCHANGED <<accountOf, access, regs, owners>>

\* Somebody else gets a nick, and an admin registers or deletes the channel.
person(n) ==
    /\ \E p \in Person : accountOf' = [accountOf EXCEPT ![n] = p]
    /\ UNCHANGED <<activeRequest, cj_ref, access, cleaners, blockedChannel, regs, owners, request_errors>>

admin ==
    /\ \/ regs = 0 /\ regs' = 1 /\ \E a \in RAccount : owners' = {a}
       \/ regs = 1 /\ regs' = 0 /\ owners' = {}
    /\ UNCHANGED <<accountOf, activeRequest, cj_ref, access, cleaners, blockedChannel, request_errors>>

crNext ==
    /\ request_errors = {}
    /\ \/ \E n \in RNick : request(n) \/ takeover(n) \/ person(n)
       \/ chanrequest_chanjoin_success \/ chanrequest_chanjoin_error
       \/ chanrequest_success_tmr \/ chanrequest_cleanup_blockedChannel_tmr
       \/ chanserv_access_response \/ chanrequest_fini \/ admin

-----------------------------------------------------------------------------
(* Properties.  A behaviour is followed to its first error.                    *)

ChanRequestTypeOK ==
    /\ accountOf \in [RNick -> Person] /\ cj_ref.st \in {"none", "joining", "in"}
    /\ blockedChannel \in {"none", "record", "blocked"} /\ owners \subseteq RAccount
    /\ request_errors \subseteq RequestErrors

\* A request that runs will be answered: chanjoin or ChanServ has it.
RequestsAnswered ==
    activeRequest /\ request_errors = {} => cj_ref.st # "none" \/ \E i \in DOMAIN access : ~access[i].takeover

\* The bot does not stay in a channel for a request that is over.
RefLeaves ==
    cj_ref.st # "none" => activeRequest \/ cleaners > 0 \/ \E i \in DOMAIN access : ~access[i].takeover

\* Whatever requests, takeovers and admins do between a question and its answer, a channel has one owner.
OneOwner == request_errors = {} => regs = Cardinality(owners) /\ regs <= 1

ChanRequestSound == ChanRequestTypeOK /\ RequestsAnswered /\ RefLeaves /\ OneOwner
=============================================================================
