------------------------------ MODULE AuthPolicer ------------------------------
(* policer.c and its user, command "auth" of the module `account': how many     *)
(* passwords a host may try.  A leaky bucket per host; a host that overflows it *)
(* is gagged for an hour, and then its policer is freed.  What drains in a      *)
(* second is the unit of level.                                                 *)
EXTENDS Naturals

CONSTANTS Host,
          BucketSize,  \* 5 tries, in units of level
          Weight,      \* of a try
          GagTime,     \* an hour
          MaxClock     \* bound

ASSUME AuthPolicerAssumption ==
    /\ BucketSize \in Nat \ {0} /\ Weight \in Nat \ {0} /\ GagTime \in Nat \ {0} /\ MaxClock \in Nat

VARIABLES clock,
          auth_policers, \* by host: nothing yet, a policer, or one that was freed and is still there
          gag_timers,    \* gag_timers[h]: when "auth_del_policer" for h's policer comes
          tries, since,  \* passwords that were compared, and the time of the first; history only
          freed_used     \* history only

apVars == <<clock, auth_policers, gag_timers, tries, since, freed_used>>

NoPolicer == [st |-> "none", level |-> 0, last_req |-> 0, gagged |-> FALSE]
policer_create == [NoPolicer EXCEPT !.st = "live", !.last_req = clock]
Freed == {h \in Host : auth_policers[h].st = "freed"}
FreedUsed(happens) == freed_used' = (freed_used \/ happens)

apInit ==
    /\ clock = 0 /\ auth_policers = [h \in Host |-> NoPolicer] /\ gag_timers = [h \in Host |-> {}]
    /\ tries = [h \in Host |-> 0] /\ since = [h \in Host |-> 0] /\ freed_used = FALSE

-----------------------------------------------------------------------------
(* policer.c.                                                                  *)

Drained(pol, reqtime) ==
    LET passed == reqtime - pol.last_req IN
    IF pol.level > passed THEN pol.level - passed ELSE 0

\* Also a request that does not conform is counted.
policer_conforms(pol, reqtime) ==
    [ret |-> Drained(pol, reqtime) < BucketSize,
     pol |-> [pol EXCEPT !.level = Drained(pol, reqtime) + Weight, !.last_req = reqtime]]

-----------------------------------------------------------------------------
(* Its user.                                                                   *)

Compared(h) ==
    /\ tries' = [tries EXCEPT ![h] = @ + 1]
    /\ since' = [since EXCEPT ![h] = IF tries[h] = 0 THEN clock ELSE @]

\* The dict compares the hosts of all policers with this one.  The first try is not weighed.
auth_command(h) ==
    LET pol == auth_policers[h]
        conforms == policer_conforms(pol, clock) IN
    /\ FreedUsed(Freed # {})
    /\ \/ /\ pol.st = "none" /\ Compared(h)
          /\ auth_policers' = [auth_policers EXCEPT ![h] = policer_create] /\ UNCHANGED gag_timers
       \/ /\ pol.st = "live" /\ ~pol.gagged /\ conforms.ret /\ Compared(h)
          /\ auth_policers' = [auth_policers EXCEPT ![h] = conforms.pol] /\ UNCHANGED gag_timers
       \/ /\ pol.st = "live" /\ ~pol.gagged /\ ~conforms.ret
          /\ auth_policers' = [auth_policers EXCEPT ![h] = [conforms.pol EXCEPT !.gagged = TRUE]]
          /\ gag_timers' = [gag_timers EXCEPT ![h] = @ \cup {clock + GagTime}]
          /\ UNCHANGED <<tries, since>>
       \/ /\ pol.gagged \/ pol.st = "freed"
          /\ UNCHANGED <<auth_policers, gag_timers, tries, since>>
    /\ UNCHANGED clock

\* What it frees stays in the dict.
auth_policer_timer_func(h) ==
    \E t \in gag_timers[h] :
        /\ t <= clock /\ gag_timers' = [gag_timers EXCEPT ![h] = @ \ {t}]
        /\ FreedUsed(auth_policers[h].st # "live")
        /\ auth_policers' = [auth_policers EXCEPT ![h].st = "freed"]
        /\ UNCHANGED <<clock, tries, since>>

\* MODULE_FINI frees every policer, and MODULE_INIT starts without: gags are forgotten.
account_reload ==
    /\ auth_policers' = [h \in Host |-> NoPolicer] /\ gag_timers' = [h \in Host |-> {}]
    /\ tries' = [h \in Host |-> 0] /\ since' = [h \in Host |-> 0]
    /\ FreedUsed(Freed # {}) /\ UNCHANGED clock

clock_runs ==
    /\ clock' \in clock + 1..MaxClock
    /\ UNCHANGED <<auth_policers, gag_timers, tries, since, freed_used>>

apNext ==
    /\ ~freed_used
    /\ \/ \E h \in Host : auth_command(h) \/ auth_policer_timer_func(h)
       \/ account_reload \/ clock_runs

-----------------------------------------------------------------------------
(* Properties.  A behaviour is followed to the first use of a freed policer,   *)
(* to which every gag leads.                                                   *)

AuthPolicerTypeOK ==
    \A h \in Host : /\ auth_policers[h].st \in {"none", "live", "freed"}
                    /\ auth_policers[h].level <= BucketSize + 2 * Weight
                    /\ auth_policers[h].last_req <= clock

\* However somebody spreads his tries, a host's passwords compared are what the bucket holds and what has
\* drained, with the first, which is free, and the one that overfills it (policer_conforms, auth_command).
TriesBound ==
    \A h \in Host : tries[h] * Weight < BucketSize + 2 * Weight + (clock - since[h])

\* A gag ends: the timer of a gagged host is to come, once, and no timer leads to a policer that is gone
\* (account.c:722).
GagsTimed ==
    ~freed_used =>
        \A h \in Host : /\ gag_timers[h] # {} <=> auth_policers[h].st = "live" /\ auth_policers[h].gagged
                        /\ \A t, u \in gag_timers[h] : t = u

AuthPolicerSound == AuthPolicerTypeOK /\ TriesBound /\ GagsTimed
=============================================================================
