----------------------------- MODULE ChanModules -----------------------------
(* Channel modules: what chanreg does for a module that works in some of the    *)
(* registered channels, with AutoOp as that module.  A registration holds the   *)
(* names of its modules, those that are active, and what was saved for them;    *)
(* the module keeps a list of its registrations and its own data, by the name   *)
(* of the channel.  Commands, moves, the module's unloading, writes and         *)
(* restarts; lists of users are in ChanAccess.                                  *)
EXTENDS Naturals, SequencesExt

CONSTANTS NReg,     \* registrations there may be at a time; bound
          AopChan,  \* names of channels
          NoChan    \* of a registration that is free

ASSUME ChanModulesAssumption == NReg \in Nat \ {0} /\ NoChan \notin AopChan

VARIABLES reg,       \* struct chanreg, by address
          cmod,      \* the module is loaded, and chanreg_module_reg_enable_timer_func is to come
          channels,  \* cmod->channels
          aop_hosts, \* the channels of which it holds a host
          chanregs_file,
          chan_errors, meant  \* history only: meant is who should have a host

cmVars == <<reg, cmod, channels, aop_hosts, chanregs_file, chan_errors, meant>>

Reg == 1..NReg
\* active_modules has it.  db_data: nothing, an object without hosts, or one with a host.
\* fresh: registered with the module in default_modules when it was too late to enable it; history only
FreeReg == [name |-> NoChan, modules |-> FALSE, active |-> FALSE, db_data |-> "none", fresh |-> FALSE]
Live == {r \in Reg : reg[r].name # NoChan}
Registered(c) == \E r \in Reg : reg[r].name = c

ChanErrors == {"dangling", \* a registration is freed that is in cmod->channels: only those with data are taken out
               "twice",    \* enabled before the timer enables it again
               "stale",    \* the module goes and its timer stays
               "orphan"}   \* a channel moves while its module is not active: the data stays under the old name
ChanError(e, happens) == chan_errors' = chan_errors \cup (IF happens THEN {e} ELSE {})

-----------------------------------------------------------------------------
(* Saving and reading.                                                         *)

\* autoop_db_write
autoop_db_write(r) == IF reg[r].name \in aop_hosts THEN "host" ELSE "empty"

\* Of the registrations on the module's list only
chanreg_module_writedb ==
    [r \in Reg |-> IF r \in channels THEN [reg[r] EXCEPT !.db_data = autoop_db_write(r)] ELSE reg[r]]

\* autoop_db_read, also where the module is disabled
chanreg_module_readdb(regs) == {regs[r].name : r \in {x \in Reg : regs[x].db_data = "host"}}

\* chanreg_db_write
Saved(regs) ==
    [c \in {regs[r].name : r \in Reg} \ {NoChan} |->
       LET r == CHOOSE x \in Reg : regs[x].name = c
       IN  [modules |-> regs[r].modules, db_data |-> regs[r].db_data]]

\* chanreg_db_read, when no module has registered yet
chanreg_db_read_all(file) ==
    LET names == SetToSeq(DOMAIN file)
    IN  [r \in Reg |-> IF r > Len(names) THEN FreeReg
                       ELSE [FreeReg EXCEPT !.name = names[r], !.modules = file[names[r]].modules,
                                            !.db_data = file[names[r]].db_data]]

\* MODULE_INIT of the module: chanreg_module_reg and chanreg_module_readdb
autoop_loads(regs) ==
    cmod' = [loaded |-> TRUE, pending |-> TRUE] /\ channels' = {} /\ aop_hosts' = chanreg_module_readdb(regs)

cmInit ==
    /\ chanregs_file = Saved([r \in Reg |-> FreeReg]) /\ reg = chanreg_db_read_all(chanregs_file)
    /\ cmod = [loaded |-> TRUE, pending |-> TRUE] /\ channels = {} /\ aop_hosts = {}
    /\ chan_errors = {} /\ meant = [r \in Reg |-> FALSE]

\* The write interval
chanreg_db_write ==
    /\ reg' = chanreg_module_writedb /\ chanregs_file' = Saved(reg')
    /\ UNCHANGED <<cmod, channels, aop_hosts, chan_errors, meant>>

\* All modules go, this one first, which saves, and come again.
bot_quits ==
    /\ chanregs_file' = Saved(chanreg_module_writedb)
    /\ reg' = chanreg_db_read_all(chanregs_file') /\ autoop_loads(reg')
    /\ meant' = [r \in Reg |-> \E x \in Live : reg[x].name = reg'[r].name /\ meant[x]]
    /\ UNCHANGED chan_errors

\* What was done since the last write is lost.
bot_crashes ==
    /\ reg' = chanreg_db_read_all(chanregs_file) /\ autoop_loads(reg')
    /\ meant' = [r \in Reg |-> reg'[r].db_data = "host"]
    /\ UNCHANGED <<chanregs_file, chan_errors>>

-----------------------------------------------------------------------------
(* The module comes and goes.                                                  *)

chanreg_module_reg_enable_timer_func ==
    /\ cmod.pending /\ cmod' = [cmod EXCEPT !.pending = FALSE]
    /\ channels' = channels \cup {r \in Reg : reg[r].modules}
    /\ reg' = [r \in Reg |-> [reg[r] EXCEPT !.active = @ \/ reg[r].modules]]
    /\ UNCHANGED <<aop_hosts, chanregs_file, chan_errors, meant>>

\* Every registration forgets that the module was active in it.
chanreg_module_unreg(regs) ==
    /\ reg' = [r \in Reg |-> [regs[r] EXCEPT !.active = FALSE]] /\ channels' = {}
    /\ cmod' = [loaded |-> FALSE, pending |-> FALSE] /\ ChanError("stale", cmod.pending)

autoop_fini ==
    /\ cmod.loaded /\ chanreg_module_unreg(chanreg_module_writedb) /\ aop_hosts' = {}
    /\ UNCHANGED <<chanregs_file, meant>>

autoop_init ==
    /\ ~cmod.loaded /\ autoop_loads(reg)
    /\ reg' = [r \in Reg |-> [reg[r] EXCEPT !.fresh = FALSE]]
    /\ UNCHANGED <<chanregs_file, chan_errors, meant>>

-----------------------------------------------------------------------------
(* Commands.                                                                   *)

\* cregister, and chanreg_add for a request: a default module is on the list, and not enabled.
chanreg_add(r, c) ==
    /\ r \notin Live /\ ~Registered(c)
    /\ \E default \in BOOLEAN :
        reg' = [reg EXCEPT ![r] = [FreeReg EXCEPT !.name = c, !.modules = default,
                                                  !.fresh = default /\ cmod.loaded /\ ~cmod.pending]]
    /\ UNCHANGED <<cmod, channels, aop_hosts, chanregs_file, chan_errors, meant>>

\* What disabling with "purge" leaves of r and of the module's data
Purged(r) == reg' = [reg EXCEPT ![r] = [@ EXCEPT !.modules = FALSE, !.active = FALSE, !.db_data = "none"]]
autoop_disabled(r) == aop_hosts' = aop_hosts \ {reg[r].name}

\* A module that is loaded and has data saved is disabled; others that are active are not.
cmod_cunregister(r) ==
    LET disables == cmod.loaded /\ reg[r].db_data # "none" IN
    /\ r \in Live
    /\ reg' = [reg EXCEPT ![r] = FreeReg] /\ meant' = [meant EXCEPT ![r] = FALSE]
    /\ IF disables THEN autoop_disabled(r) /\ channels' = channels \ {r} ELSE UNCHANGED <<aop_hosts, channels>>
    /\ ChanError("dangling", ~disables /\ r \in channels)
    /\ UNCHANGED <<cmod, chanregs_file>>

chanreg_module_enable(r) ==
    /\ reg' = [reg EXCEPT ![r] = [@ EXCEPT !.modules = TRUE, !.active = TRUE]]
    /\ channels' = channels \cup {r}

\* autoop_enabled refuses where the bot is not opped; nothing has been done then.
cmod_enable(r) ==
    /\ r \in Live /\ cmod.loaded /\ ~reg[r].modules /\ chanreg_module_enable(r)
    /\ ChanError("twice", cmod.pending)
    /\ UNCHANGED <<cmod, aop_hosts, chanregs_file, meant>>

\* Mutant: data that is kept is left to the next write.
chanreg_module_disable_unsaved(r, purge) ==
    /\ r \in Live /\ cmod.loaded /\ reg[r].modules /\ channels' = channels \ {r}
    /\ IF purge THEN Purged(r) /\ autoop_disabled(r)
       ELSE reg' = [reg EXCEPT ![r] = [@ EXCEPT !.modules = FALSE, !.active = FALSE]] /\ UNCHANGED aop_hosts
    /\ meant' = [meant EXCEPT ![r] = @ /\ ~purge]
    /\ UNCHANGED <<cmod, chanregs_file, chan_errors>>

\* Data that is kept is saved at once, for the next write passes r over.
chanreg_module_disable(r, purge) ==
    /\ r \in Live /\ cmod.loaded /\ reg[r].modules /\ channels' = channels \ {r}
    /\ IF purge THEN Purged(r) /\ autoop_disabled(r)
       ELSE /\ reg' = [reg EXCEPT ![r] = [@ EXCEPT !.modules = FALSE, !.active = FALSE,
                                                   !.db_data = autoop_db_write(r)]]
            /\ UNCHANGED aop_hosts
    /\ meant' = [meant EXCEPT ![r] = @ /\ ~purge]
    /\ UNCHANGED <<cmod, chanregs_file, chan_errors>>

autoop_moved(r, c) ==
    aop_hosts' = IF reg[r].name \in aop_hosts THEN (aop_hosts \ {reg[r].name}) \cup {c} ELSE aop_hosts

\* Where the module is not active it is not told.
cmod_move(r, c) ==
    /\ r \in Live /\ ~Registered(c)
    /\ reg' = [reg EXCEPT ![r].name = c]
    /\ IF reg[r].active THEN autoop_moved(r, c) ELSE UNCHANGED aop_hosts
    /\ ChanError("orphan", ~reg[r].active /\ reg[r].name \in aop_hosts)
    /\ UNCHANGED <<cmod, channels, chanregs_file, meant>>

\* CHANREG_MODULE_COMMAND
AopCommand(r) == r \in Live /\ cmod.loaded /\ reg[r].active /\ UNCHANGED <<reg, cmod, channels, chanregs_file, chan_errors>>

aop_add(r) == AopCommand(r) /\ aop_hosts' = aop_hosts \cup {reg[r].name} /\ meant' = [meant EXCEPT ![r] = TRUE]
aop_del(r) == AopCommand(r) /\ aop_hosts' = aop_hosts \ {reg[r].name} /\ meant' = [meant EXCEPT ![r] = FALSE]

cmNext ==
    /\ chan_errors = {}
    /\ \/ chanreg_db_write \/ bot_quits \/ bot_crashes
       \/ chanreg_module_reg_enable_timer_func \/ autoop_fini \/ autoop_init
       \/ \E r \in Reg :
            \/ cmod_cunregister(r) \/ cmod_enable(r) \/ aop_add(r) \/ aop_del(r)
            \/ \E purge \in BOOLEAN : chanreg_module_disable(r, purge)
            \/ \E c \in AopChan : chanreg_add(r, c) \/ cmod_move(r, c)

-----------------------------------------------------------------------------
(* Properties.  A behaviour is followed to its first error.                    *)

ChanModulesTypeOK ==
    /\ \A r \in Reg : reg[r].name \in AopChan \cup {NoChan} /\ reg[r].db_data \in {"none", "empty", "host"}
    /\ channels \subseteq Reg /\ aop_hosts \subseteq AopChan /\ chan_errors \subseteq ChanErrors

\* The lists of a registration and of the module say the same, and every registration that has the
\* module is served when the timer has run, but for those that came later with it as a default.
ListsAgree ==
    chan_errors = {} =>
        \A r \in Reg :
            /\ reg[r].active <=> r \in channels
            /\ reg[r].active => reg[r].modules /\ cmod.loaded
            /\ reg[r].modules /\ cmod.loaded /\ ~cmod.pending => reg[r].active \/ reg[r].fresh

\* A host that was added stays with its registration, and a purge or a new owner starts without:
\* over disabling and enabling, moves, unloading, writes and restarts.
HostsRight ==
    chan_errors = {} =>
        \A r \in Live : meant[r] <=> IF cmod.loaded THEN reg[r].name \in aop_hosts ELSE reg[r].db_data = "host"

\* Nothing is kept for a channel that nobody registered, which the next owner would get.
NothingInherited == chan_errors = {} => aop_hosts \subseteq {reg[r].name : r \in Live}

ChanModulesSound == ChanModulesTypeOK /\ ListsAgree /\ HostsRight /\ NothingInherited
=============================================================================
