------------------------------ MODULE ModuleSys ------------------------------
(* module.c: loading and unloading modules with their dependencies.           *)
(* module_add calls itself through module_solve_dependencies; the call stack  *)
(* is the modules that are being loaded, each with its `level'.  Lists of      *)
(* modules are sets here and are walked in any order.                         *)
EXTENDS Integers, FiniteSets

CONSTANTS Name,       \* module names; a name is also the name of a library file
          Alias,      \* the <<name, library>> pairs that config and commands ask for
          Depends(_), \* the dependency lists that mod_depends of a library may set
          NULL

ASSUME ModuleSysAssumption ==
    /\ IsFiniteSet(Name)
    /\ NULL \notin Name
    /\ Alias \subseteq Name \X Name
    /\ \A n \in Name : Depends(n) \subseteq SUBSET Name

VARIABLES state,    \* of each name: "none", "loading" or "active"
          lib,      \* the library it was loaded from
          depend, rdepend,
          todo,     \* the dependencies module_solve_dependencies has yet to look at
          level,    \* its place on the stack of module_add calls, 0 if it has none
          height,   \* how many such calls there are
          ret,      \* result of the last module_add: "ok" or "fail"; "none" inside one
          op,       \* what the bot is doing with its modules
          work,     \* the pairs `op' has yet to unload or load
          first,    \* module_reload's own module, which is loaded first
          wanted,   \* core/modules, as module_conf_reload read it
          sweep, passes, \* module_conf_reload's two loops
          owed      \* what was loaded before module_reload and has not failed to load since;
                    \* history only

tables == <<state, lib, depend, rdepend, todo>>
stack == <<level, height, ret>>
plan == <<op, work, first, wanted, sweep, passes>>
task == <<plan, owed>>
vars == <<tables, stack, task>>

Loaded == {n \in Name : state[n] # "none"}

\* module_find_bylib
LibInUse(x) == \E m \in Loaded : lib[m] = x \/ m = x

Init ==
    /\ state = [n \in Name |-> "none"]
    /\ lib = [n \in Name |-> n]
    /\ depend = [n \in Name |-> {}]
    /\ rdepend = [n \in Name |-> {}]
    /\ todo = [n \in Name |-> {}]
    /\ level = [n \in Name |-> 0]
    /\ height = 0
    /\ ret = "none"
    /\ wanted \in SUBSET Alias
    /\ op = "load"
    /\ work = wanted
    /\ first = NULL
    /\ sweep = {}
    /\ passes = 0
    /\ owed = {}
-----------------------------------------------------------------------------
(* The call of module_add that runs, and its return to its caller.            *)
Innermost(n) == height > 0 /\ level[n] = height

Return(n) ==
    /\ level' = [level EXCEPT ![n] = 0]
    /\ height' = height - 1

\* module_add, up to the loop over the dependencies; it fails if the name or the
\* library is in use, and may fail in dlopen or dlsym.
module_add(n, l) ==
    \/ /\ ret' = "fail"
       /\ owed' = owed \ {n}
       /\ UNCHANGED <<tables, level, height>>
    \/ /\ ~LibInUse(n) /\ ~LibInUse(l)
       /\ \E deps \in Depends(l) :
            /\ depend' = [depend EXCEPT ![n] = deps]
            /\ todo' = [todo EXCEPT ![n] = deps]
       /\ state' = [state EXCEPT ![n] = "loading"]
       /\ lib' = [lib EXCEPT ![n] = l]
       /\ rdepend' = [rdepend EXCEPT ![n] = {}]
       /\ level' = [level EXCEPT ![n] = height + 1]
       /\ height' = height + 1
       /\ ret' = "none"
       /\ UNCHANGED owed

module_release_dependencies(n) ==
    rdepend' = [d \in Name |-> IF d \in depend[n] THEN rdepend[d] \ {n} ELSE rdepend[d]]

\* module_free; what the tables hold for a name that is not loaded is of no account.
module_free(n) ==
    /\ state' = [state EXCEPT ![n] = "none"]
    /\ lib' = [lib EXCEPT ![n] = n]
    /\ depend' = [depend EXCEPT ![n] = {}]
    /\ todo' = [todo EXCEPT ![n] = {}]

\* module_add leaves with -6, -7 or -8.
module_add_fail(n) ==
    /\ module_release_dependencies(n)
    /\ module_free(n)
    /\ Return(n)
    /\ ret' = "fail"
    /\ owed' = owed \ {n}
    /\ UNCHANGED plan

\* Mutant: the dependency does not learn who needs it.
register_silent(n, d) ==
    /\ d # n => state[d] = "active"
    /\ todo' = [todo EXCEPT ![n] = @ \ {d}]
    /\ ret' = "none"
    /\ UNCHANGED <<state, lib, depend, rdepend, level, height, task>>

\* A dependency that is loaded, or was just loaded for us, gets the entry in its
\* rdepend; a module that names itself is skipped.
register(n, d) ==
    /\ d # n => state[d] = "active"
    /\ rdepend' = IF d = n THEN rdepend ELSE [rdepend EXCEPT ![d] = @ \cup {n}]
    /\ todo' = [todo EXCEPT ![n] = @ \ {d}]
    /\ ret' = "none"
    /\ UNCHANGED <<state, lib, depend, level, height, task>>

\* One turn of the loop of the innermost module_solve_dependencies.
module_solve_dependencies(n) ==
    /\ Innermost(n)
    /\ \/ ret = "fail" /\ module_add_fail(n)
       \/ /\ ret # "fail"
          /\ \E d \in todo[n] :
               \/ register(n, d)
               \/ d # n /\ state[d] = "loading" /\ module_add_fail(n)
               \/ d # n /\ state[d] = "none" /\ module_add(d, d) /\ UNCHANGED plan

\* All dependencies are there: the library is opened for good and mod_init runs.
mod_init(n) ==
    /\ Innermost(n)
    /\ ret # "fail"
    /\ todo[n] = {}
    /\ state' = [state EXCEPT ![n] = "active"]
    /\ Return(n)
    /\ ret' = "ok"
    /\ UNCHANGED <<lib, depend, rdepend, todo, task>>

mod_init_fails(n) ==
    /\ Innermost(n)
    /\ ret # "fail"
    /\ todo[n] = {}
    /\ module_add_fail(n)

module_del(n) ==
    /\ rdepend[n] = {}
    /\ module_release_dependencies(n)
    /\ module_free(n)
-----------------------------------------------------------------------------
(* What calls module_add and module_del.                                      *)

\* module_add_smart on one of the pairs in `work'; module_reload's own module first.
module_add_smart(p) ==
    /\ height = 0
    /\ op \in {"load", "conf", "reload"}
    /\ p \in work
    /\ op = "reload" /\ first \in work => p = first
    /\ work' = work \ {p}
    /\ IF p[1] \in Loaded
       THEN UNCHANGED <<tables, stack, owed>>
       ELSE module_add(p[1], p[2])
    /\ UNCHANGED <<op, first, wanted, sweep, passes>>

LoadDone ==
    /\ height = 0
    /\ op \in {"load", "reload"}
    /\ work = {}
    /\ op' = "idle"
    /\ ret' = "none"
    /\ first' = NULL
    /\ wanted' = {}
    /\ owed' = {}
    /\ UNCHANGED <<tables, level, height, work, sweep, passes>>

Idle == op = "idle" /\ height = 0

\* The admin module's commands "module add" and "module del".
cmd_module_add(p) ==
    /\ Idle
    /\ p[1] \notin Loaded
    /\ op' = "load"
    /\ work' = {p}
    /\ UNCHANGED <<tables, stack, first, wanted, sweep, passes, owed>>

cmd_module_del(n) ==
    /\ Idle
    /\ n \in Loaded
    /\ module_del(n)
    /\ UNCHANGED <<stack, task>>

module_conf_reload ==
    /\ Idle
    /\ wanted' \in SUBSET Alias
    /\ work' = wanted'
    /\ op' = "conf"
    /\ UNCHANGED <<tables, stack, first, sweep, passes, owed>>

\* "we must try deleting modules multiple times": dict_size passes over the list
module_conf_reload_purge ==
    /\ height = 0
    /\ op = "conf"
    /\ work = {}
    /\ op' = "purge"
    /\ ret' = "none"
    /\ passes' = Cardinality(Loaded)
    /\ sweep' = Loaded
    /\ UNCHANGED <<tables, level, height, work, first, wanted, owed>>

Unwanted(n) == <<n, lib[n]>> \notin wanted

PurgeStep(n) ==
    /\ op = "purge"
    /\ n \in sweep
    /\ sweep' = sweep \ {n}
    /\ IF Unwanted(n) /\ rdepend[n] = {} THEN module_del(n) ELSE UNCHANGED tables
    /\ UNCHANGED <<stack, op, work, first, wanted, passes, owed>>

\* Mutant: passes are repeated until no module is left.
PurgePass_untilEmpty ==
    /\ op = "purge"
    /\ sweep = {}
    /\ IF Loaded # {}
       THEN sweep' = Loaded /\ UNCHANGED <<op, passes>>
       ELSE passes' = 0 /\ op' = "idle" /\ UNCHANGED sweep
    /\ UNCHANGED <<tables, stack, work, first, wanted, owed>>

PurgePass ==
    /\ op = "purge"
    /\ sweep = {}
    /\ IF passes > 1
       THEN passes' = passes - 1 /\ sweep' = Loaded /\ UNCHANGED op
       ELSE passes' = 0 /\ op' = "idle" /\ UNCHANGED sweep
    /\ wanted' = IF op' = "idle" THEN {} ELSE wanted
    /\ UNCHANGED <<tables, stack, work, first, owed>>

\* module_get_rdeps, and the module itself
RDepsOf(n) ==
    LET within[i \in 0 .. Cardinality(Name)] ==
          IF i = 0 THEN {n}
          ELSE within[i - 1] \cup UNION {rdepend[d] : d \in within[i - 1]}
    IN {m \in Loaded : m \in within[Cardinality(Name)]}

module_reload(n) ==
    /\ Idle
    /\ n \in Loaded
    /\ op' = "unload"
    /\ work' = {<<m, lib[m]>> : m \in RDepsOf(n)}
    /\ first' = <<n, lib[n]>>
    /\ owed' = Loaded
    /\ UNCHANGED <<tables, stack, wanted, sweep, passes>>

module_reload_unload(p) ==
    /\ op = "unload"
    /\ p \in work
    /\ p[1] \in Loaded
    /\ module_del(p[1])
    /\ UNCHANGED <<stack, task>>

\* Mutant: only the module itself is loaded again.
module_reload_load_first ==
    /\ op = "unload"
    /\ \A p \in work : p[1] \notin Loaded
    /\ op' = "reload"
    /\ work' = {first}
    /\ UNCHANGED <<tables, stack, first, wanted, sweep, passes, owed>>

module_reload_load ==
    /\ op = "unload"
    /\ \A p \in work : p[1] \notin Loaded
    /\ op' = "reload"
    /\ UNCHANGED <<tables, stack, work, first, wanted, sweep, passes, owed>>

module_fini ==
    /\ Idle
    /\ op' = "fini"
    /\ UNCHANGED <<tables, stack, work, first, wanted, sweep, passes, owed>>

module_fini_del(n) ==
    /\ op = "fini"
    /\ n \in Loaded
    /\ module_del(n)
    /\ UNCHANGED <<stack, task>>

module_fini_done ==
    /\ op = "fini"
    /\ Loaded = {}
    /\ op' = "left"
    /\ UNCHANGED <<tables, stack, work, first, wanted, sweep, passes, owed>>

Left == op = "left" /\ UNCHANGED vars
-----------------------------------------------------------------------------
Load == \E n \in Name : module_solve_dependencies(n) \/ mod_init(n) \/ mod_init_fails(n)

Continue ==
    \/ Load
    \/ \E p \in work : module_add_smart(p) \/ module_reload_unload(p)
    \/ \E n \in Name : PurgeStep(n) \/ module_fini_del(n)
    \/ LoadDone \/ module_conf_reload_purge \/ PurgePass
    \/ module_reload_load \/ module_fini_done

Start ==
    \/ \E p \in Alias : cmd_module_add(p)
    \/ \E n \in Name : cmd_module_del(n) \/ module_reload(n)
    \/ module_conf_reload \/ module_fini

Next == Continue \/ Start \/ Left

Spec == Init /\ [][Next]_vars

\* One thread runs each operation to its end.
Fairness == WF_vars(Continue)
FairSpec == Spec /\ Fairness
-----------------------------------------------------------------------------
(* Type invariant of the module list and of the call stack.                   *)
TypeOK ==
    /\ state \in [Name -> {"none", "loading", "active"}]
    /\ lib \in [Name -> Name]
    /\ depend \in [Name -> SUBSET Name]
    /\ rdepend \in [Name -> SUBSET Name]
    /\ todo \in [Name -> SUBSET Name]
    /\ level \in [Name -> Nat]
    /\ height \in Nat
    /\ ret \in {"none", "ok", "fail"}
    /\ op \in {"load", "idle", "conf", "purge", "unload", "reload", "fini", "left"}
    /\ work \subseteq Name \X Name
    /\ first \in (Name \X Name) \cup {NULL}
    /\ wanted \subseteq Name \X Name
    /\ sweep \subseteq Name
    /\ passes \in Nat
    /\ owed \subseteq Name

(* While a module is active everything it depends on is active too, and knows *)
(* of it: module_del refuses to unload a library that others are linked to.   *)
DependenciesReady ==
    \A m \in Name : state[m] = "active" =>
        \A d \in depend[m] \ {m} : state[d] = "active" /\ m \in rdepend[d]

(* An entry in rdepend names a module that is there and asked for it: a stale *)
(* entry would make a module impossible to unload, and module_fini and        *)
(* module_reload would loop for ever.                                         *)
RdependExact ==
    \A d \in Name : \A m \in rdepend[d] :
        /\ m # d
        /\ state[d] = "active"
        /\ state[m] # "none"
        /\ d \in depend[m]

(* No library is open twice, under two names: its static data would be shared *)
(* by two modules.                                                            *)
LibLoadedOnce == \A m, n \in Loaded : lib[m] = lib[n] => m = n

(* The stack of module_add calls is exactly the modules that are loading, so  *)
(* that a loop of dependencies is met as a module that is still loading.      *)
OnlyStackLoads ==
    /\ \A n \in Name : state[n] = "loading" <=> level[n] > 0
    /\ \A n \in Name : level[n] <= height
    /\ \A m, n \in Name : level[m] = level[n] /\ level[m] > 0 => m = n

(* The tables of module.c as every caller relies on them.                     *)
TablesSound == TypeOK /\ DependenciesReady /\ RdependExact /\ LibLoadedOnce /\ OnlyStackLoads

(* What DependenciesReady says of an active module holds, while one is        *)
(* loading, of the dependencies that it has dealt with.                       *)
SolvedSoFar ==
    \A m \in Name : state[m] = "loading" =>
        \A d \in depend[m] \ ({m} \cup todo[m]) : state[d] = "active" /\ m \in rdepend[d]

TodoInDepend == \A m \in Name : todo[m] \subseteq depend[m]

(* module_del and the loops of the callers run on an empty stack.             *)
StackOnlyInLoads == height > 0 => op \in {"load", "conf", "reload"}

(* When a config reload is over, everything that is loaded was asked for or   *)
(* is needed: the passes were enough to unload chains of mere dependencies.   *)
NothingUnused ==
    [][op = "purge" /\ op' = "idle" =>
        \A n \in Loaded : ~Unwanted(n) \/ rdepend[n] # {}]_vars

(* module_reload takes modules down and brings all of them up again, but for   *)
(* those whose library, or a dependency of which, fails to load.               *)
ReloadRestores ==
    [][op = "reload" /\ op' = "idle" => owed \subseteq Loaded']_vars

(* An operation that is over has done what it is for.                         *)
OperationsComplete == NothingUnused /\ ReloadRestores
=============================================================================
