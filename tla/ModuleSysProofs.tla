--------------------------- MODULE ModuleSysProofs ---------------------------
(* Proofs about module.c's dependency tables, for any set of modules, any     *)
(* dependency lists and any order in which lists are walked; about commands   *)
(* and their bindings; about rules of any length; and about the modules that  *)
(* ask the web, for any queries.                                              *)
EXTENDS MCModuleSys, Integers, FiniteSetTheorems, SequenceTheorems, WellFoundedInduction, TLAPS

(* What the tables and the stack say of each other.                           *)
TablesInv ==
    /\ OnlyStackLoads
    /\ DependenciesReady
    /\ RdependExact
    /\ SolvedSoFar
    /\ TodoInDepend
    /\ LibLoadedOnce

IInv == TypeOK /\ TablesInv /\ StackOnlyInLoads

(* The initial tables are empty.                                              *)
LEMMA InitIInv == Init => IInv
  <1>1. SUFFICES ASSUME Init PROVE IInv
    OBVIOUS
  <1>2. TypeOK
    BY <1>1, ModuleSysAssumption DEF Init, TypeOK
  <1>3. TablesInv /\ StackOnlyInLoads
    BY <1>1 DEF Init, TablesInv, OnlyStackLoads, DependenciesReady, RdependExact,
       SolvedSoFar, TodoInDepend, LibLoadedOnce, Loaded, StackOnlyInLoads
  <1> QED
    BY <1>2, <1>3 DEF IInv

(* A step that leaves tables and stack alone keeps TablesInv.                 *)
LEMMA SameTables ==
    ASSUME TablesInv, UNCHANGED <<tables, level, height>>
    PROVE  TablesInv'
  BY DEF TablesInv, OnlyStackLoads, DependenciesReady, RdependExact, SolvedSoFar,
     TodoInDepend, LibLoadedOnce, Loaded, tables

(* module_add puts a new module on the stack: no other table entry can yet    *)
(* mention it.                                                                *)
LEMMA AddKeeps ==
    ASSUME TypeOK, TablesInv, NEW n \in Name, NEW l \in Name, n \notin Loaded,
           module_add(n, l)
    PROVE  TablesInv'
  <1>1. CASE UNCHANGED <<tables, level, height>>
    BY <1>1, SameTables
  <1>2. CASE ~UNCHANGED <<tables, level, height>>
    <2>1. /\ ~LibInUse(n) /\ ~LibInUse(l)
          /\ \E deps \in Depends(l) :
               /\ depend' = [depend EXCEPT ![n] = deps]
               /\ todo' = [todo EXCEPT ![n] = deps]
          /\ state' = [state EXCEPT ![n] = "loading"]
          /\ lib' = [lib EXCEPT ![n] = l]
          /\ rdepend' = [rdepend EXCEPT ![n] = {}]
          /\ level' = [level EXCEPT ![n] = height + 1]
          /\ height' = height + 1
      BY <1>2 DEF module_add
    <2>2. PICK deps \in Depends(l) : /\ depend' = [depend EXCEPT ![n] = deps]
                                     /\ todo' = [todo EXCEPT ![n] = deps]
      BY <2>1
    <2>3. state[n] = "none"
      BY DEF TypeOK, Loaded
    <2>4. \A d \in Name : n \notin rdepend[d]
      BY <2>3 DEF TablesInv, RdependExact
    <2>5. OnlyStackLoads'
      BY <2>1 DEF TypeOK, TablesInv, OnlyStackLoads
    <2>6. DependenciesReady'
      BY <2>1, <2>2, <2>3 DEF TypeOK, TablesInv, DependenciesReady
    <2>7. RdependExact'
      BY <2>1, <2>2, <2>3, <2>4 DEF TypeOK, TablesInv, RdependExact
    <2>8. SolvedSoFar'
      <3>1. SUFFICES ASSUME NEW m \in Name, state'[m] = "loading",
                            NEW d \in depend'[m] \ ({m} \cup todo'[m])
                     PROVE  state'[d] = "active" /\ m \in rdepend'[d]
        BY DEF SolvedSoFar
      <3>2. m # n
        BY <2>2, <3>1 DEF TypeOK
      <3>3. state[d] = "active" /\ m \in rdepend[d] /\ d \in Name
        BY <2>1, <2>2, <3>1, <3>2 DEF TypeOK, TablesInv, SolvedSoFar
      <3> QED
        BY <2>1, <2>3, <3>3 DEF TypeOK
    <2>9. LibLoadedOnce'
      BY <2>1, <2>3 DEF TypeOK, TablesInv, LibLoadedOnce, LibInUse, Loaded
    <2>10. TodoInDepend'
      BY <2>2 DEF TypeOK, TablesInv, TodoInDepend
    <2> QED
      BY <2>5, <2>6, <2>7, <2>8, <2>9, <2>10 DEF TablesInv
  <1> QED
    BY <1>1, <1>2

(* A module whose name leaves the tables was nobody's dependency: it was      *)
(* loading, or its rdepend was empty.                                         *)
LEMMA FreeKeeps ==
    ASSUME TypeOK, TablesInv, NEW n \in Name,
           state[n] # "active" \/ rdepend[n] = {},
           module_release_dependencies(n), module_free(n)
    PROVE  (DependenciesReady /\ RdependExact /\ SolvedSoFar /\ TodoInDepend /\ LibLoadedOnce)'
  <1>1. rdepend[n] = {}
    BY DEF TypeOK, TablesInv, RdependExact
  <1>2. /\ rdepend' = [d \in Name |-> IF d \in depend[n] THEN rdepend[d] \ {n} ELSE rdepend[d]]
        /\ state' = [state EXCEPT ![n] = "none"]
        /\ lib' = [lib EXCEPT ![n] = n]
        /\ depend' = [depend EXCEPT ![n] = {}]
        /\ todo' = [todo EXCEPT ![n] = {}]
    BY DEF module_release_dependencies, module_free
  <1>3. \A d, m \in Name : m # n => (m \in rdepend'[d] <=> m \in rdepend[d])
    BY <1>2
  <1>4. \A d \in Name : n \notin rdepend'[d]
    BY <1>2 DEF TypeOK, TablesInv, RdependExact
  <1>5. DependenciesReady'
    <2>1. SUFFICES ASSUME NEW m \in Name, state'[m] = "active", NEW d \in depend'[m] \ {m}
                   PROVE  state'[d] = "active" /\ m \in rdepend'[d]
      BY DEF DependenciesReady
    <2>2. m # n /\ state[m] = "active" /\ d \in depend[m] \ {m} /\ d \in Name
      BY <1>2, <2>1 DEF TypeOK
    <2>3. state[d] = "active" /\ m \in rdepend[d]
      BY <2>2 DEF TablesInv, DependenciesReady
    <2> QED
      BY <1>1, <1>2, <1>3, <2>2, <2>3 DEF TypeOK
  <1>6. RdependExact'
    <2>1. SUFFICES ASSUME NEW d \in Name, NEW m \in rdepend'[d]
                   PROVE  m # d /\ state'[d] = "active" /\ state'[m] # "none" /\ d \in depend'[m]
      BY DEF RdependExact
    <2>2. m \in Name /\ m # n /\ m \in rdepend[d]
      BY <1>2, <1>4, <2>1 DEF TypeOK
    <2>3. d # n
      BY <1>1, <2>2
    <2> QED
      BY <1>2, <2>2, <2>3 DEF TypeOK, TablesInv, RdependExact
  <1>7. SolvedSoFar'
    <2>1. SUFFICES ASSUME NEW m \in Name, state'[m] = "loading",
                          NEW d \in depend'[m] \ ({m} \cup todo'[m])
                   PROVE  state'[d] = "active" /\ m \in rdepend'[d]
      BY DEF SolvedSoFar
    <2>2. m # n /\ state[m] = "loading" /\ d \in depend[m] \ ({m} \cup todo[m]) /\ d \in Name
      BY <1>2, <2>1 DEF TypeOK
    <2>3. state[d] = "active" /\ m \in rdepend[d]
      BY <2>2 DEF TablesInv, SolvedSoFar
    <2> QED
      BY <1>1, <1>2, <1>3, <2>2, <2>3 DEF TypeOK
  <1>8. LibLoadedOnce'
    BY <1>2 DEF TypeOK, TablesInv, LibLoadedOnce, Loaded
  <1>9. TodoInDepend'
    BY <1>2 DEF TypeOK, TablesInv, TodoInDepend
  <1> QED
    BY <1>5, <1>6, <1>7, <1>8, <1>9

(* module_add fails after it put its module on the stack.                     *)
LEMMA AddFailKeeps ==
    ASSUME TypeOK, TablesInv, NEW n \in Name, Innermost(n), module_add_fail(n)
    PROVE  TablesInv'
  <1>1. state[n] = "loading"
    BY DEF TypeOK, TablesInv, OnlyStackLoads, Innermost
  <1>2. (DependenciesReady /\ RdependExact /\ SolvedSoFar /\ TodoInDepend /\ LibLoadedOnce)'
    BY <1>1, FreeKeeps DEF module_add_fail
  <1>3. OnlyStackLoads'
    BY DEF TypeOK, TablesInv, OnlyStackLoads, Innermost, module_add_fail, module_free, Return
  <1> QED
    BY <1>2, <1>3 DEF TablesInv

(* module_del finds an empty rdepend, on an empty stack.                      *)
LEMMA DelKeeps ==
    ASSUME TypeOK, TablesInv, NEW n \in Name, height = 0, module_del(n), UNCHANGED stack
    PROVE  TablesInv'
  <1>1. (DependenciesReady /\ RdependExact /\ SolvedSoFar /\ TodoInDepend /\ LibLoadedOnce)'
    BY FreeKeeps DEF module_del
  <1>2. OnlyStackLoads'
    BY DEF TypeOK, TablesInv, OnlyStackLoads, module_del, module_free, stack
  <1> QED
    BY <1>1, <1>2 DEF TablesInv

(* A dependency is entered in the table of what it is needed for.             *)
LEMMA RegisterKeeps ==
    ASSUME TypeOK, TablesInv, NEW n \in Name, Innermost(n), NEW d \in todo[n], register(n, d)
    PROVE  TablesInv'
  <1>1. state[n] = "loading" /\ d \in Name
    BY DEF TypeOK, TablesInv, OnlyStackLoads, Innermost
  <1>2. /\ d # n => state[d] = "active"
        /\ rdepend' = IF d = n THEN rdepend ELSE [rdepend EXCEPT ![d] = @ \cup {n}]
        /\ todo' = [todo EXCEPT ![n] = @ \ {d}]
        /\ UNCHANGED <<state, lib, depend, level, height>>
    BY DEF register
  <1>3. \A x, m \in Name : m \in rdepend[x] => m \in rdepend'[x]
    BY <1>1, <1>2 DEF TypeOK
  <1>4. OnlyStackLoads' /\ LibLoadedOnce'
    BY <1>2 DEF TablesInv, OnlyStackLoads, LibLoadedOnce, Loaded
  <1>5. DependenciesReady'
    BY <1>2, <1>3 DEF TypeOK, TablesInv, DependenciesReady
  <1>6. TodoInDepend'
    BY <1>2 DEF TypeOK, TablesInv, TodoInDepend
  <1>7. SolvedSoFar'
    <2>1. SUFFICES ASSUME NEW m \in Name, state[m] = "loading",
                          NEW x \in depend[m] \ ({m} \cup todo'[m])
                   PROVE  state[x] = "active" /\ m \in rdepend'[x]
      BY <1>2 DEF SolvedSoFar
    <2>2. x \in Name
      BY <2>1 DEF TypeOK
    <2>3. CASE x \in todo[m]
      <3>1. m = n /\ x = d
        BY <1>2, <2>1, <2>3 DEF TypeOK
      <3> QED
        BY <1>1, <1>2, <2>1, <3>1 DEF TypeOK
    <2>4. CASE x \notin todo[m]
      BY <1>3, <2>1, <2>2, <2>4 DEF TablesInv, SolvedSoFar
    <2> QED
      BY <2>3, <2>4
  <1>8. RdependExact'
    <2>1. SUFFICES ASSUME NEW x \in Name, NEW m \in rdepend'[x]
                   PROVE  m # x /\ state[x] = "active" /\ state[m] # "none" /\ x \in depend[m]
      BY <1>2 DEF RdependExact
    <2>2. CASE m \in rdepend[x]
      BY <2>2 DEF TablesInv, RdependExact
    <2>3. CASE m \notin rdepend[x]
      <3>1. m = n /\ x = d /\ d # n
        BY <1>1, <1>2, <2>1, <2>3 DEF TypeOK
      <3>2. d \in depend[n]
        BY DEF TablesInv, TodoInDepend
      <3> QED
        BY <1>1, <1>2, <3>1, <3>2
    <2> QED
      BY <2>2, <2>3
  <1> QED
    BY <1>4, <1>5, <1>6, <1>7, <1>8 DEF TablesInv

(* mod_init: what SolvedSoFar says of all its dependencies makes it active.   *)
LEMMA InitKeeps ==
    ASSUME TypeOK, TablesInv, NEW n \in Name, mod_init(n)
    PROVE  TablesInv'
  <1>1. /\ Innermost(n) /\ todo[n] = {} /\ Return(n)
        /\ state' = [state EXCEPT ![n] = "active"]
        /\ UNCHANGED <<lib, depend, rdepend, todo>>
    BY DEF mod_init
  <1>2. state[n] = "loading"
    BY <1>1 DEF TypeOK, TablesInv, OnlyStackLoads, Innermost
  <1>3. OnlyStackLoads'
    BY <1>1 DEF TypeOK, TablesInv, OnlyStackLoads, Innermost, Return
  <1>4. DependenciesReady'
    <2>1. SUFFICES ASSUME NEW m \in Name, state'[m] = "active", NEW d \in depend[m] \ {m}
                   PROVE  state'[d] = "active" /\ m \in rdepend[d]
      BY <1>1 DEF DependenciesReady
    <2>2. d \in Name
      BY <2>1 DEF TypeOK
    <2>3. state[d] = "active" /\ m \in rdepend[d]
      <3>1. CASE m = n
        BY <1>1, <1>2, <2>1, <3>1 DEF TablesInv, SolvedSoFar
      <3>2. CASE m # n
        BY <1>1, <2>1, <3>2 DEF TypeOK, TablesInv, DependenciesReady
      <3> QED
        BY <3>1, <3>2
    <2> QED
      BY <1>1, <2>2, <2>3 DEF TypeOK
  <1>5. RdependExact'
    BY <1>1 DEF TypeOK, TablesInv, RdependExact
  <1>6. SolvedSoFar'
    BY <1>1 DEF TypeOK, TablesInv, SolvedSoFar
  <1>7. LibLoadedOnce' /\ TodoInDepend'
    BY <1>1, <1>2 DEF TypeOK, TablesInv, LibLoadedOnce, TodoInDepend, Loaded
  <1> QED
    BY <1>3, <1>4, <1>5, <1>6, <1>7 DEF TablesInv

(* One action after the other, the tables stay consistent.                    *)
LEMMA StepTables ==
    ASSUME IInv, [Next]_vars
    PROVE  TablesInv'
  <1>0. TypeOK /\ TablesInv /\ StackOnlyInLoads
    BY DEF IInv
  <1>1. ASSUME NEW n \in Name, module_solve_dependencies(n) PROVE TablesInv'
    <2>1. CASE module_add_fail(n)
      BY <1>0, <1>1, <2>1, AddFailKeeps DEF module_solve_dependencies
    <2>2. ASSUME NEW d \in todo[n], register(n, d) PROVE TablesInv'
      BY <1>0, <1>1, <2>2, RegisterKeeps DEF module_solve_dependencies
    <2>3. ASSUME NEW d \in todo[n], state[d] = "none", module_add(d, d) PROVE TablesInv'
      <3>1. d \in Name /\ d \notin Loaded
        BY <1>0, <2>3 DEF TypeOK, Loaded
      <3> QED
        BY <1>0, <2>3, <3>1, AddKeeps
    <2> QED
      BY <1>1, <2>1, <2>2, <2>3 DEF module_solve_dependencies
  <1>2. ASSUME NEW n \in Name, mod_init(n) PROVE TablesInv'
    BY <1>0, <1>2, InitKeeps
  <1>3. ASSUME NEW n \in Name, mod_init_fails(n) PROVE TablesInv'
    BY <1>0, <1>3, AddFailKeeps DEF mod_init_fails
  <1>4. ASSUME NEW p \in work, module_add_smart(p) PROVE TablesInv'
    <2>1. p \in Name \X Name
      BY <1>0, <1>4 DEF TypeOK
    <2>2. p[1] \in Name /\ p[2] \in Name
      BY <2>1
    <2>3. CASE p[1] \in Loaded
      BY <1>0, <1>4, <2>3, SameTables DEF module_add_smart, stack
    <2>4. CASE p[1] \notin Loaded
      BY <1>0, <1>4, <2>2, <2>4, AddKeeps DEF module_add_smart
    <2> QED
      BY <2>3, <2>4
  <1>5. \A n \in Name : module_del(n) /\ UNCHANGED stack /\ op \notin {"load", "conf", "reload"}
                           => TablesInv'
    BY <1>0, DelKeeps DEF StackOnlyInLoads, TypeOK
  <1>6. ASSUME NEW p \in work, module_reload_unload(p) PROVE TablesInv'
    <2>1. p[1] \in Name
      BY <1>6 DEF module_reload_unload, Loaded
    <2> QED
      BY <1>5, <1>6, <2>1 DEF module_reload_unload
  <1>7. ASSUME NEW n \in Name, PurgeStep(n) PROVE TablesInv'
    <2>1. CASE module_del(n)
      BY <1>5, <1>7, <2>1 DEF PurgeStep
    <2>2. CASE UNCHANGED tables
      BY <1>0, <1>7, <2>2, SameTables DEF PurgeStep, stack
    <2> QED
      BY <1>7, <2>1, <2>2 DEF PurgeStep
  <1>8. ASSUME NEW n \in Name, module_fini_del(n) PROVE TablesInv'
    BY <1>5, <1>8 DEF module_fini_del
  <1>9. ASSUME NEW n \in Name, cmd_module_del(n) PROVE TablesInv'
    BY <1>5, <1>9 DEF cmd_module_del, Idle
  <1>10. ASSUME LoadDone \/ module_conf_reload_purge \/ PurgePass \/ module_reload_load
                \/ module_fini_done \/ module_conf_reload \/ module_fini \/ Left
                \/ (\E p \in Alias : cmd_module_add(p)) \/ (\E n \in Name : module_reload(n))
                \/ UNCHANGED vars
         PROVE TablesInv'
    <2>1. UNCHANGED <<tables, level, height>>
      BY <1>10 DEF LoadDone, module_conf_reload_purge, PurgePass, module_reload_load,
         module_fini_done, module_conf_reload, module_fini, Left, cmd_module_add,
         module_reload, vars, stack
    <2> QED
      BY <1>0, <2>1, SameTables
  <1> QED
    BY <1>1, <1>2, <1>3, <1>4, <1>6, <1>7, <1>8, <1>9, <1>10 DEF Next, Continue, Start, Load

(* Deletions happen on an empty stack only: no operation ends while a module  *)
(* is loading.                                                                *)
LEMMA StepStack ==
    ASSUME IInv, [Next]_vars
    PROVE  StackOnlyInLoads'
  <1>1. TypeOK /\ StackOnlyInLoads
    BY DEF IInv
  <1>2. ASSUME Load PROVE StackOnlyInLoads'
    <2>1. height > 0 /\ UNCHANGED op
      BY <1>1, <1>2 DEF Load, module_solve_dependencies, mod_init, mod_init_fails, Innermost,
         module_add_fail, register, task, plan
    <2> QED
      BY <1>1, <2>1 DEF StackOnlyInLoads
  <1>3. ASSUME NEW p \in work, module_add_smart(p) PROVE StackOnlyInLoads'
    BY <1>3 DEF module_add_smart, StackOnlyInLoads
  <1>4. ASSUME \/ UNCHANGED stack /\ UNCHANGED task
               \/ UNCHANGED stack /\ op \notin {"load", "conf", "reload"}
               \/ UNCHANGED <<level, height>> /\ height = 0
        PROVE  StackOnlyInLoads'
    BY <1>1, <1>4 DEF StackOnlyInLoads, TypeOK, stack, task, plan
  <1>5. Next /\ ~Load /\ ~(\E p \in work : module_add_smart(p))
          => \/ UNCHANGED stack /\ UNCHANGED task
             \/ UNCHANGED stack /\ op \notin {"load", "conf", "reload"}
             \/ UNCHANGED <<level, height>> /\ height = 0
    BY DEF Next, Continue, Start, Left, Idle, vars, stack, cmd_module_add, cmd_module_del,
       module_reload, module_conf_reload, module_fini, module_reload_unload, PurgeStep,
       module_fini_del, LoadDone, module_conf_reload_purge, PurgePass, module_reload_load,
       module_fini_done
  <1> QED
    BY <1>2, <1>3, <1>4, <1>5 DEF vars

(* The types of what module_add writes.                                       *)
LEMMA AddTypes ==
    ASSUME TypeOK, NEW n \in Name, NEW l \in Name, module_add(n, l)
    PROVE  /\ state' \in [Name -> {"none", "loading", "active"}]
           /\ lib' \in [Name -> Name]
           /\ depend' \in [Name -> SUBSET Name]
           /\ rdepend' \in [Name -> SUBSET Name]
           /\ todo' \in [Name -> SUBSET Name]
           /\ level' \in [Name -> Nat]
           /\ height' \in Nat
           /\ ret' \in {"none", "ok", "fail"}
           /\ owed' \subseteq Name
  <1>1. CASE UNCHANGED <<tables, level, height>>
    BY <1>1 DEF TypeOK, tables, module_add
  <1>2. CASE ~UNCHANGED <<tables, level, height>>
    <2>1. PICK deps \in Depends(l) : /\ depend' = [depend EXCEPT ![n] = deps]
                                     /\ todo' = [todo EXCEPT ![n] = deps]
      BY <1>2 DEF module_add
    <2>2. deps \in SUBSET Name
      BY ModuleSysAssumption
    <2>3. owed' \subseteq Name
      BY <1>2 DEF TypeOK, module_add
    <2>4. /\ state' = [state EXCEPT ![n] = "loading"]
          /\ lib' = [lib EXCEPT ![n] = l]
          /\ rdepend' = [rdepend EXCEPT ![n] = {}]
          /\ level' = [level EXCEPT ![n] = height + 1]
          /\ height' = height + 1
          /\ ret' = "none"
      BY <1>2 DEF module_add
    <2> QED
      BY <2>1, <2>2, <2>3, <2>4 DEF TypeOK
  <1> QED
    BY <1>1, <1>2

(* The types of what module_free and module_release_dependencies write.       *)
LEMMA FreeTypes ==
    ASSUME TypeOK, NEW n \in Name, module_release_dependencies(n), module_free(n)
    PROVE  /\ state' \in [Name -> {"none", "loading", "active"}]
           /\ lib' \in [Name -> Name]
           /\ depend' \in [Name -> SUBSET Name]
           /\ rdepend' \in [Name -> SUBSET Name]
           /\ todo' \in [Name -> SUBSET Name]
  BY DEF TypeOK, module_release_dependencies, module_free

(* Every step keeps the types.                                                *)
LEMMA StepTypes ==
    ASSUME TypeOK, [Next]_vars
    PROVE  TypeOK'
  <1>1. ASSUME NEW n \in Name, module_add_fail(n), Innermost(n) PROVE TypeOK'
    <2>1. module_release_dependencies(n) /\ module_free(n) /\ Return(n) /\ ret' = "fail"
          /\ UNCHANGED plan /\ owed' = owed \ {n} /\ height > 0
      BY <1>1 DEF module_add_fail, Innermost
    <2>2. level' \in [Name -> Nat] /\ height' \in Nat
      BY <2>1 DEF TypeOK, Return
    <2>3. /\ state' \in [Name -> {"none", "loading", "active"}]
          /\ lib' \in [Name -> Name]
          /\ depend' \in [Name -> SUBSET Name]
          /\ rdepend' \in [Name -> SUBSET Name]
          /\ todo' \in [Name -> SUBSET Name]
      BY <2>1, FreeTypes
    <2> QED
      BY <2>1, <2>2, <2>3 DEF TypeOK, task, plan
  <1>2. ASSUME NEW n \in Name, module_solve_dependencies(n) PROVE TypeOK'
    <2>1. CASE module_add_fail(n)
      BY <1>1, <1>2, <2>1 DEF module_solve_dependencies
    <2>2. ASSUME NEW d \in todo[n], register(n, d) PROVE TypeOK'
      BY <2>2 DEF TypeOK, register, task, plan
    <2>3. ASSUME NEW d \in todo[n], module_add(d, d), UNCHANGED plan PROVE TypeOK'
      <3>1. d \in Name
        BY <2>3 DEF TypeOK
      <3> QED
        BY <2>3, <3>1, AddTypes DEF TypeOK, task, plan
    <2> QED
      BY <1>2, <2>1, <2>2, <2>3 DEF module_solve_dependencies
  <1>3. ASSUME NEW n \in Name, mod_init(n) PROVE TypeOK'
    BY <1>3 DEF TypeOK, mod_init, Innermost, Return, task, plan
  <1>4. ASSUME NEW n \in Name, mod_init_fails(n) PROVE TypeOK'
    BY <1>1, <1>4 DEF mod_init_fails
  <1>5. ASSUME NEW p \in work, module_add_smart(p) PROVE TypeOK'
    <2>1. p[1] \in Name /\ p[2] \in Name
      BY DEF TypeOK
    <2>2. work' \subseteq Name \X Name
      BY <1>5 DEF TypeOK, module_add_smart
    <2>3. CASE UNCHANGED <<tables, stack, owed>>
      BY <1>5, <2>2, <2>3 DEF TypeOK, module_add_smart, tables, stack
    <2>4. CASE module_add(p[1], p[2])
      BY <1>5, <2>1, <2>2, <2>4, AddTypes DEF TypeOK, module_add_smart
    <2> QED
      BY <1>5, <2>3, <2>4 DEF module_add_smart
  <1>6. ASSUME NEW n \in Name, module_del(n), UNCHANGED <<stack, op, work, first, wanted, passes, owed>>,
               sweep' \subseteq Name
        PROVE  TypeOK'
    <2>1. module_release_dependencies(n) /\ module_free(n)
      BY <1>6 DEF module_del
    <2> QED
      BY <1>6, <2>1, FreeTypes DEF TypeOK, stack
  <1>7. ASSUME NEW p \in work, module_reload_unload(p) PROVE TypeOK'
    <2>1. p[1] \in Name
      BY <1>7 DEF module_reload_unload, Loaded
    <2>2. sweep' \subseteq Name
      BY <1>7 DEF TypeOK, module_reload_unload, task, plan
    <2> QED
      BY <1>6, <1>7, <2>1, <2>2 DEF module_reload_unload, task, plan
  <1>8. ASSUME NEW n \in Name, PurgeStep(n) PROVE TypeOK'
    <2>1. sweep' \subseteq Name
      BY <1>8 DEF TypeOK, PurgeStep
    <2>2. CASE UNCHANGED tables
      BY <1>8, <2>1, <2>2 DEF TypeOK, PurgeStep, tables, stack
    <2> QED
      BY <1>6, <1>8, <2>1, <2>2 DEF PurgeStep
  <1>9. ASSUME NEW n \in Name, module_fini_del(n) \/ cmd_module_del(n) PROVE TypeOK'
    <2>1. sweep' \subseteq Name
      BY <1>9 DEF TypeOK, module_fini_del, cmd_module_del, task, plan
    <2> QED
      BY <1>6, <1>9, <2>1 DEF module_fini_del, cmd_module_del, task, plan
  <1>10. CASE LoadDone \/ PurgePass \/ module_reload_load \/ module_fini_done \/ module_fini \/ Left
    BY <1>10 DEF TypeOK, LoadDone, PurgePass, module_reload_load, module_fini_done,
       module_fini, Left, tables, stack, vars, task, plan, Loaded
  <1>11. CASE module_conf_reload_purge
    <2>1. Cardinality(Loaded) \in Nat
      BY ModuleSysAssumption, FS_Subset, FS_CardinalityType DEF Loaded
    <2> QED
      BY <1>11, <2>1 DEF TypeOK, module_conf_reload_purge, tables, Loaded
  <1>12. CASE module_conf_reload
    <2>1. wanted' \subseteq Name \X Name /\ work' = wanted'
      BY <1>12, ModuleSysAssumption DEF module_conf_reload
    <2> QED
      BY <1>12, <2>1 DEF TypeOK, module_conf_reload, tables, stack
  <1>13. ASSUME NEW p \in Alias, cmd_module_add(p) PROVE TypeOK'
    BY <1>13, ModuleSysAssumption DEF TypeOK, cmd_module_add, tables, stack
  <1>14. ASSUME NEW n \in Name, module_reload(n) PROVE TypeOK'
    <2>1. RDepsOf(n) \subseteq Name
      BY DEF RDepsOf, Loaded
    <2>2. work' \subseteq Name \X Name /\ first' \in Name \X Name /\ owed' \subseteq Name
      BY <1>14, <2>1 DEF TypeOK, module_reload, Loaded
    <2> QED
      BY <1>14, <2>2 DEF TypeOK, module_reload, tables, stack
  <1>15. CASE UNCHANGED vars
    BY <1>15 DEF TypeOK, vars, tables, stack, task, plan
  <1> QED
    BY <1>2, <1>3, <1>4, <1>5, <1>7, <1>8, <1>9, <1>10, <1>11, <1>12, <1>13, <1>14, <1>15
       DEF Next, Continue, Start, Load

(* The inductive invariant holds throughout.                                  *)
LEMMA SpecIInv == Spec => []IInv
  <1>1. IInv /\ [Next]_vars => IInv'
    <2>1. SUFFICES ASSUME IInv, [Next]_vars PROVE IInv'
      OBVIOUS
    <2>2. TypeOK'
      BY <2>1, StepTypes DEF IInv
    <2> QED
      BY <2>1, <2>2, StepTables, StepStack DEF IInv
  <1> QED
    BY InitIInv, <1>1, PTL DEF Spec

(* Type correctness of module.c's state.                                      *)
THEOREM SpecTypeOK == Spec => []TypeOK
  <1>1. IInv => TypeOK
    BY DEF IInv
  <1> QED
    BY SpecIInv, <1>1, PTL

(* No module is ever active without all its dependencies: module_del cannot   *)
(* unload a library that others use, in whatever order loads, failures,       *)
(* reloads and unloads come.                                                  *)
THEOREM SpecDependenciesReady == Spec => []DependenciesReady
  <1>1. IInv => DependenciesReady
    BY DEF IInv, TablesInv
  <1> QED
    BY SpecIInv, <1>1, PTL

(* rdepend holds no stale entry, not even after a load that failed half way.  *)
THEOREM SpecRdependExact == Spec => []RdependExact
  <1>1. IInv => RdependExact
    BY DEF IInv, TablesInv
  <1> QED
    BY SpecIInv, <1>1, PTL

(* No library is open under two names.                                        *)
THEOREM SpecLibLoadedOnce == Spec => []LibLoadedOnce
  <1>1. IInv => LibLoadedOnce
    BY DEF IInv, TablesInv
  <1> QED
    BY SpecIInv, <1>1, PTL

(* The modules that are loading are those of the module_add calls under way.  *)
THEOREM SpecOnlyStackLoads == Spec => []OnlyStackLoads
  <1>1. IInv => OnlyStackLoads
    BY DEF IInv, TablesInv
  <1> QED
    BY SpecIInv, <1>1, PTL

(* The tables of module.c as a whole, for any names and any set of libraries. *)
THEOREM SpecTablesSound == Spec => []TablesSound
  BY SpecTypeOK, SpecDependenciesReady, SpecRdependExact, SpecLibLoadedOnce, SpecOnlyStackLoads, PTL
     DEF TablesSound
-----------------------------------------------------------------------------
(* What a module of a config reload's list is unloaded for.                   *)
Unused == {n \in Loaded : Unwanted(n) /\ rdepend[n] = {}}

(* A config reload: as long as something can be unloaded, this pass still     *)
(* comes to it, or there are more passes left than modules.                   *)
PurgeInv ==
    op = "purge" =>
        /\ sweep \subseteq Loaded
        /\ \/ Unused = {}
           \/ Unused \subseteq sweep /\ Cardinality(Loaded) <= passes
           \/ Cardinality(Loaded) + 1 <= passes

(* A module reload: what is owed is loaded, or waits for its turn.            *)
ReloadInv ==
    op \in {"unload", "reload"} => \A n \in owed : n \in Loaded \/ \E p \in work : n = p[1]

(* There are finitely many modules, and one less when one of them is gone.    *)
LEMMA LoadedFinite ==
    /\ IsFiniteSet(Loaded)
    /\ Cardinality(Loaded) \in Nat
    /\ Cardinality(Loaded) = 0 => Loaded = {}
    /\ \A n \in Loaded : Cardinality(Loaded \ {n}) = Cardinality(Loaded) - 1
  <1>1. IsFiniteSet(Loaded)
    BY ModuleSysAssumption, FS_Subset DEF Loaded
  <1>2. Cardinality(Loaded) \in Nat /\ (Cardinality(Loaded) = 0 => Loaded = {})
    BY <1>1, FS_CardinalityType, FS_EmptySet
  <1>3. \A n \in Loaded : Cardinality(Loaded \ {n}) = Cardinality(Loaded) - 1
    BY <1>1, FS_RemoveElement
  <1> QED
    BY <1>1, <1>2, <1>3

(* module_free takes one module from the list.                                *)
LEMMA FreeUnloads ==
    ASSUME TypeOK, NEW n \in Name, module_free(n)
    PROVE  Loaded' = Loaded \ {n}
  BY DEF TypeOK, module_free, Loaded

(* The passes of a config reload keep what makes them enough: each one that   *)
(* leaves something to unload has unloaded something.                         *)
LEMMA StepPurge ==
    ASSUME TypeOK, StackOnlyInLoads, PurgeInv, [Next]_vars
    PROVE  PurgeInv'
  <1>1. SUFFICES ASSUME op' = "purge" PROVE PurgeInv'
    BY DEF PurgeInv
  <1>2. CASE module_conf_reload_purge
    <2>1. Loaded' = Loaded /\ sweep' = Loaded /\ passes' = Cardinality(Loaded)
      BY <1>2 DEF module_conf_reload_purge, Loaded, tables
    <2>2. Unused' \subseteq sweep'
      BY <2>1 DEF Unused
    <2>3. Cardinality(Loaded') <= passes'
      BY <2>1, LoadedFinite
    <2> QED
      BY <2>1, <2>2, <2>3 DEF PurgeInv
  <1>3. ASSUME NEW n \in Name, PurgeStep(n) PROVE PurgeInv'
    <2>1. /\ op = "purge" /\ n \in sweep /\ sweep \subseteq Loaded
          /\ sweep' = sweep \ {n} /\ passes' = passes /\ wanted' = wanted
      BY <1>3 DEF PurgeStep, PurgeInv
    <2>2. CASE Unwanted(n) /\ rdepend[n] = {}
      <3>1. Loaded' = Loaded \ {n}
        BY <1>3, <2>2, FreeUnloads DEF PurgeStep, module_del
      <3>2. n \in Unused
        BY <2>1, <2>2 DEF Unused
      <3>3. Cardinality(Loaded) <= passes
        BY <2>1, <3>2, LoadedFinite DEF PurgeInv, TypeOK
      <3>4. Cardinality(Loaded') + 1 <= passes'
        BY <2>1, <3>1, <3>3, LoadedFinite DEF TypeOK
      <3>5. sweep' \subseteq Loaded'
        BY <2>1, <3>1
      <3> QED
        BY <3>4, <3>5 DEF PurgeInv
    <2>3. CASE ~(Unwanted(n) /\ rdepend[n] = {})
      <3>1. UNCHANGED tables
        BY <1>3, <2>3 DEF PurgeStep
      <3>2. Loaded' = Loaded /\ Unused' = Unused
        BY <2>1, <3>1 DEF tables, Loaded, Unused, Unwanted
      <3>3. n \notin Unused
        BY <2>3 DEF Unused
      <3> QED
        BY <2>1, <3>2, <3>3, Unused \subseteq Loaded DEF PurgeInv, Unused
    <2> QED
      BY <2>2, <2>3
  <1>4. CASE PurgePass
    <2>1. /\ op = "purge" /\ sweep = {} /\ passes > 1 /\ passes' = passes - 1
          /\ sweep' = Loaded /\ wanted' = wanted /\ UNCHANGED tables
      BY <1>1, <1>4 DEF PurgePass
    <2>2. Loaded' = Loaded /\ Unused' = Unused
      BY <2>1 DEF tables, Loaded, Unused, Unwanted
    <2>3. Unused = {} \/ Cardinality(Loaded) + 1 <= passes
      BY <2>1 DEF PurgeInv
    <2>4. Unused' = {} \/ (Unused' \subseteq sweep' /\ Cardinality(Loaded') <= passes')
      <3>1. Cardinality(Loaded) + 1 <= passes => Cardinality(Loaded) <= passes - 1
        BY LoadedFinite DEF TypeOK
      <3>2. Unused \subseteq Loaded
        BY DEF Unused
      <3> QED
        BY <2>1, <2>2, <2>3, <3>1, <3>2
    <2> QED
      BY <2>1, <2>2, <2>4 DEF PurgeInv
  <1>5. CASE UNCHANGED vars
    <2>1. Loaded' = Loaded /\ Unused' = Unused /\ op' = op /\ sweep' = sweep /\ passes' = passes
      BY <1>5 DEF vars, tables, task, plan, Loaded, Unused, Unwanted
    <2> QED
      BY <2>1 DEF PurgeInv
  <1>6. Next => \/ module_conf_reload_purge \/ PurgePass \/ UNCHANGED vars
                \/ \E n \in Name : PurgeStep(n)
                \/ op # "purge" /\ UNCHANGED op
                \/ op' # "purge"
                \/ Load
    BY DEF Next, Continue, Start, Left, Idle, cmd_module_add, cmd_module_del, module_reload,
       module_conf_reload, module_fini, module_reload_unload, module_add_smart,
       module_fini_del, LoadDone, module_reload_load, module_fini_done, task, plan
  <1>7. ASSUME Load PROVE op' # "purge"
    BY <1>7 DEF Load, StackOnlyInLoads, module_solve_dependencies, mod_init, mod_init_fails,
       Innermost, module_add_fail, register, task, plan
  <1> QED
    BY <1>1, <1>2, <1>3, <1>4, <1>5, <1>6, <1>7

(* What is owed: an operation adds nothing to it until it is over.            *)
LEMMA ReloadKept ==
    ASSUME ReloadInv, op' = op, work \subseteq work', owed' \subseteq owed,
           \A n \in Loaded : n \in Loaded' \/ n \notin owed'
    PROVE  ReloadInv'
  BY DEF ReloadInv

(* A module that was owed and is not loaded any more has failed to load.      *)
LEMMA AddOwes ==
    ASSUME TypeOK, NEW n \in Name, NEW l \in Name, module_add(n, l)
    PROVE  /\ owed' \subseteq owed
           /\ Loaded \subseteq Loaded'
           /\ n \in owed' => n \in Loaded'
  <1>1. CASE ret' = "fail" /\ owed' = owed \ {n} /\ UNCHANGED tables
    BY <1>1 DEF tables, Loaded
  <1>2. CASE owed' = owed /\ state' = [state EXCEPT ![n] = "loading"]
    BY <1>2 DEF TypeOK, Loaded
  <1> QED
    BY <1>1, <1>2 DEF module_add

(* Loads and unloads of a reload keep track of what is owed.                  *)
LEMMA StepReload ==
    ASSUME TypeOK, StackOnlyInLoads, ReloadInv, [Next]_vars
    PROVE  ReloadInv'
  <1>1. ASSUME NEW n \in Name, module_add_fail(n) PROVE ReloadInv'
    <2>1. Loaded' = Loaded \ {n} /\ owed' = owed \ {n} /\ op' = op /\ work' = work
      BY <1>1, FreeUnloads DEF module_add_fail, plan
    <2> QED
      BY <2>1, ReloadKept
  <1>2. ASSUME NEW n \in Name, module_solve_dependencies(n) PROVE ReloadInv'
    <2>1. CASE module_add_fail(n)
      BY <1>1, <2>1
    <2>2. ASSUME NEW d \in todo[n], register(n, d) PROVE ReloadInv'
      <3>1. Loaded' = Loaded /\ owed' = owed /\ op' = op /\ work' = work
        BY <2>2 DEF register, task, plan, Loaded
      <3> QED
        BY <3>1, ReloadKept
    <2>3. ASSUME NEW d \in todo[n], module_add(d, d), UNCHANGED plan PROVE ReloadInv'
      <3>1. d \in Name
        BY DEF TypeOK
      <3>2. owed' \subseteq owed /\ Loaded \subseteq Loaded'
        BY <2>3, <3>1, AddOwes
      <3> QED
        BY <2>3, <3>2, ReloadKept DEF plan
    <2> QED
      BY <1>2, <2>1, <2>2, <2>3 DEF module_solve_dependencies
  <1>3. ASSUME NEW n \in Name, mod_init(n) PROVE ReloadInv'
    <2>1. owed' = owed /\ op' = op /\ work' = work /\ Loaded \subseteq Loaded'
      BY <1>3 DEF TypeOK, mod_init, task, plan, Loaded
    <2> QED
      BY <2>1, ReloadKept
  <1>4. ASSUME NEW n \in Name, mod_init_fails(n) PROVE ReloadInv'
    BY <1>1, <1>4 DEF mod_init_fails
  <1>5. ASSUME NEW p \in work, module_add_smart(p) PROVE ReloadInv'
    <2>1. p[1] \in Name /\ p[2] \in Name
      BY DEF TypeOK
    <2>2. /\ owed' \subseteq owed
          /\ Loaded \subseteq Loaded'
          /\ p[1] \in owed' => p[1] \in Loaded'
      <3>1. CASE p[1] \in Loaded
        BY <1>5, <3>1 DEF module_add_smart, tables, Loaded
      <3>2. CASE module_add(p[1], p[2])
        BY <2>1, <3>2, AddOwes
      <3> QED
        BY <1>5, <3>1, <3>2 DEF module_add_smart
    <2>3. work' = work \ {p} /\ op' = op
      BY <1>5 DEF module_add_smart
    <2> QED
      BY <2>2, <2>3 DEF ReloadInv
  <1>6. ASSUME NEW n \in Name, module_reload(n) PROVE ReloadInv'
    BY <1>6 DEF module_reload, ReloadInv, tables, Loaded
  <1>7. ASSUME NEW p \in work, module_reload_unload(p) PROVE ReloadInv'
    <2>1. p[1] \in Name /\ module_free(p[1]) /\ UNCHANGED <<op, work, owed>>
      BY <1>7 DEF module_reload_unload, module_del, task, plan, Loaded
    <2>2. Loaded' = Loaded \ {p[1]}
      BY <2>1, FreeUnloads
    <2> QED
      BY <2>1, <2>2 DEF ReloadInv
  <1>8. CASE module_reload_load
    BY <1>8 DEF module_reload_load, ReloadInv, tables, Loaded
  <1>9. CASE UNCHANGED vars
    BY <1>9 DEF vars, tables, task, plan, ReloadInv, Loaded
  <1>10. Next => \/ \E n \in Name : \/ module_solve_dependencies(n) \/ mod_init(n)
                                    \/ mod_init_fails(n) \/ module_reload(n)
                 \/ \E p \in work : module_add_smart(p) \/ module_reload_unload(p)
                 \/ module_reload_load \/ UNCHANGED vars
                 \/ op' \notin {"unload", "reload"}
    BY DEF Next, Continue, Start, Load, Left, Idle, cmd_module_add, cmd_module_del,
       module_conf_reload, module_fini, PurgeStep, module_fini_del, LoadDone, PurgePass,
       module_conf_reload_purge, module_fini_done, task, plan
  <1> QED
    BY <1>2, <1>3, <1>4, <1>5, <1>6, <1>7, <1>8, <1>9, <1>10 DEF ReloadInv

(* What an operation has left to do is enough throughout.                     *)
LEMMA SpecTaskInv == Spec => [](IInv /\ PurgeInv /\ ReloadInv)
  <1>1. Init => PurgeInv /\ ReloadInv
    BY DEF Init, PurgeInv, ReloadInv
  <1>2. IInv /\ PurgeInv /\ ReloadInv /\ [Next]_vars => (PurgeInv /\ ReloadInv)'
    BY StepPurge, StepReload DEF IInv
  <1> QED
    BY SpecIInv, <1>1, <1>2, PTL DEF Spec

(* A config reload makes as many passes as there were modules.  That is       *)
(* enough for any chain of dependencies: what is loaded when it is over is    *)
(* wanted, or needed by something.                                            *)
THEOREM SpecNothingUnused == Spec => NothingUnused
  <1>1. ASSUME TypeOK, PurgeInv, [Next]_vars, op = "purge", op' = "idle"
        PROVE  \A n \in Loaded : ~Unwanted(n) \/ rdepend[n] # {}
    <2>1. sweep = {} /\ ~(passes > 1)
      BY <1>1 DEF vars, task, Next, Continue, Start, Load, Left, Idle, cmd_module_add,
         cmd_module_del, module_conf_reload, module_fini, PurgeStep, module_fini_del, LoadDone,
         PurgePass, module_conf_reload_purge, module_fini_done, task, plan, module_reload_load,
         module_reload, module_add_smart, module_reload_unload, mod_init, mod_init_fails,
         module_solve_dependencies, module_add_fail, register
    <2>2. Unused = {}
      <3>1. CASE Cardinality(Loaded) + 1 <= passes
        <4>1. Loaded = {}
          BY <1>1, <2>1, <3>1, LoadedFinite DEF TypeOK
        <4> QED
          BY <4>1 DEF Unused
      <3>2. CASE Unused \subseteq sweep
        BY <2>1, <3>2
      <3> QED
        BY <1>1, <3>1, <3>2 DEF PurgeInv
    <2> QED
      BY <2>2 DEF Unused
  <1> QED
    BY SpecTaskInv, <1>1, PTL DEF Spec, NothingUnused, IInv

(* Every module that was loaded before module_reload is loaded after it,      *)
(* unless it failed to load meanwhile.                                        *)
THEOREM SpecReloadRestores == Spec => ReloadRestores
  <1>1. ASSUME ReloadInv, [Next]_vars, op = "reload", op' = "idle"
        PROVE  owed \subseteq Loaded'
    <2>1. work = {} /\ Loaded' = Loaded
      BY <1>1 DEF vars, Next, Continue, Start, Load, Left, Idle, cmd_module_add,
         cmd_module_del, module_conf_reload, module_fini, PurgeStep, module_fini_del, LoadDone,
         PurgePass, module_conf_reload_purge, module_fini_done, task, plan, module_reload_load,
         module_reload, module_add_smart, module_reload_unload, mod_init, mod_init_fails,
         module_solve_dependencies, module_add_fail, register, tables, Loaded
    <2> QED
      BY <1>1, <2>1 DEF ReloadInv
  <1> QED
    BY SpecTaskInv, <1>1, PTL DEF Spec, ReloadRestores

(* An operation that is over has done what it is for.                         *)
THEOREM SpecOperationsComplete == Spec => OperationsComplete
  BY SpecNothingUnused, SpecReloadRestores DEF OperationsComplete

(***************************************************************************)
(* Commands.                                                               *)
(***************************************************************************)

(* One entry of the table of bindings, with the modules ups and the commands  *)
(* cmds.                                                                      *)
EntryOK(b, ups, cmds) ==
    /\ b.module <=> Owner[b.cmd] \in ups
    /\ b.live => b.cmd \in cmds
    /\ b.comp_rule = "tokens" /\ Rule(b) = "ext" => RuleMod \in ups
    /\ b.live => b.comp_rule # "0"
    /\ b.comp_rule = "gone" => b.rule = "freed" \/ b.cmd \in ExtRule
    /\ b.rule = "freed" => b.cmd \in ExtRule

EntriesOK == \A n \in Bindings : EntryOK(binding_list[n], up, command_list)

OwnersUp == \A c \in command_list : Owner[c] \in up

CountsOK == \A c \in Cmd : bound[c] = Live(binding_list, c) /\ bind_count[c] = Cardinality(bound[c])

CommandsInv ==
    CommandsTypeOK /\ IsFiniteSet(Bindings) /\ EntriesOK /\ OwnersUp /\ CountsOK /\ StayBound

(* The properties that the run checks are among it.                           *)
LEMMA CommandsInvSound == CommandsInv => CommandsSound
<1> SUFFICES ASSUME CommandsInv PROVE CommandsSound
  OBVIOUS
<1>1. ASSUME NEW n \in Bindings PROVE binding_list[n] \in Binding
  BY DEF CommandsInv, CommandsTypeOK, Bindings
<1>2. Linked
  <2>1. ASSUME NEW n \in Bindings PROVE binding_list[n].module = (Owner[binding_list[n].cmd] \in up)
    <3>1. binding_list[n].module \in BOOLEAN
      BY <1>1 DEF Binding
    <3>2. binding_list[n].module <=> Owner[binding_list[n].cmd] \in up
      BY DEF CommandsInv, EntriesOK, EntryOK
    <3>3. QED
      BY <3>1, <3>2
  <2>2. ASSUME NEW n \in Bindings PROVE binding_list[n].live => binding_list[n].cmd \in command_list
    BY DEF CommandsInv, EntriesOK, EntryOK
  <2>3. QED
    BY <2>1, <2>2 DEF Linked, CommandsInv, CountsOK
<1>3. RulesSound
  BY DEF CommandsInv, EntriesOK, EntryOK, RulesSound
<1>4. QED
  BY <1>2, <1>3 DEF CommandsInv, CommandsSound

(* An entry of the table is a binding, and only an entry is.                  *)
LEMMA BindingsOf ==
    ASSUME CommandsTypeOK
    PROVE  /\ \A n \in Bindings : n \in Bname /\ binding_list[n] \in Binding
           /\ \A n \in Bname \ Bindings : binding_list[n] = NOBINDING
  BY DEF CommandsTypeOK, Bindings

(* The bindings of a command are finitely many.                               *)
LEMMA LiveFinite ==
    ASSUME CommandsInv, NEW c \in Cmd
    PROVE  IsFiniteSet(bound[c]) /\ bound[c] \subseteq Bindings
<1>1. bound[c] \subseteq Bindings
  BY DEF CommandsInv, CountsOK, Live, Bindings
<1>2. QED
  BY <1>1, FS_Subset DEF CommandsInv

(* No module and no command is there at first.                                *)
LEMMA InitCommandsInv == commandsInit => CommandsInv
<1> SUFFICES ASSUME commandsInit PROVE CommandsInv
  OBVIOUS
<1>1. Bindings = {}
  BY DEF commandsInit, Bindings
<1>2. CommandsTypeOK
  BY DEF commandsInit, CommandsTypeOK
<1>3. \A c \in Cmd : Live(binding_list, c) = {}
  BY DEF commandsInit, Live
<1>4. CountsOK
  BY <1>3, FS_EmptySet DEF commandsInit, CountsOK
<1>5. IsFiniteSet(Bindings) /\ EntriesOK /\ OwnersUp /\ StayBound
  BY <1>1, FS_EmptySet DEF commandsInit, EntriesOK, OwnersUp, StayBound
<1>6. QED
  BY <1>2, <1>4, <1>5 DEF CommandsInv

(* A new binding of a command that is there.                                  *)
LEMMA NewBindingOK ==
    ASSUME NEW c \in Cmd, NEW ups, NEW cmds, c \in cmds, Owner[c] \in ups
    PROVE  /\ NewBinding(c, ups) \in Binding /\ EntryOK(NewBinding(c, ups), ups, cmds)
           /\ NewBinding(c, ups).cmd = c /\ NewBinding(c, ups).live
<1> DEFINE b == NewBinding(c, ups)
<1>1. /\ b.cmd = c /\ b.module = TRUE /\ b.live = TRUE /\ b.rule = "none"
      /\ b.comp_rule = command_rule_compile(RuleOf(c), ups)
  BY DEF NewBinding
<1>2. RuleOf(c) \in {"plain", "ext"}
  BY DEF RuleOf
<1>3. command_rule_compile(RuleOf(c), ups) \in {"raw", "tokens"}
  BY DEF command_rule_compile
<1>4. b \in Binding
  BY <1>3 DEF NewBinding, Binding
<1>5. EntryOK(b, ups, cmds)
  BY <1>1, <1>2, <1>3 DEF EntryOK, Rule, command_rule_compile
<1>6. QED
  BY <1>1, <1>4, <1>5

(* The values of a function on a finite set are finitely many.                *)
LEMMA ValuesFinite ==
    ASSUME NEW A, IsFiniteSet(A), NEW B, NEW f \in [A -> B]
    PROVE  IsFiniteSet({f[x] : x \in A})
<1>1. f \in Surjection(A, {f[x] : x \in A})
  BY DEF Surjection
<1>2. QED
  BY <1>1, FS_Surjection

(* What module_loaded makes of the entries that were there: the module's are  *)
(* enabled, and nothing else about them changes.                              *)
LEMMA EnableOK ==
    ASSUME CommandsTypeOK, EntriesOK, OwnersUp, NEW m \in Mod, m \notin up,
           NEW new \in SUBSET {c \in Cmd : Owner[c] = m}, NEW n \in Bname
    PROVE  LET b == Enable(m, new, binding_list)[n] IN
           /\ n \in Bindings => /\ b \in Binding /\ EntryOK(b, up \cup {m}, command_list \cup new)
                                /\ b.cmd = binding_list[n].cmd /\ (binding_list[n].live => b.live)
           /\ n \notin Bindings => b = NOBINDING
<1> DEFINE b == Enable(m, new, binding_list)[n]
           o == binding_list[n]
<1>1. CASE n \notin Bindings
  BY <1>1, BindingsOf DEF Enable
<1>2. ASSUME n \in Bindings
      PROVE  /\ b \in Binding /\ EntryOK(b, up \cup {m}, command_list \cup new)
             /\ b.cmd = o.cmd /\ (o.live => b.live)
  <2>1. o \in Binding /\ EntryOK(o, up, command_list)
    BY <1>2, BindingsOf DEF EntriesOK
  <2>2. /\ o.cmd \in Cmd /\ o.module \in BOOLEAN /\ o.live \in BOOLEAN
        /\ o.rule \in {"none", "plain", "ext", "freed"} /\ o.comp_rule \in {"0", "raw", "tokens", "gone"}
    BY <2>1 DEF Binding
  <2> HIDE DEF o
  <2>3. b = IF Owner[o.cmd] # m THEN o
            ELSE IF o.cmd \notin new THEN [o EXCEPT !.module = TRUE]
            ELSE [o EXCEPT !.module = TRUE, !.live = TRUE,
                    !.comp_rule = IF @ = "0" THEN command_rule_compile(Rule(o), up \cup {m}) ELSE @]
    BY <1>2 DEF Enable, o
  <2> HIDE DEF b
  <2>4. CASE Owner[o.cmd] # m
    BY <2>1, <2>3, <2>4 DEF EntryOK
  <2>5. ASSUME Owner[o.cmd] = m, o.cmd \notin new
        PROVE  /\ b \in Binding /\ EntryOK(b, up \cup {m}, command_list \cup new)
               /\ b.cmd = o.cmd /\ (o.live => b.live)
    <3>1. b = [o EXCEPT !.module = TRUE]
      BY <2>3, <2>5
    <3>2. b \in Binding
      BY <2>1, <3>1 DEF Binding
    <3>3. b.cmd = o.cmd /\ b.module = TRUE /\ b.live = o.live /\ b.rule = o.rule /\ b.comp_rule = o.comp_rule
      BY <2>1, <3>1 DEF Binding
    <3>4. EntryOK(b, up \cup {m}, command_list \cup new)
      BY <2>1, <2>5, <3>3 DEF EntryOK, Rule
    <3>5. QED
      BY <3>2, <3>3, <3>4
  <2>6. ASSUME Owner[o.cmd] = m, o.cmd \in new
        PROVE  /\ b \in Binding /\ EntryOK(b, up \cup {m}, command_list \cup new)
               /\ b.cmd = o.cmd /\ (o.live => b.live)
    <3> DEFINE comp == IF o.comp_rule = "0" THEN command_rule_compile(Rule(o), up \cup {m}) ELSE o.comp_rule
    <3>1. b = [o EXCEPT !.module = TRUE, !.live = TRUE, !.comp_rule = comp]
      BY <2>3, <2>6
    <3>2. comp \in {"raw", "tokens", "gone"}
      BY <2>2 DEF command_rule_compile
    <3>3. comp = "tokens" /\ Rule(o) = "ext" => RuleMod \in up \cup {m}
      BY <2>1 DEF command_rule_compile, EntryOK
    <3>4. comp = "gone" => o.comp_rule = "gone"
      BY DEF command_rule_compile
    <3> HIDE DEF comp
    <3>5. b \in Binding
      BY <2>1, <3>1, <3>2 DEF Binding
    <3>6. b.cmd = o.cmd /\ b.module = TRUE /\ b.live = TRUE /\ b.rule = o.rule /\ b.comp_rule = comp
      BY <2>1, <3>1 DEF Binding
    <3>7. Rule(b) = Rule(o)
      BY <3>6 DEF Rule
    <3>8. EntryOK(b, up \cup {m}, command_list \cup new)
      BY <2>1, <2>6, <3>2, <3>3, <3>4, <3>6, <3>7 DEF EntryOK
    <3>9. QED
      BY <3>5, <3>6, <3>8
  <2>7. QED
    BY <2>4, <2>5, <2>6
<1>3. QED
  BY <1>1, <1>2

(* A module and its commands come; those that must be bound get a binding.    *)
LEMMA module_loadedKeeps ==
    ASSUME CommandsInv, NEW m \in Mod, NEW new \in SUBSET {c \in Cmd : Owner[c] = m}, module_loaded(m, new)
    PROVE  CommandsInv'
<1> DEFINE enabled == Enable(m, new, binding_list)
           needy == {c \in KeepBound \cap (command_list \cup new) : bind_count[c] + Cardinality(Live(enabled, c) \ bound[c]) = 0}
           added == UNION {FreeNames(c) : c \in needy}
           list == [n \in Bname |->
                      IF n \in added THEN NewBinding(CHOOSE c \in needy : n \in FreeNames(c), up \cup {m}) ELSE enabled[n]]
           fresh(c) == (Live(enabled, c) \ bound[c]) \cup {n \in added : list[n].cmd = c}
<1>1. /\ m \notin up
      /\ up' = up \cup {m}
      /\ command_list' = command_list \cup new
      /\ binding_list' = list
      /\ bind_count' = [c \in Cmd |-> bind_count[c] + Cardinality(fresh(c))]
      /\ bound' = [c \in Cmd |-> bound[c] \cup fresh(c)]
      /\ nameless' = {c \in needy : FreeNames(c) = {}}
  BY DEF module_loaded
<1>2. CommandsTypeOK /\ EntriesOK /\ OwnersUp /\ CountsOK
  BY DEF CommandsInv
<1>3. command_list \subseteq Cmd /\ bound \in [Cmd -> SUBSET Bname] /\ bind_count \in [Cmd -> Nat]
  BY <1>2 DEF CommandsTypeOK
<1>4. \A n \in Bindings : /\ enabled[n] \in Binding /\ EntryOK(enabled[n], up', command_list')
                          /\ enabled[n].cmd = binding_list[n].cmd /\ (binding_list[n].live => enabled[n].live)
  <2>1. ASSUME NEW n \in Bindings
        PROVE  /\ enabled[n] \in Binding /\ EntryOK(enabled[n], up', command_list')
               /\ enabled[n].cmd = binding_list[n].cmd /\ (binding_list[n].live => enabled[n].live)
    <3>1. n \in Bname
      BY DEF Bindings
    <3>2. QED
      BY <1>1, <1>2, <3>1, EnableOK
  <2>2. QED
    BY <2>1
<1>5. \A n \in Bname \ Bindings : enabled[n] = NOBINDING
  BY <1>1, <1>2, EnableOK
<1> HIDE DEF enabled
<1>6. needy \subseteq KeepBound \cap command_list' /\ needy \subseteq Cmd
  BY <1>1, CommandsAssumption
<1>7. \A c \in needy : FreeNames(c) \subseteq {OwnName[c], Spare[c]} /\ FreeNames(c) \subseteq Bname \ Bindings
  BY <1>6, CommandsAssumption DEF FreeNames
<1> HIDE DEF needy
<1>8. added \subseteq Bname \ Bindings
  BY <1>7
<1>9. \A c \in needy : \A n \in FreeNames(c) :
         /\ n \in added
         /\ list[n] = NewBinding(c, up')
  <2>1. ASSUME NEW c \in needy, NEW n \in FreeNames(c) PROVE n \in added /\ list[n] = NewBinding(c, up')
    <3>1. n \in added /\ n \in Bname
      BY <1>7
    <3>2. (CHOOSE d \in needy : n \in FreeNames(d)) = c
      <4>1. \A d \in needy : n \in FreeNames(d) => d = c
        BY <1>6, <1>7, CommandsAssumption
      <4>2. QED
        BY <4>1
    <3>3. QED
      BY <1>1, <3>1, <3>2
  <2>2. QED
    BY <2>1
<1>10. \A n \in added : /\ list[n] \in Binding /\ EntryOK(list[n], up', command_list')
                        /\ list[n].cmd \in needy /\ list[n].live
  <2>1. ASSUME NEW n \in added
        PROVE  /\ list[n] \in Binding /\ EntryOK(list[n], up', command_list')
               /\ list[n].cmd \in needy /\ list[n].live
    <3>1. PICK c \in needy : n \in FreeNames(c)
      OBVIOUS
    <3>2. list[n] = NewBinding(c, up')
      BY <1>9, <3>1
    <3>3. c \in Cmd /\ c \in command_list'
      BY <1>6
    <3>4. Owner[c] \in up'
      BY <1>1, <1>2, <3>3 DEF OwnersUp
    <3>5. QED
      BY <3>2, <3>3, <3>4, NewBindingOK
  <2>2. QED
    BY <2>1
<1>11. \A n \in Bname \ added : list[n] = enabled[n]
  OBVIOUS
<1>12. list \in [Bname -> Binding \cup {NOBINDING}]
  <2>1. \A n \in Bname : list[n] \in Binding \cup {NOBINDING}
    BY <1>4, <1>5, <1>10, <1>11
  <2>2. list = [n \in Bname |-> list[n]]
    OBVIOUS
  <2> HIDE DEF list
  <2>3. QED
    BY <2>1, <2>2
<1> HIDE DEF added, list
<1>13. Bindings' = Bindings \cup added
  <2>1. \A n \in Bname : list[n] # NOBINDING <=> n \in Bindings \cup added
    BY <1>4, <1>5, <1>8, <1>10, <1>11, NoBindingAssumption
  <2>2. QED
    BY <1>1, <1>8, <2>1 DEF Bindings
<1>14. IsFiniteSet(added)
  <2>1. IsFiniteSet({OwnName[c] : c \in Cmd}) /\ IsFiniteSet({Spare[c] : c \in Cmd})
    <3>1. IsFiniteSet(Cmd) /\ OwnName \in [Cmd -> Bname] /\ Spare \in [Cmd -> Bname]
      BY CommandsAssumption
    <3>2. IsFiniteSet({OwnName[c] : c \in Cmd})
      BY <3>1, ValuesFinite
    <3>3. IsFiniteSet({Spare[c] : c \in Cmd})
      BY <3>1, ValuesFinite
    <3>4. QED
      BY <3>2, <3>3
  <2>2. IsFiniteSet({OwnName[c] : c \in Cmd} \cup {Spare[c] : c \in Cmd})
    BY <2>1, FS_Union
  <2>3. added \subseteq {OwnName[c] : c \in Cmd} \cup {Spare[c] : c \in Cmd}
    BY <1>6, <1>7 DEF added
  <2>4. QED
    BY <2>2, <2>3, FS_Subset
<1>15. IsFiniteSet(Bindings')
  BY <1>13, <1>14, FS_Union DEF CommandsInv
<1>16. EntriesOK'
  <2>1. \A n \in Bindings' : EntryOK(list[n], up', command_list')
    BY <1>4, <1>8, <1>10, <1>11, <1>13 DEF Bindings
  <2>2. QED
    BY <1>1, <2>1 DEF EntriesOK
<1>17. OwnersUp'
  BY <1>1, <1>2 DEF OwnersUp
<1>18. ASSUME NEW c \in Cmd
       PROVE  /\ fresh(c) \subseteq Bname /\ IsFiniteSet(fresh(c)) /\ bound[c] \cap fresh(c) = {}
              /\ Live(list, c) = bound[c] \cup fresh(c)
              /\ bind_count[c] + Cardinality(fresh(c)) = Cardinality(bound[c] \cup fresh(c))
  <2>1. Live(enabled, c) \subseteq Bindings
    BY <1>5 DEF Live
  <2>2. bound[c] \subseteq Bindings /\ IsFiniteSet(bound[c]) /\ bind_count[c] = Cardinality(bound[c])
    BY LiveFinite, <1>2 DEF CountsOK
  <2>3. IsFiniteSet(fresh(c))
    <3>1. IsFiniteSet(Live(enabled, c) \ bound[c])
      BY <2>1, FS_Subset DEF CommandsInv
    <3>2. IsFiniteSet({n \in added : list[n].cmd = c})
      BY <1>14, FS_Subset
    <3>3. QED
      BY <3>1, <3>2, FS_Union
  <2>4. bound[c] \cap fresh(c) = {}
    BY <1>8, <2>2
  <2>5. bound[c] \subseteq Live(enabled, c)
    BY <1>2, <1>4, <2>2, BindingsOf, NoBindingAssumption DEF CountsOK, Live
  <2>6. Live(list, c) = Live(enabled, c) \cup {n \in added : list[n].cmd = c}
    <3>1. ASSUME NEW n \in Bname PROVE n \in Live(list, c) <=> n \in Live(enabled, c) \cup {k \in added : list[k].cmd = c}
      <4>1. CASE n \in added
        BY <1>8, <1>10, <2>1, <4>1, NoBindingAssumption DEF Live
      <4>2. CASE n \notin added
        BY <1>11, <4>2 DEF Live
      <4>3. QED
        BY <4>1, <4>2
    <3>2. QED
      BY <1>8, <3>1 DEF Live
  <2>7. Live(list, c) = bound[c] \cup fresh(c)
    BY <2>5, <2>6
  <2>8. Cardinality(bound[c] \cup fresh(c)) = Cardinality(bound[c]) + Cardinality(fresh(c)) - Cardinality(bound[c] \cap fresh(c))
    BY <2>2, <2>3, FS_Union
  <2>9. Cardinality(bound[c]) \in Nat /\ Cardinality(fresh(c)) \in Nat
    BY <2>2, <2>3, FS_CardinalityType
  <2>10. Cardinality(bound[c] \cap fresh(c)) = 0
    BY <2>4, FS_EmptySet
  <2>11. fresh(c) \subseteq Bname
    BY <1>8, <2>1 DEF Bindings
  <2> HIDE DEF fresh
  <2>12. QED
    BY <2>2, <2>3, <2>4, <2>7, <2>8, <2>9, <2>10, <2>11
<1>19. CountsOK'
  <2>1. ASSUME NEW c \in Cmd PROVE bound'[c] = Live(list, c) /\ bind_count'[c] = Cardinality(bound'[c])
    BY <1>1, <1>18
  <2>2. QED
    BY <1>1, <2>1 DEF CountsOK, Live
<1>20. StayBound'
  <2>1. ASSUME NEW c \in KeepBound \cap command_list', c \notin nameless' PROVE bind_count'[c] > 0
    <3>1. c \in Cmd
      BY CommandsAssumption
    <3>2. IsFiniteSet(fresh(c)) /\ Cardinality(fresh(c)) \in Nat
      BY <1>18, <3>1, FS_CardinalityType
    <3>3. bind_count'[c] = bind_count[c] + Cardinality(fresh(c)) /\ bind_count[c] \in Nat
      BY <1>1, <1>3, <3>1
    <3>4. CASE c \in needy
      <4>1. PICK n : n \in FreeNames(c)
        BY <1>1, <2>1, <3>4
      <4>2. n \in added /\ list[n] = NewBinding(c, up')
        BY <1>9, <3>4, <4>1 DEF added, list
      <4>3. n \in fresh(c)
        BY <4>2 DEF NewBinding
      <4>4. Cardinality(fresh(c)) # 0
        BY <3>2, <4>3, FS_EmptySet
      <4> HIDE DEF fresh
      <4>5. QED
        BY <3>2, <3>3, <4>4
    <3>5. CASE c \notin needy
      <4>1. bind_count[c] + Cardinality(Live(enabled, c) \ bound[c]) # 0
        BY <1>1, <2>1, <3>5 DEF needy
      <4>2. Live(enabled, c) \ bound[c] \subseteq fresh(c)
        OBVIOUS
      <4>3. /\ Cardinality(Live(enabled, c) \ bound[c]) \in Nat
            /\ Cardinality(Live(enabled, c) \ bound[c]) <= Cardinality(fresh(c))
        BY <3>2, <4>2, FS_Subset, FS_CardinalityType
      <4> HIDE DEF fresh
      <4>4. QED
        BY <3>2, <3>3, <4>1, <4>3
    <3>6. QED
      BY <3>4, <3>5
  <2>2. QED
    BY <2>1 DEF StayBound
<1>21. CommandsTypeOK'
  <2>1. up' \subseteq Mod /\ command_list' \subseteq Cmd /\ nameless' \subseteq KeepBound
    BY <1>1, <1>2, <1>6 DEF CommandsTypeOK
  <2>2. binding_list' \in [Bname -> Binding \cup {NOBINDING}]
    BY <1>1, <1>12
  <2>3. bind_count' \in [Cmd -> Nat]
    <3>1. \A c \in Cmd : bind_count[c] + Cardinality(fresh(c)) \in Nat
      <4>1. ASSUME NEW c \in Cmd PROVE bind_count[c] + Cardinality(fresh(c)) \in Nat
        <5>1. Cardinality(fresh(c)) \in Nat
          BY <1>18, FS_CardinalityType
        <5>2. bind_count[c] \in Nat
          BY <1>3
        <5> HIDE DEF fresh
        <5>3. QED
          BY <5>1, <5>2
      <4>2. QED
        BY <4>1
    <3> HIDE DEF fresh
    <3>2. QED
      BY <1>1, <3>1
  <2>4. bound' \in [Cmd -> SUBSET Bname]
    <3>1. \A c \in Cmd : bound[c] \cup fresh(c) \in SUBSET Bname
      BY <1>3, <1>18
    <3> HIDE DEF fresh
    <3>2. QED
      BY <1>1, <3>1
  <2>5. QED
    BY <2>1, <2>2, <2>3, <2>4 DEF CommandsTypeOK
<1>22. QED
  BY <1>15, <1>16, <1>17, <1>19, <1>20, <1>21 DEF CommandsInv

(* Live bindings that are there before and after are those of CountsOK.       *)
LEMMA SameCounts ==
    ASSUME CountsOK, UNCHANGED <<bind_count, bound>>, \A c \in Cmd : Live(binding_list', c) = Live(binding_list, c)
    PROVE  CountsOK'
<1>1. ASSUME NEW c \in Cmd PROVE bound'[c] = Live(binding_list', c) /\ bind_count'[c] = Cardinality(bound'[c])
  BY DEF CountsOK
<1>2. \A c \in Cmd : Live(binding_list, c)' = Live(binding_list', c)
  BY DEF Live
<1>3. QED
  BY <1>1, <1>2 DEF CountsOK

(* A module goes with its commands; the bindings stay, without them.          *)
LEMMA module_unloadedKeeps ==
    ASSUME CommandsInv, NEW m \in Mod, module_unloaded(m)
    PROVE  CommandsInv'
<1> DEFINE list == Disable(m)
           after == IF m = RuleMod THEN command_rule_unreg(list) ELSE list
<1>1. /\ m \in up
      /\ up' = up \ {m}
      /\ command_list' = {c \in command_list : Owner[c] # m}
      /\ binding_list' = after
      /\ bind_count' = [c \in Cmd |-> IF Owner[c] = m THEN 0 ELSE bind_count[c]]
      /\ bound' = [c \in Cmd |-> IF Owner[c] = m THEN {} ELSE bound[c]]
      /\ nameless' = {c \in nameless : Owner[c] # m}
  BY DEF module_unloaded
<1>2. CommandsTypeOK /\ EntriesOK /\ OwnersUp /\ CountsOK /\ StayBound /\ IsFiniteSet(Bindings)
  BY DEF CommandsInv
<1>3. \A n \in Bname \ Bindings : after[n] = NOBINDING
  BY <1>2, BindingsOf DEF Disable, command_rule_unreg
<1>4. ASSUME NEW n \in Bindings
      PROVE  LET o == binding_list[n]
                 b == after[n] IN
             /\ b \in Binding /\ EntryOK(b, up', command_list') /\ b.cmd = o.cmd
             /\ b.live <=> o.live /\ Owner[o.cmd] # m
  <2> DEFINE o == binding_list[n]
             d == list[n]
             b == after[n]
  <2>1. o \in Binding /\ n \in Bname /\ EntryOK(o, up, command_list)
    BY <1>2, BindingsOf DEF EntriesOK
  <2>2. o # NOBINDING
    BY <2>1, NoBindingAssumption
  <2>3. d = IF ~o.module \/ Owner[o.cmd] # m THEN o
            ELSE [o EXCEPT !.module = FALSE, !.live = FALSE,
                    !.comp_rule = IF o.rule = "none" THEN "0" ELSE @]
    BY <2>1 DEF Disable
  <2>4. b = IF m = RuleMod /\ d # NOBINDING /\ d.comp_rule = "tokens" THEN [d EXCEPT !.comp_rule = "raw"] ELSE d
    BY <2>1 DEF command_rule_unreg
  <2> HIDE DEF o, d, b
  <2>5. /\ o.cmd \in Cmd /\ o.module \in BOOLEAN /\ o.live \in BOOLEAN
        /\ o.rule \in {"none", "plain", "ext", "freed"} /\ o.comp_rule \in {"0", "raw", "tokens", "gone"}
    BY <2>1 DEF Binding
  <2>6. o.module <=> Owner[o.cmd] \in up
    BY <2>1 DEF EntryOK
  <2>7. /\ d \in Binding /\ d.cmd = o.cmd /\ d.rule = o.rule
        /\ d.module <=> Owner[o.cmd] \in up' 
        /\ d.live <=> o.live /\ Owner[o.cmd] # m
        /\ d.comp_rule = o.comp_rule \/ (d.comp_rule = "0" /\ ~d.live)
    <3>1. CASE Owner[o.cmd] # m
      BY <1>1, <2>1, <2>3, <2>6, <3>1 DEF Binding
    <3>2. ASSUME Owner[o.cmd] = m
          PROVE  /\ d \in Binding /\ d.cmd = o.cmd /\ d.rule = o.rule
                 /\ d.module <=> Owner[o.cmd] \in up' 
                 /\ d.live <=> o.live /\ Owner[o.cmd] # m
                 /\ d.comp_rule = o.comp_rule \/ (d.comp_rule = "0" /\ ~d.live)
      <4>1. o.module
        BY <1>1, <2>6, <3>2
      <4>2. PICK c \in {"0", "raw", "tokens", "gone"} : c = IF o.rule = "none" THEN "0" ELSE o.comp_rule
        BY <2>5
      <4>3. d = [o EXCEPT !.module = FALSE, !.live = FALSE, !.comp_rule = c]
        BY <2>3, <3>2, <4>1, <4>2
      <4>4. d \in Binding
        BY <2>1, <4>3 DEF Binding
      <4>5. d.cmd = o.cmd /\ d.rule = o.rule /\ d.module = FALSE /\ d.live = FALSE /\ d.comp_rule = c
        BY <2>1, <4>3 DEF Binding
      <4>6. Owner[o.cmd] \notin up'
        BY <1>1, <3>2
      <4>7. c = o.comp_rule \/ c = "0"
        BY <4>2
      <4>8. QED
        BY <3>2, <4>4, <4>5, <4>6, <4>7
    <3>3. QED
      BY <3>1, <3>2
  <2>8. /\ d.module \in BOOLEAN /\ d.live \in BOOLEAN /\ d # NOBINDING
    BY <2>7, NoBindingAssumption DEF Binding
  <2>9. /\ b \in Binding /\ b.cmd = d.cmd /\ b.rule = d.rule /\ b.module = d.module /\ b.live = d.live
        /\ b.comp_rule = d.comp_rule \/ b.comp_rule = "raw"
        /\ m = RuleMod => b.comp_rule # "tokens"
    <3>1. CASE m = RuleMod /\ d.comp_rule = "tokens"
      BY <2>4, <2>7, <2>8, <3>1 DEF Binding
    <3>2. CASE ~(m = RuleMod /\ d.comp_rule = "tokens")
      BY <2>4, <2>7, <2>8, <3>2 DEF Binding
    <3>3. QED
      BY <3>1, <3>2
  <2>10. Rule(b) = Rule(o)
    BY <2>7, <2>9 DEF Rule
  <2>11. EntryOK(b, up', command_list')
    <3>1. b.module <=> Owner[b.cmd] \in up'
      BY <2>7, <2>9
    <3>2. b.live => b.cmd \in command_list'
      BY <1>1, <2>1, <2>7, <2>9 DEF EntryOK
    <3>3. b.comp_rule = "tokens" /\ Rule(b) = "ext" => RuleMod \in up'
      BY <1>1, <2>1, <2>7, <2>9, <2>10 DEF EntryOK
    <3>4. b.live => b.comp_rule # "0"
      BY <2>1, <2>7, <2>9 DEF EntryOK
    <3>5. b.comp_rule = "gone" => b.rule = "freed" \/ b.cmd \in ExtRule
      BY <2>1, <2>7, <2>9 DEF EntryOK
    <3>6. b.rule = "freed" => b.cmd \in ExtRule
      BY <2>1, <2>7, <2>9 DEF EntryOK
    <3>7. QED
      BY <3>1, <3>2, <3>3, <3>4, <3>5, <3>6 DEF EntryOK
  <2>12. QED
    BY <2>7, <2>9, <2>11 DEF o, b
<1>5. after = [n \in Bname |-> after[n]]
  BY DEF Disable, command_rule_unreg
<1> HIDE DEF after
<1>6. Bindings' = Bindings
  <2>1. \A n \in Bname : after[n] # NOBINDING <=> n \in Bindings
    BY <1>3, <1>4, NoBindingAssumption
  <2>2. QED
    BY <1>1, <2>1 DEF Bindings
<1>7. \A n \in Bname : after[n] \in Binding \cup {NOBINDING}
  BY <1>3, <1>4
<1>8. CommandsTypeOK'
  <2>1. up' \subseteq Mod /\ command_list' \subseteq Cmd /\ nameless' \subseteq KeepBound
    BY <1>1, <1>2 DEF CommandsTypeOK
  <2>2. binding_list' \in [Bname -> Binding \cup {NOBINDING}]
    BY <1>1, <1>5, <1>7
  <2>3. bind_count' \in [Cmd -> Nat] /\ bound' \in [Cmd -> SUBSET Bname]
    BY <1>1, <1>2 DEF CommandsTypeOK
  <2>4. QED
    BY <2>1, <2>2, <2>3 DEF CommandsTypeOK
<1>9. EntriesOK'
  <2>1. \A n \in Bindings' : EntryOK(after[n], up', command_list')
    BY <1>4, <1>6
  <2>2. QED
    BY <1>1, <2>1 DEF EntriesOK
<1>10. OwnersUp'
  BY <1>1, <1>2 DEF OwnersUp
<1>11. ASSUME NEW c \in Cmd PROVE Live(after, c) = IF Owner[c] = m THEN {} ELSE Live(binding_list, c)
  <2>1. Live(after, c) \subseteq Bindings /\ Live(binding_list, c) \subseteq Bindings
    BY <1>3 DEF Live, Bindings
  <2>2. \A n \in Bindings : n \in Bname /\ after[n] # NOBINDING /\ binding_list[n] # NOBINDING
    BY <1>4, <1>2, BindingsOf, NoBindingAssumption
  <2>3. \A n \in Bindings : n \in Live(after, c) <=> n \in Live(binding_list, c) /\ Owner[c] # m
    BY <1>4, <2>2 DEF Live
  <2>4. QED
    BY <2>1, <2>3
<1>12. CountsOK'
  <2>1. ASSUME NEW c \in Cmd PROVE bound'[c] = Live(after, c) /\ bind_count'[c] = Cardinality(bound'[c])
    BY <1>1, <1>2, <1>11, FS_EmptySet DEF CountsOK
  <2>2. QED
    BY <1>1, <2>1 DEF CountsOK, Live
<1>13. StayBound'
  BY <1>1, <1>2, CommandsAssumption DEF StayBound
<1>14. QED
  BY <1>2, <1>6, <1>8, <1>9, <1>10, <1>12, <1>13 DEF CommandsInv

(* All modules go, and the bindings are read from the database again.         *)
LEMMA commands_reloadKeeps ==
    ASSUME CommandsInv, commands_reload
    PROVE  CommandsInv'
<1>1. CommandsTypeOK /\ EntriesOK /\ IsFiniteSet(Bindings)
  BY DEF CommandsInv
<1>2. /\ \A n \in Bindings : binding_list[n].rule # "freed"
      /\ up' = {} /\ command_list' = {} /\ nameless' = {}
      /\ bind_count' = [c \in Cmd |-> 0] /\ bound' = [c \in Cmd |-> {}]
  BY DEF commands_reload
<1>3. \A n \in Bname \ Bindings : binding_list'[n] = NOBINDING
  BY DEF commands_reload
<1>4. ASSUME NEW n \in Bindings
      PROVE  LET b == binding_list'[n] IN b \in Binding /\ EntryOK(b, {}, {}) /\ ~b.live
  <2> DEFINE o == binding_list[n]
             b == binding_list'[n]
  <2>1. o \in Binding /\ n \in Bname /\ EntryOK(o, up, command_list) /\ o.rule # "freed"
    BY <1>1, <1>2, BindingsOf DEF EntriesOK
  <2>2. PICK comp : comp = IF o.rule = "none" THEN "0" ELSE command_rule_compile(o.rule, {})
    OBVIOUS
  <2>3. b = [o EXCEPT !.module = FALSE, !.live = FALSE, !.comp_rule = comp]
    BY <2>1, <2>2 DEF commands_reload
  <2>4. comp \in {"0", "raw", "tokens"} /\ (comp = "tokens" => o.rule = "plain")
    BY <2>2 DEF command_rule_compile
  <2> HIDE DEF o, b
  <2>5. b \in Binding
    BY <2>1, <2>3, <2>4 DEF Binding
  <2>6. b.cmd = o.cmd /\ b.module = FALSE /\ b.live = FALSE /\ b.rule = o.rule /\ b.comp_rule = comp
    BY <2>1, <2>3 DEF Binding
  <2>7. EntryOK(b, {}, {})
    BY <2>1, <2>4, <2>6 DEF EntryOK, Rule
  <2>8. QED
    BY <2>5, <2>6, <2>7 DEF b
<1>5. \A n \in Bname : binding_list'[n] \in Binding \cup {NOBINDING}
  BY <1>3, <1>4
<1>6. binding_list' = [n \in Bname |-> binding_list'[n]]
  BY DEF commands_reload
<1>7. Bindings' = Bindings
  <2>1. \A n \in Bname : binding_list'[n] # NOBINDING <=> n \in Bindings
    BY <1>3, <1>4, NoBindingAssumption
  <2>2. QED
    BY <2>1 DEF Bindings
<1>8. CommandsTypeOK'
  <2>1. binding_list' \in [Bname -> Binding \cup {NOBINDING}]
    BY <1>5, <1>6
  <2>2. QED
    BY <1>2, <2>1 DEF CommandsTypeOK
<1>9. EntriesOK'
  BY <1>2, <1>4, <1>7 DEF EntriesOK
<1>10. OwnersUp' /\ StayBound'
  BY <1>2 DEF OwnersUp, StayBound
<1>11. CountsOK'
  <2>1. ASSUME NEW c \in Cmd PROVE Live(binding_list', c) = {}
    BY <1>3, <1>4 DEF Live
  <2>2. QED
    BY <1>2, <2>1, FS_EmptySet DEF CountsOK, Live
<1>12. QED
  BY <1>1, <1>7, <1>8, <1>9, <1>10, <1>11 DEF CommandsInv

(* A step that changes one entry, which stays as live as it was and keeps its *)
(* command.                                                                   *)
LEMMA OneEntry ==
    ASSUME CommandsInv, UNCHANGED <<up, command_list, bind_count, bound, nameless>>,
           NEW n \in Bindings, NEW b \in Binding, EntryOK(b, up, command_list),
           b.cmd = binding_list[n].cmd, b.live <=> binding_list[n].live,
           binding_list' = [binding_list EXCEPT ![n] = b]
    PROVE  CommandsInv'
<1>1. CommandsTypeOK /\ EntriesOK /\ IsFiniteSet(Bindings) /\ OwnersUp /\ CountsOK /\ StayBound
  BY DEF CommandsInv
<1>2. binding_list \in [Bname -> Binding \cup {NOBINDING}] /\ n \in Bname
  BY <1>1 DEF CommandsTypeOK, Bindings
<1>3. binding_list' \in [Bname -> Binding \cup {NOBINDING}]
  BY <1>2
<1>4. \A k \in Bname : binding_list'[k] = IF k = n THEN b ELSE binding_list[k]
  BY <1>2
<1>5. Bindings' = Bindings
  BY <1>2, <1>4, NoBindingAssumption DEF Bindings
<1>6. CommandsTypeOK'
  BY <1>1, <1>3 DEF CommandsTypeOK
<1>7. EntriesOK'
  BY <1>1, <1>4, <1>5 DEF EntriesOK, Bindings
<1>8. CountsOK'
  <2>1. b # NOBINDING /\ binding_list[n] # NOBINDING
    BY NoBindingAssumption DEF Bindings
  <2>2. \A c \in Cmd : Live(binding_list', c) = Live(binding_list, c)
    BY <1>4, <2>1 DEF Live
  <2>3. QED
    BY <1>1, <2>2, SameCounts
<1>9. OwnersUp' /\ StayBound'
  BY <1>1 DEF OwnersUp, StayBound
<1>10. QED
  BY <1>1, <1>5, <1>6, <1>7, <1>8, <1>9 DEF CommandsInv

(* A rule that could not be compiled before is compiled when it is needed.    *)
LEMMA handle_commandKeeps ==
    ASSUME CommandsInv, NEW word \in Bname, NEW two \in Bname, handle_command(word, two)
    PROVE  CommandsInv'
<1>1. PICK n : n = Resolve(word, two)
  OBVIOUS
<1>2. /\ n \in Bindings
      /\ binding_list' = command_rule_executable(n)
      /\ UNCHANGED <<up, command_list, bind_count, bound, nameless>>
  BY <1>1 DEF handle_command, binding_find_active
<1>3. CommandsTypeOK /\ EntriesOK
  BY DEF CommandsInv
<1>4. PICK o : o = binding_list[n]
  OBVIOUS
<1>5. o \in Binding /\ EntryOK(o, up, command_list)
  BY <1>2, <1>3, <1>4, BindingsOf DEF EntriesOK
<1>6. PICK b : b = IF o.comp_rule = "raw" THEN [o EXCEPT !.comp_rule = command_rule_compile(Rule(o), up)] ELSE o
  OBVIOUS
<1>7. binding_list' = [binding_list EXCEPT ![n] = b]
  <2>1. binding_list = [binding_list EXCEPT ![n] = o]
    BY <1>3, <1>4 DEF CommandsTypeOK
  <2>2. CASE o.comp_rule = "raw"
    BY <1>2, <1>3, <1>4, <1>6, <2>2 DEF command_rule_executable, CommandsTypeOK, Bindings
  <2>3. CASE o.comp_rule # "raw"
    BY <1>2, <1>4, <1>6, <2>1, <2>3 DEF command_rule_executable
  <2>4. QED
    BY <2>2, <2>3
<1>8. /\ b \in Binding /\ b.cmd = o.cmd /\ (b.live <=> o.live)
      /\ EntryOK(b, up, command_list)
  <2>1. CASE o.comp_rule # "raw"
    BY <1>5, <1>6, <2>1
  <2>2. ASSUME o.comp_rule = "raw"
        PROVE  /\ b \in Binding /\ b.cmd = o.cmd /\ (b.live <=> o.live)
               /\ EntryOK(b, up, command_list)
    <3>1. PICK comp : comp = command_rule_compile(Rule(o), up)
      OBVIOUS
    <3>2. comp \in {"raw", "tokens"} /\ (comp = "tokens" /\ Rule(o) = "ext" => RuleMod \in up)
      BY <3>1 DEF command_rule_compile
    <3>3. b = [o EXCEPT !.comp_rule = comp]
      BY <1>6, <2>2, <3>1
    <3>4. b \in Binding
      BY <1>5, <3>2, <3>3 DEF Binding
    <3>5. b.cmd = o.cmd /\ b.live = o.live /\ b.module = o.module /\ b.rule = o.rule /\ b.comp_rule = comp
      BY <1>5, <3>3 DEF Binding
    <3>6. EntryOK(b, up, command_list)
      BY <1>5, <3>2, <3>5 DEF EntryOK, Rule
    <3>7. QED
      BY <3>4, <3>5, <3>6
  <2>3. QED
    BY <2>1, <2>2
<1>9. b.cmd = binding_list[n].cmd /\ (b.live <=> binding_list[n].live)
  BY <1>4, <1>8
<1>10. QED
  BY <1>2, <1>7, <1>8, <1>9, OneEntry

(* A binding gets another rule, or its command's again.                       *)
LEMMA cmd_binding_ruleKeeps ==
    ASSUME CommandsInv, NEW n \in Bname, NEW rule \in {"none", "plain", "ext"}, cmd_binding_rule(n, rule)
    PROVE  CommandsInv'
<1>1. PICK o : o = binding_list[n]
  OBVIOUS
<1>2. PICK b : b = binding_set_rule(o, rule)
  OBVIOUS
<1>3. /\ n \in Bindings /\ o.rule # "freed"
      /\ rule # "none" => command_rule_validate(rule)
      /\ binding_list' = [binding_list EXCEPT ![n] = b]
      /\ UNCHANGED <<up, command_list, bind_count, bound, nameless>>
  <2>1. binding_list' = [binding_list EXCEPT ![n] = binding_set_rule(@, rule)]
    BY DEF cmd_binding_rule
  <2>2. binding_list' = [binding_list EXCEPT ![n] = b]
    BY <1>1, <1>2, <2>1
  <2>3. QED
    BY <1>1, <2>2 DEF cmd_binding_rule
<1>4. CommandsTypeOK /\ EntriesOK
  BY DEF CommandsInv
<1>5. o \in Binding /\ EntryOK(o, up, command_list)
  BY <1>1, <1>3, <1>4, BindingsOf DEF EntriesOK
<1>6. o.rule \in {"none", "plain", "ext", "freed"} /\ o.comp_rule \in {"0", "raw", "tokens", "gone"} /\ o.live \in BOOLEAN
  BY <1>5 DEF Binding
<1>7. RuleOf(o.cmd) \in {"plain", "ext"} /\ (RuleOf(o.cmd) = "ext" => o.cmd \in ExtRule)
  BY DEF RuleOf
<1>8. PICK r, comp :
        /\ b = [o EXCEPT !.rule = r, !.comp_rule = comp]
        /\ r \in {"none", "plain", "ext", "freed"} /\ comp \in {"0", "raw", "tokens", "gone"}
        /\ comp = "tokens" /\ (r = "ext" \/ (r = "none" /\ RuleOf(o.cmd) = "ext")) => RuleMod \in up
        /\ o.live => comp # "0"
        /\ comp = "gone" => r = "freed" \/ o.cmd \in ExtRule
        /\ r = "freed" => o.cmd \in ExtRule
  <2>1. ASSUME rule # "none" 
        PROVE  LET comp == command_rule_compile(rule, up) IN
               /\ b = [o EXCEPT !.rule = rule, !.comp_rule = comp]
               /\ comp \in {"raw", "tokens"}
               /\ comp = "tokens" /\ rule = "ext" => RuleMod \in up
    BY <1>2, <2>1 DEF binding_set_rule, command_rule_compile
  <2>2. ASSUME rule = "none", o.live, ~command_rule_validate(RuleOf(o.cmd))
        PROVE  LET r == IF o.rule = "none" THEN o.rule ELSE "freed"
                   comp == IF o.comp_rule = "0" THEN o.comp_rule ELSE "gone" IN
               /\ b = [o EXCEPT !.rule = r, !.comp_rule = comp]
               /\ r \in {"none", "freed"} /\ comp \in {"0", "gone"}
               /\ comp # "0" /\ o.cmd \in ExtRule
    <3>1. o.cmd \in ExtRule
      BY <1>7, <2>2 DEF command_rule_validate
    <3>2. o.comp_rule # "0"
      BY <1>5, <2>2 DEF EntryOK
    <3>3. b = [o EXCEPT !.rule = IF @ = "none" THEN @ ELSE "freed", !.comp_rule = IF @ = "0" THEN @ ELSE "gone"]
      BY <1>2, <2>2 DEF binding_set_rule
    <3>4. QED
      BY <3>1, <3>2, <3>3
  <2>3. ASSUME rule = "none", ~(o.live /\ ~command_rule_validate(RuleOf(o.cmd)))
        PROVE  LET comp == IF o.live THEN command_rule_compile(RuleOf(o.cmd), up) ELSE "0" IN
               /\ b = [o EXCEPT !.rule = "none", !.comp_rule = comp]
               /\ comp \in {"0", "raw", "tokens"}
               /\ comp = "tokens" /\ RuleOf(o.cmd) = "ext" => RuleMod \in up
               /\ o.live => comp # "0"
    BY <1>2, <2>3 DEF binding_set_rule, command_rule_compile
  <2>4. QED
    BY <2>1, <2>2, <2>3
<1>9. b \in Binding
  BY <1>5, <1>8 DEF Binding
<1>10. b.cmd = o.cmd /\ b.live = o.live /\ b.module = o.module /\ b.rule = r /\ b.comp_rule = comp
  BY <1>5, <1>8 DEF Binding
<1>11. EntryOK(b, up, command_list)
  <2>1. b.comp_rule = "tokens" /\ Rule(b) = "ext" => RuleMod \in up
    BY <1>8, <1>10 DEF Rule
  <2>2. (b.module <=> Owner[b.cmd] \in up) /\ (b.live => b.cmd \in command_list)
    BY <1>5, <1>10 DEF EntryOK
  <2>3. /\ b.live => b.comp_rule # "0"
        /\ b.comp_rule = "gone" => b.rule = "freed" \/ b.cmd \in ExtRule
        /\ b.rule = "freed" => b.cmd \in ExtRule
    BY <1>8, <1>10
  <2>4. QED
    BY <2>1, <2>2, <2>3 DEF EntryOK
<1>12. b.cmd = binding_list[n].cmd /\ (b.live <=> binding_list[n].live)
  BY <1>1, <1>10
<1>13. QED
  BY <1>3, <1>9, <1>11, <1>12, OneEntry

(* A binding is added for a command that is there.                            *)
LEMMA binding_addKeeps ==
    ASSUME CommandsInv, NEW n \in Bname, NEW c \in Cmd, binding_add(n, c)
    PROVE  CommandsInv'
<1>1. PICK b : b = NewBinding(c, up)
  OBVIOUS
<1>2. /\ n \notin Bindings /\ c \in command_list
      /\ binding_list' = [binding_list EXCEPT ![n] = b]
      /\ bind_count' = [bind_count EXCEPT ![c] = @ + 1]
      /\ bound' = [bound EXCEPT ![c] = @ \cup {n}]
      /\ UNCHANGED <<up, command_list, nameless>>
  BY <1>1 DEF binding_add
<1>3. CommandsTypeOK /\ EntriesOK /\ IsFiniteSet(Bindings) /\ OwnersUp /\ CountsOK /\ StayBound
  BY DEF CommandsInv
<1>4. b \in Binding /\ EntryOK(b, up, command_list) /\ b.cmd = c /\ b.live
  BY <1>1, <1>2, <1>3, NewBindingOK DEF OwnersUp
<1>5. /\ binding_list \in [Bname -> Binding \cup {NOBINDING}]
      /\ bind_count \in [Cmd -> Nat] /\ bound \in [Cmd -> SUBSET Bname]
  BY <1>3 DEF CommandsTypeOK
<1>6. \A k \in Bname : binding_list'[k] = IF k = n THEN b ELSE binding_list[k]
  BY <1>2, <1>5
<1>7. Bindings' = Bindings \cup {n}
  BY <1>4, <1>6, NoBindingAssumption DEF Bindings
<1>8. IsFiniteSet(Bindings')
  BY <1>3, <1>7, FS_AddElement
<1>9. CommandsTypeOK'
  <2>1. binding_list' \in [Bname -> Binding \cup {NOBINDING}]
    BY <1>2, <1>4, <1>5
  <2>2. bind_count' \in [Cmd -> Nat] /\ bound' \in [Cmd -> SUBSET Bname]
    BY <1>2, <1>5
  <2>3. QED
    BY <1>2, <1>3, <2>1, <2>2 DEF CommandsTypeOK
<1>10. EntriesOK'
  BY <1>2, <1>3, <1>4, <1>6, <1>7 DEF EntriesOK, Bindings
<1>11. CountsOK'
  <2>1. ASSUME NEW d \in Cmd PROVE bound'[d] = Live(binding_list', d) /\ bind_count'[d] = Cardinality(bound'[d])
    <3>1. Live(binding_list', d) = IF d = c THEN Live(binding_list, d) \cup {n} ELSE Live(binding_list, d)
      <4>1. binding_list[n] = NOBINDING /\ b # NOBINDING
        BY <1>2, <1>4, NoBindingAssumption DEF Bindings
      <4>2. QED
        BY <1>4, <1>6, <4>1 DEF Live
    <3>2. bound'[d] = IF d = c THEN bound[d] \cup {n} ELSE bound[d]
      BY <1>2, <1>5
    <3>3. bind_count'[d] = IF d = c THEN bind_count[d] + 1 ELSE bind_count[d]
      BY <1>2, <1>5
    <3>4. bound[d] = Live(binding_list, d) /\ bind_count[d] = Cardinality(bound[d])
      BY <1>3 DEF CountsOK
    <3>5. n \notin bound[d] /\ IsFiniteSet(bound[d])
      BY <1>2, LiveFinite
    <3>6. Cardinality(bound[d] \cup {n}) = Cardinality(bound[d]) + 1
      BY <3>5, FS_AddElement
    <3>7. QED
      BY <3>1, <3>2, <3>3, <3>4, <3>6
  <2>2. QED
    BY <2>1 DEF CountsOK, Live
<1>12. OwnersUp'
  BY <1>2, <1>3 DEF OwnersUp
<1>13. StayBound'
  <2>1. ASSUME NEW d \in KeepBound \cap command_list, d \notin nameless PROVE bind_count'[d] > 0
    <3>1. bind_count[d] > 0 /\ d \in Cmd /\ bind_count[d] \in Nat
      BY <1>3, <1>5, <2>1, CommandsAssumption DEF StayBound
    <3>2. bind_count'[d] = bind_count[d] \/ bind_count'[d] = bind_count[d] + 1
      BY <1>2, <1>5, <3>1
    <3>3. QED
      BY <3>1, <3>2
  <2>2. QED
    BY <1>2, <2>1 DEF StayBound
<1>14. QED
  BY <1>8, <1>9, <1>10, <1>11, <1>12, <1>13 DEF CommandsInv

(* A binding goes that is not the last one of a command that must stay bound. *)
LEMMA cmd_binding_delKeeps ==
    ASSUME CommandsInv, NEW n \in Bname, cmd_binding_del(n)
    PROVE  CommandsInv'
<1>1. PICK c : c = binding_list[n].cmd
  OBVIOUS
<1>2. PICK live : live = binding_list[n].live
  OBVIOUS
<1>3. /\ n \in Bindings
      /\ ~(live /\ bind_count[c] = 1 /\ c \in KeepBound)
      /\ binding_list' = [binding_list EXCEPT ![n] = NOBINDING]
      /\ IF live THEN /\ bind_count' = [bind_count EXCEPT ![c] = @ - 1]
                      /\ bound' = [bound EXCEPT ![c] = @ \ {n}]
         ELSE UNCHANGED <<bind_count, bound>>
      /\ UNCHANGED <<up, command_list, nameless>>
  BY <1>1, <1>2 DEF cmd_binding_del, binding_del
<1>4. CommandsTypeOK /\ EntriesOK /\ IsFiniteSet(Bindings) /\ OwnersUp /\ CountsOK /\ StayBound
  BY DEF CommandsInv
<1>5. /\ binding_list \in [Bname -> Binding \cup {NOBINDING}]
      /\ bind_count \in [Cmd -> Nat] /\ bound \in [Cmd -> SUBSET Bname]
  BY <1>4 DEF CommandsTypeOK
<1>6. binding_list[n] \in Binding /\ c \in Cmd /\ live \in BOOLEAN /\ binding_list[n] # NOBINDING
  BY <1>1, <1>2, <1>3, <1>4, BindingsOf, NoBindingAssumption DEF Binding
<1>7. \A k \in Bname : binding_list'[k] = IF k = n THEN NOBINDING ELSE binding_list[k]
  BY <1>3, <1>5
<1>8. Bindings' = Bindings \ {n}
  BY <1>7 DEF Bindings
<1>9. IsFiniteSet(Bindings')
  BY <1>4, <1>8, FS_Subset
<1>10. ASSUME live
       PROVE  /\ n \in bound[c] /\ Cardinality(bound[c]) \in Nat \ {0}
              /\ Cardinality(bound[c] \ {n}) = Cardinality(bound[c]) - 1
  <2>1. n \in bound[c]
    BY <1>1, <1>2, <1>4, <1>6, <1>10 DEF CountsOK, Live
  <2>2. IsFiniteSet(bound[c])
    BY <1>6, LiveFinite
  <2>3. Cardinality(bound[c]) \in Nat /\ Cardinality(bound[c]) # 0
    BY <2>1, <2>2, FS_CardinalityType, FS_EmptySet
  <2>4. Cardinality(bound[c] \ {n}) = Cardinality(bound[c]) - 1
    BY <2>1, <2>2, FS_RemoveElement
  <2>5. QED
    BY <2>1, <2>3, <2>4
<1>11. bind_count[c] = Cardinality(bound[c])
  BY <1>4, <1>6 DEF CountsOK
<1>12. CommandsTypeOK'
  <2>1. binding_list' \in [Bname -> Binding \cup {NOBINDING}]
    BY <1>3, <1>5
  <2>2. bind_count' \in [Cmd -> Nat] /\ bound' \in [Cmd -> SUBSET Bname]
    <3>1. CASE live
      <4>1. bind_count[c] - 1 \in Nat
        BY <1>10, <1>11, <3>1
      <4>2. bind_count' = [bind_count EXCEPT ![c] = @ - 1] /\ bound' = [bound EXCEPT ![c] = @ \ {n}]
        BY <1>3, <3>1
      <4>3. QED
        BY <1>5, <4>1, <4>2
    <3>2. CASE ~live
      BY <1>3, <1>5, <3>2
    <3>3. QED
      BY <3>1, <3>2
  <2>3. QED
    BY <1>3, <1>4, <2>1, <2>2 DEF CommandsTypeOK
<1>13. EntriesOK'
  BY <1>3, <1>4, <1>7, <1>8 DEF EntriesOK, Bindings
<1>14. ASSUME NEW d \in Cmd
       PROVE  /\ bound'[d] = IF live /\ d = c THEN bound[d] \ {n} ELSE bound[d]
              /\ bind_count'[d] = IF live /\ d = c THEN bind_count[d] - 1 ELSE bind_count[d]
  <2>1. CASE live
    BY <1>3, <1>5, <2>1
  <2>2. CASE ~live
    BY <1>3, <2>2
  <2>3. QED
    BY <2>1, <2>2
<1>15. CountsOK'
  <2>1. ASSUME NEW d \in Cmd PROVE bound'[d] = Live(binding_list', d) /\ bind_count'[d] = Cardinality(bound'[d])
    <3>1. Live(binding_list', d) = IF live /\ d = c THEN Live(binding_list, d) \ {n} ELSE Live(binding_list, d)
      <4>1. \A k \in Bname : k \in Live(binding_list, d) <=> binding_list[k] # NOBINDING /\ binding_list[k].live /\ binding_list[k].cmd = d
        BY DEF Live
      <4>2. \A k \in Bname : k \in Live(binding_list', d) <=> k # n /\ k \in Live(binding_list, d)
        BY <1>7, <4>1 DEF Live
      <4>3. Live(binding_list', d) \subseteq Bname /\ Live(binding_list, d) \subseteq Bname
        BY DEF Live
      <4>4. n \in Live(binding_list, d) => live /\ d = c
        BY <1>1, <1>2, <4>1
      <4>5. QED
        BY <4>2, <4>3, <4>4
    <3>2. bound[d] = Live(binding_list, d) /\ bind_count[d] = Cardinality(bound[d])
      BY <1>4 DEF CountsOK
    <3>3. QED
      BY <1>10, <1>14, <3>1, <3>2
  <2>2. QED
    BY <2>1 DEF CountsOK, Live
<1>16. OwnersUp'
  BY <1>3, <1>4 DEF OwnersUp
<1>17. StayBound'
  <2>1. ASSUME NEW d \in KeepBound \cap command_list, d \notin nameless PROVE bind_count'[d] > 0
    <3>1. bind_count[d] > 0 /\ d \in Cmd /\ bind_count[d] \in Nat
      BY <1>4, <1>5, <2>1, CommandsAssumption DEF StayBound
    <3>2. CASE live /\ d = c
      <4>1. bind_count[d] # 1
        BY <1>3, <2>1, <3>2
      <4>2. bind_count'[d] = bind_count[d] - 1
        BY <1>14, <3>1, <3>2
      <4>3. QED
        BY <3>1, <4>1, <4>2
    <3>3. CASE ~(live /\ d = c)
      BY <1>14, <3>1, <3>3
    <3>4. QED
      BY <3>2, <3>3
  <2>2. QED
    BY <1>3, <2>1 DEF StayBound
<1>18. QED
  BY <1>9, <1>12, <1>13, <1>15, <1>16, <1>17 DEF CommandsInv

(* Every step of the commands keeps CommandsInv.                              *)
LEMMA StepCommandsInv ==
    ASSUME CommandsInv, [commandsNext]_cmdVars
    PROVE  CommandsInv'
<1>1. CASE UNCHANGED cmdVars
  BY <1>1 DEF cmdVars, CommandsInv, CommandsTypeOK, Bindings, EntriesOK, OwnersUp, CountsOK, Live, StayBound
<1>2. CASE \E m \in Mod : \E new \in SUBSET {c \in Cmd : Owner[c] = m} : module_loaded(m, new)
  BY <1>2, module_loadedKeeps
<1>3. CASE \E m \in Mod : module_unloaded(m)
  BY <1>3, module_unloadedKeeps
<1>4. CASE commands_reload
  BY <1>4, commands_reloadKeeps
<1>5. CASE \E n, two \in Bname : handle_command(n, two)
  BY <1>5, handle_commandKeeps
<1>6. CASE \E n \in Bname, c \in Cmd : binding_add(n, c)
  BY <1>6, binding_addKeeps
<1>7. CASE \E n \in Bname : cmd_binding_del(n)
  BY <1>7, cmd_binding_delKeeps
<1>8. CASE \E n \in Bname : \E rule \in {"none", "plain", "ext"} : cmd_binding_rule(n, rule)
  BY <1>8, cmd_binding_ruleKeeps
<1>9. QED
  BY <1>1, <1>2, <1>3, <1>4, <1>5, <1>6, <1>7, <1>8 DEF commandsNext

(***************************************************************************)
(* Lookups.                                                                *)
(***************************************************************************)

(* A set of numbers has a least one.                                          *)
LEMMA LeastExists ==
    ASSUME NEW R \in SUBSET Nat, R # {}
    PROVE  \E n \in R : \A m \in R : n <= m
<1>1. PICK n \in R : \A m \in R : ~(<<m, n>> \in OpToRel(<, Nat))
  BY WFMin, NatLessThanWellFounded
<1>2. n \in Nat /\ \A m \in R : m \in Nat /\ ~(m < n)
  BY <1>1 DEF OpToRel
<1>3. \A m \in R : n <= m
  BY <1>2
<1>4. QED
  BY <1>3

(* The first element that passes a test, by its place.                        *)
LEMMA LeastIsMin ==
    ASSUME NEW R \in SUBSET Nat, R # {}
    PROVE  Min(R) \in R /\ \A m \in R : Min(R) <= m
<1>1. PICK n \in R : \A m \in R : n <= m
  BY LeastExists
<1>2. QED
  BY <1>1 DEF Min

(* A sequence without its i-th element.                                       *)
LEMMA RemoveAtOK ==
    ASSUME NEW T, NEW s \in Seq(T), NEW i \in DOMAIN s
    PROVE  /\ RemoveAt(s, i) \in Seq(T) /\ Len(RemoveAt(s, i)) = Len(s) - 1
           /\ DOMAIN RemoveAt(s, i) = 1 .. Len(s) - 1
           /\ \A k \in 1 .. Len(s) - 1 : RemoveAt(s, i)[k] = IF k < i THEN s[k] ELSE s[k + 1]
<1>1. PICK n \in Nat : n = Len(s) /\ DOMAIN s = 1 .. n
  OBVIOUS
<1>2. i \in 1 .. n
  BY <1>1
<1>3. PICK l : l = SubSeq(s, 1, i - 1)
  OBVIOUS
<1>4. PICK r : r = SubSeq(s, i + 1, n)
  OBVIOUS
<1>5. l \in Seq(T) /\ Len(l) = i - 1 /\ \A k \in 1 .. i - 1 : l[k] = s[k]
  BY <1>1, <1>2, <1>3, SubSeqProperties
<1>6. r \in Seq(T) /\ Len(r) = n - i /\ \A k \in 1 .. n - i : r[k] = s[i + k]
  BY <1>1, <1>2, <1>4, SubSeqProperties
<1>7. RemoveAt(s, i) = l \o r
  BY <1>1, <1>3, <1>4 DEF RemoveAt
<1>8. l \o r \in Seq(T) /\ Len(l \o r) = n - 1
  <2>1. l \o r \in Seq(T) /\ Len(l \o r) = Len(l) + Len(r)
    BY <1>5, <1>6, ConcatProperties
  <2>2. (i - 1) + (n - i) = n - 1
    BY <1>2
  <2>3. QED
    BY <1>5, <1>6, <2>1, <2>2
<1>9. \A k \in 1 .. n - 1 : (l \o r)[k] = IF k < i THEN s[k] ELSE s[k + 1]
  <2>1. \A k \in 1 .. Len(l) + Len(r) : (l \o r)[k] = IF k <= Len(l) THEN l[k] ELSE r[k - Len(l)]
    BY <1>5, <1>6, ConcatProperties
  <2>2. (i - 1) + (n - i) = n - 1
    BY <1>2
  <2>3. \A k \in 1 .. n - 1 : (l \o r)[k] = IF k <= i - 1 THEN l[k] ELSE r[k - (i - 1)]
    BY <1>5, <1>6, <2>1, <2>2
  <2>4. ASSUME NEW k \in 1 .. n - 1, k < i PROVE (l \o r)[k] = s[k]
    BY <1>2, <1>5, <2>3, <2>4
  <2>5. ASSUME NEW k \in 1 .. n - 1, ~(k < i) PROVE (l \o r)[k] = s[k + 1]
    <3>1. k - (i - 1) \in 1 .. n - i /\ i + (k - (i - 1)) = k + 1 /\ ~(k <= i - 1)
      BY <1>2, <2>5
    <3>2. QED
      BY <1>6, <2>3, <3>1
  <2>6. QED
    BY <2>4, <2>5
<1>10. DOMAIN RemoveAt(s, i) = 1 .. n - 1
  BY <1>2, <1>7, <1>8
<1>11. QED
  BY <1>1, <1>7, <1>8, <1>9, <1>10

Request == [st : {"free", "connecting", "connected", "stuck"}, in_headers : BOOLEAN, buf : Buffer, query : Query \cup {"none"}]

\* An object by itself, for the module cl.
ObjectOK(o, cl) ==
    /\ o \in Object
    /\ o.answer \in {"NULL", o.query}
    /\ o.answer # "NULL" => cl \in {"tinyurl", "youtube"}
    /\ cl = "youtube" /\ o.answer # "NULL" => o.waits = {}
    /\ cl = "bitly" => (o.waits # {} <=> o.request_timeout)
    /\ o.request_timeout => cl = "bitly"

ObjectsOK(objs, cl) == objs \in Seq(Object) /\ \A i \in DOMAIN objs : ObjectOK(objs[i], cl)

\* An object without an answer has a request, in h, for what it asks, and is the first that points to it.
Current(objs, h) ==
    \A i \in DOMAIN objs : objs[i].answer = "NULL" =>
        /\ h[objs[i].http].st # "free" /\ h[objs[i].http].query = objs[i].query
        /\ \A j \in DOMAIN objs : j < i => objs[j].http # objs[i].http

\* A request that is under way is an object's that has no answer.
Served(objs, h) ==
    \A a \in Addr : h[a].st \in {"connecting", "connected"} =>
        \E i \in DOMAIN objs : objs[i].http = a /\ objs[i].answer = "NULL"

LookupsTypes ==
    /\ http \in [Addr -> Request] /\ client \in Client
    /\ loaded \in [client : BOOLEAN, github : BOOLEAN]
    /\ ObjectsOK(objects, client)
    /\ php_cache \subseteq Query /\ errors \subseteq Errors

Requests == errors = {} => Current(objects, http) /\ (loaded.client => Served(objects, http))

LookupsInv ==
    /\ LookupsTypes /\ AnswersRight /\ Requests /\ Cancelled
    /\ ~loaded.client => objects = <<>>

(* The properties that the run checks are among it.                           *)
LEMMA LookupsInvSound == LookupsInv => LookupsSound
<1> SUFFICES ASSUME LookupsInv PROVE LookupsSound
  OBVIOUS
<1>1. \A i \in DOMAIN objects : ObjectOK(objects[i], client)
  BY DEF LookupsInv, LookupsTypes, ObjectsOK
<1>2. LookupsTypeOK
  <2>1. \A a \in Addr : http[a].st \in {"free", "connecting", "connected", "stuck"} /\ http[a].buf \in Buffer
    BY DEF LookupsInv, LookupsTypes, Request
  <2>2. QED
    BY <1>1, <2>1 DEF LookupsInv, LookupsTypes, ObjectOK, LookupsTypeOK
<1>3. errors = {} => Current(objects, http)
  BY DEF LookupsInv, Requests
<1>4. WaitersServed
  BY <1>1, <1>3 DEF WaitersServed, Waits, ObjectOK, Current
<1>5. OwnRequest
  <2>1. SUFFICES ASSUME NEW i \in DOMAIN objects, NEW j \in DOMAIN objects, objects[i].http = objects[j].http, errors = {},
                        objects[i].answer = "NULL", objects[j].answer = "NULL", i # j
                 PROVE  FALSE
    BY DEF OwnRequest
  <2>2. i < j \/ j < i
    BY <2>1 DEF LookupsInv, LookupsTypes, ObjectsOK
  <2>3. QED
    BY <1>3, <2>1, <2>2 DEF Current
<1>6. BitlyInTime
  BY <1>1 DEF BitlyInTime, Waits, ObjectOK
<1>7. QED
  BY <1>2, <1>4, <1>5, <1>6 DEF LookupsInv, LookupsSound

(* Nobody has asked for anything at first.                                    *)
LEMMA InitLookupsInv == lookupsInit => LookupsInv
<1> SUFFICES ASSUME lookupsInit PROVE LookupsInv
  OBVIOUS
<1>1. NoRequest \in Request
  BY DEF NoRequest, Request, Buffer
<1>2. http \in [Addr -> Request] /\ \A a \in Addr : http[a].st = "free"
  BY <1>1 DEF lookupsInit, httpInit, NoRequest
<1>3. ObjectsOK(objects, client)
  BY DEF lookupsInit, ObjectsOK
<1>4. LookupsTypes
  BY <1>2, <1>3 DEF lookupsInit, LookupsTypes
<1>5. Requests
  BY <1>2 DEF lookupsInit, Requests, Current, Served
<1>6. Cancelled /\ AnswersRight /\ (~loaded.client => objects = <<>>)
  BY DEF lookupsInit, Cancelled, AnswersRight
<1>7. QED
  BY <1>4, <1>5, <1>6 DEF LookupsInv

(* The object that a request's functions find: the first with its pointer.    *)
LEMMA FindOK ==
    ASSUME LookupsTypes, NEW a \in Addr
    PROVE  /\ Find(a) # 0 => /\ Find(a) \in DOMAIN objects /\ objects[Find(a)].http = a
                             /\ \A j \in DOMAIN objects : j < Find(a) => objects[j].http # a
           /\ Find(a) = 0 => \A j \in DOMAIN objects : objects[j].http # a
<1> DEFINE I == {i \in 1 .. Len(objects) : objects[i].http = a}
<1>1. Find(a) = IF I # {} THEN Min(I) ELSE 0
  BY DEF Find, SelectInSeq
<1>2. DOMAIN objects = 1 .. Len(objects) /\ Len(objects) \in Nat
  BY DEF LookupsTypes, ObjectsOK
<1>3. I \in SUBSET Nat /\ 0 \notin I
  BY <1>2
<1>4. CASE I # {}
  <2>1. Min(I) \in I /\ \A m \in I : Min(I) <= m
    BY <1>3, <1>4, LeastIsMin
  <2>2. PICK n : n = Min(I)
    OBVIOUS
  <2>3. n \in 1 .. Len(objects) /\ objects[n].http = a /\ n # 0
    BY <1>3, <2>1, <2>2
  <2>4. \A j \in 1 .. Len(objects) : j < n => objects[j].http # a
    BY <1>2, <2>1, <2>2, <2>3
  <2>5. QED
    BY <1>1, <1>2, <1>4, <2>2, <2>3, <2>4
<1>5. CASE I = {}
  BY <1>1, <1>2, <1>5
<1>6. QED
  BY <1>4, <1>5

(* While a request is under way, that object asks for what it answers.        *)
LEMMA FindCurrent ==
    ASSUME LookupsInv, errors = {}, loaded.client, NEW a \in Addr, http[a].st \in {"connecting", "connected"}
    PROVE  /\ Find(a) \in DOMAIN objects /\ Find(a) # 0 /\ objects[Find(a)].http = a
           /\ objects[Find(a)].answer = "NULL" /\ http[a].query = objects[Find(a)].query
<1>1. Current(objects, http) /\ Served(objects, http) /\ LookupsTypes
  BY DEF LookupsInv, Requests
<1>2. PICK i \in DOMAIN objects : objects[i].http = a /\ objects[i].answer = "NULL"
  BY <1>1 DEF Served
<1>3. Find(a) # 0 /\ Find(a) \in DOMAIN objects /\ objects[Find(a)].http = a
      /\ \A j \in DOMAIN objects : j < Find(a) => objects[j].http # a
  BY <1>1, <1>2, FindOK
<1>4. PICK f \in DOMAIN objects : f = Find(a)
  BY <1>3
<1>5. f \in Nat /\ i \in Nat
  BY <1>1 DEF LookupsTypes, ObjectsOK
<1>6. ~(f < i) /\ ~(i < f)
  BY <1>1, <1>2, <1>3, <1>4 DEF Current
<1>7. f = i
  BY <1>5, <1>6
<1>8. QED
  BY <1>1, <1>2, <1>3, <1>4, <1>7 DEF Current

\* Of the objects objs the i-th has changed at most.
OnlyChanges(objs, objs1, i) ==
    DOMAIN objs1 = DOMAIN objs /\ \A k \in DOMAIN objs : k # i => objs1[k] = objs[k]

\* The objects but the i-th that wait for an answer have a request in g for it.
OthersAsk(objs, i, g) ==
    \A k \in DOMAIN objs : k # i /\ objs[k].answer = "NULL" =>
        g[objs[k].http].st # "free" /\ g[objs[k].http].query = objs[k].query

\* What is under way in g was so in h, and not for the i-th object.
OthersRun(objs, i, h, g) ==
    \A b \in Addr : g[b].st \in {"connecting", "connected"} =>
        h[b].st \in {"connecting", "connected"} /\ (objs[i].http # b \/ objs[i].answer # "NULL")

(* Taking an object off the list keeps the order of the rest, and the others' *)
(* requests are those of before.                                              *)
LEMMA RemovalKeeps ==
    ASSUME NEW objs \in Seq(Object), NEW objs1 \in Seq(Object), NEW i \in DOMAIN objs, NEW h, NEW g,
           OnlyChanges(objs, objs1, i), Current(objs, h), Served(objs, h),
           OthersAsk(objs, i, g), OthersRun(objs, i, h, g)
    PROVE  Current(RemoveAt(objs1, i), g) /\ Served(RemoveAt(objs1, i), g)
<1>0. DOMAIN objs1 = DOMAIN objs /\ \A k \in DOMAIN objs : k # i => objs1[k] = objs[k]
  BY DEF OnlyChanges
<1>1. PICK n \in Nat : n = Len(objs) /\ n = Len(objs1) /\ DOMAIN objs = 1 .. n
  <2>1. DOMAIN objs = 1 .. Len(objs) /\ DOMAIN objs1 = 1 .. Len(objs1) /\ Len(objs) \in Nat /\ Len(objs1) \in Nat
    OBVIOUS
  <2>2. Len(objs) = Len(objs1)
    BY <1>0, <2>1
  <2>3. QED
    BY <2>1, <2>2
<1>2. PICK left : left = RemoveAt(objs1, i)
  OBVIOUS
<1>3. /\ DOMAIN left = 1 .. n - 1
      /\ \A k \in 1 .. n - 1 : left[k] = IF k < i THEN objs1[k] ELSE objs1[k + 1]
  <2>1. i \in DOMAIN objs1
    BY <1>0
  <2>2. /\ DOMAIN RemoveAt(objs1, i) = 1 .. Len(objs1) - 1
        /\ \A k \in 1 .. Len(objs1) - 1 : RemoveAt(objs1, i)[k] = IF k < i THEN objs1[k] ELSE objs1[k + 1]
    BY <2>1, RemoveAtOK
  <2>3. QED
    BY <1>1, <1>2, <2>2
<1>4. i \in 1 .. n
  BY <1>1
<1>5. \A k \in 1 .. n - 1 : left[k] = IF k < i THEN objs[k] ELSE objs[k + 1]
  BY <1>0, <1>1, <1>3, <1>4
<1>6. ASSUME NEW k \in 1 .. n - 1, left[k].answer = "NULL"
      PROVE  /\ g[left[k].http].st # "free" /\ g[left[k].http].query = left[k].query
             /\ \A j \in 1 .. n - 1 : j < k => left[j].http # left[k].http
  <2>1. PICK p \in 1 .. n : left[k] = objs[p] /\ p # i /\ p = IF k < i THEN k ELSE k + 1
    BY <1>4, <1>5
  <2>2. g[left[k].http].st # "free" /\ g[left[k].http].query = left[k].query
    BY <1>1, <1>6, <2>1 DEF OthersAsk
  <2>3. \A j \in 1 .. n : j < p => objs[j].http # objs[p].http
    BY <1>1, <1>6, <2>1 DEF Current
  <2>4. ASSUME NEW j \in 1 .. n - 1, j < k PROVE left[j].http # left[k].http
    <3>1. PICK q \in 1 .. n : left[j] = objs[q] /\ q = IF j < i THEN j ELSE j + 1
      BY <1>4, <1>5
    <3>2. q < p
      BY <1>4, <2>1, <2>4, <3>1
    <3>3. QED
      BY <2>1, <2>3, <3>1, <3>2
  <2>5. QED
    BY <2>2, <2>4
<1>7. Current(left, g)
  BY <1>3, <1>6 DEF Current
<1>8. ASSUME NEW b \in Addr, g[b].st \in {"connecting", "connected"}
      PROVE  \E k \in DOMAIN left : left[k].http = b /\ left[k].answer = "NULL"
  <2>1. PICK p \in 1 .. n : objs[p].http = b /\ objs[p].answer = "NULL"
    BY <1>1, <1>8 DEF Served, OthersRun
  <2>2. p # i
    BY <1>8, <2>1 DEF OthersRun
  <2>3. PICK k \in 1 .. n - 1 : p = IF k < i THEN k ELSE k + 1
    <3>1. CASE p < i
      BY <1>4, <3>1
    <3>2. CASE ~(p < i)
      <4>1. p - 1 \in 1 .. n - 1 /\ ~(p - 1 < i) /\ p = (p - 1) + 1
        BY <1>4, <2>2, <3>2
      <4>2. QED
        BY <4>1
    <3>3. QED
      BY <3>1, <3>2
  <2>4. left[k] = objs[p]
    BY <1>4, <1>5, <2>3
  <2>5. QED
    BY <1>3, <2>1, <2>4
<1>9. QED
  BY <1>2, <1>7, <1>8 DEF Served

(* Two objects without an answer have different requests.                     *)
LEMMA CurrentApart ==
    ASSUME NEW objs \in Seq(Object), NEW h, Current(objs, h), NEW i \in DOMAIN objs, NEW k \in DOMAIN objs,
           objs[i].answer = "NULL", objs[k].answer = "NULL", i # k
    PROVE  objs[i].http # objs[k].http
<1>1. i < k \/ k < i
  OBVIOUS
<1>2. QED
  BY <1>1 DEF Current

\* Of the requests h the one at a is over.
OnlyEnds(h, g, a) ==
    (\A b \in Addr : b # a => g[b] = h[b]) /\ g[a].st \in {"free", "stuck"}

(* A request that ends, and its object with it ...                            *)
LEMMA EndKeeps ==
    ASSUME NEW objs \in Seq(Object), NEW objs1 \in Seq(Object), NEW i \in DOMAIN objs, NEW h, NEW g,
           OnlyChanges(objs, objs1, i), OnlyEnds(h, g, objs[i].http),
           Current(objs, h), Served(objs, h), objs[i].answer = "NULL"
    PROVE  Current(RemoveAt(objs1, i), g) /\ Served(RemoveAt(objs1, i), g)
<1>0. /\ DOMAIN objs1 = DOMAIN objs /\ \A k \in DOMAIN objs : k # i => objs1[k] = objs[k]
      /\ \A b \in Addr : b # objs[i].http => g[b] = h[b]
      /\ g[objs[i].http].st \in {"free", "stuck"}
  BY DEF OnlyChanges, OnlyEnds
<1>1. \A k \in DOMAIN objs : objs[k].http \in Addr
  <2>1. \A k \in DOMAIN objs : objs[k] \in Object
    OBVIOUS
  <2>2. QED
    BY <2>1 DEF Object
<1>2. OthersAsk(objs, i, g)
  <2>1. ASSUME NEW k \in DOMAIN objs, k # i, objs[k].answer = "NULL"
        PROVE  g[objs[k].http].st # "free" /\ g[objs[k].http].query = objs[k].query
    <3>1. objs[k].http # objs[i].http
      BY <2>1, CurrentApart
    <3>2. g[objs[k].http] = h[objs[k].http]
      BY <1>0, <1>1, <3>1
    <3>3. QED
      BY <2>1, <3>2 DEF Current
  <2>2. QED
    BY <2>1 DEF OthersAsk
<1>3. OthersRun(objs, i, h, g)
  BY <1>0 DEF OthersRun
<1>4. QED
  BY <1>2, <1>3, RemovalKeeps

(* ... or the object stays with an answer.                                    *)
LEMMA AnswerKeeps ==
    ASSUME NEW objs \in Seq(Object), NEW objs1 \in Seq(Object), NEW i \in DOMAIN objs, NEW h, NEW g,
           OnlyChanges(objs, objs1, i), OnlyEnds(h, g, objs[i].http),
           objs1[i].http = objs[i].http, objs1[i].answer # "NULL",
           Current(objs, h), Served(objs, h), objs[i].answer = "NULL"
    PROVE  Current(objs1, g) /\ Served(objs1, g)
<1>0. /\ DOMAIN objs1 = DOMAIN objs /\ \A k \in DOMAIN objs : k # i => objs1[k] = objs[k]
      /\ \A b \in Addr : b # objs[i].http => g[b] = h[b]
      /\ g[objs[i].http].st \in {"free", "stuck"}
  BY DEF OnlyChanges, OnlyEnds
<1>1. \A k \in DOMAIN objs : objs[k].http \in Addr /\ objs1[k].http = objs[k].http
  <2>1. \A k \in DOMAIN objs : objs[k] \in Object
    OBVIOUS
  <2>2. \A k \in DOMAIN objs : objs[k].http \in Addr
    BY <2>1 DEF Object
  <2>3. QED
    BY <1>0, <2>2
<1>2. ASSUME NEW k \in DOMAIN objs1, objs1[k].answer = "NULL"
      PROVE  /\ g[objs1[k].http].st # "free" /\ g[objs1[k].http].query = objs1[k].query
             /\ \A j \in DOMAIN objs1 : j < k => objs1[j].http # objs1[k].http
  <2>1. k # i /\ objs1[k] = objs[k] /\ objs[k].answer = "NULL" /\ k \in DOMAIN objs
    BY <1>0, <1>2
  <2>2. objs[k].http # objs[i].http
    BY <2>1, CurrentApart
  <2>3. g[objs[k].http] = h[objs[k].http]
    BY <1>0, <1>1, <2>2
  <2>4. \A j \in DOMAIN objs : j < k => objs[j].http # objs[k].http
    BY <2>1 DEF Current
  <2>5. \A j \in DOMAIN objs1 : j < k => objs1[j].http # objs1[k].http
    BY <1>0, <1>1, <2>1, <2>4
  <2>6. h[objs[k].http].st # "free" /\ h[objs[k].http].query = objs[k].query
    BY <2>1 DEF Current
  <2>7. QED
    BY <2>1, <2>3, <2>5, <2>6
<1>3. Current(objs1, g)
  BY <1>2 DEF Current
<1>4. ASSUME NEW b \in Addr, g[b].st \in {"connecting", "connected"}
      PROVE  \E k \in DOMAIN objs1 : objs1[k].http = b /\ objs1[k].answer = "NULL"
  <2>1. b # objs[i].http /\ h[b].st \in {"connecting", "connected"}
    BY <1>0, <1>4
  <2>2. PICK p \in DOMAIN objs : objs[p].http = b /\ objs[p].answer = "NULL"
    BY <2>1 DEF Served
  <2>3. p # i
    BY <2>1, <2>2
  <2>4. QED
    BY <1>0, <2>2, <2>3
<1>5. QED
  BY <1>3, <1>4 DEF Served

(* Who waits or was told says nothing of requests.                            *)
LEMMA SameShape ==
    ASSUME NEW objs, NEW objs1, NEW h, DOMAIN objs1 = DOMAIN objs,
           \A k \in DOMAIN objs : /\ objs1[k].http = objs[k].http /\ objs1[k].query = objs[k].query
                                  /\ objs1[k].answer = objs[k].answer
    PROVE  /\ Current(objs, h) => Current(objs1, h)
           /\ Served(objs, h) => Served(objs1, h)
<1>1. ASSUME Current(objs, h) PROVE Current(objs1, h)
  BY <1>1 DEF Current
<1>2. ASSUME Served(objs, h) PROVE Served(objs1, h)
  BY <1>2 DEF Served
<1>3. QED
  BY <1>1, <1>2
-----------------------------------------------------------------------------
(* The functions that http calls.                                             *)

Outcomes == [objects : Seq(Object), php_cache : SUBSET Query, misled : {{}}, errors : SUBSET Errors]

\* What the i-th object's read function may come to: only that object changes.
ReadOK(s, i) ==
    /\ s \in Outcomes /\ ObjectsOK(s.objects, client) /\ DOMAIN s.objects = DOMAIN objects
    /\ s.objects[i].http = objects[i].http /\ s.objects[i].query = objects[i].query
    /\ \A k \in DOMAIN objects : k # i => s.objects[k] = objects[k]

\* What may become of the state, with the requests h.
OutcomeOK(s, h) ==
    /\ s \in Outcomes /\ ObjectsOK(s.objects, client)
    /\ s.errors = {} => Current(s.objects, h) /\ Served(s.objects, h)

(* A handler begins with the state as it is.                                  *)
LEMMA StartOK ==
    ASSUME LookupsInv, NEW i \in DOMAIN objects
    PROVE  ReadOK(S, i)
<1>1. S \in Outcomes
  BY DEF LookupsInv, LookupsTypes, AnswersRight, ObjectsOK, S, Outcomes
<1>2. S.objects = objects
  BY DEF S
<1>3. QED
  BY <1>1, <1>2 DEF LookupsInv, LookupsTypes, ReadOK

(* Who waits for an object is told of what he asked.                          *)
LEMMA ToldRight ==
    ASSUME AnswersRight, NEW o, NEW q, o.query = q
    PROVE  Told(o, q) = {}
BY DEF AnswersRight, Told

(* One object changes.                                                        *)
LEMMA ReadChanges ==
    ASSUME LookupsInv, NEW i \in DOMAIN objects, NEW s, ReadOK(s, i), NEW o, ObjectOK(o, client),
           o.http = objects[i].http, o.query = objects[i].query,
           NEW t \in Outcomes, t.objects = [s.objects EXCEPT ![i] = o]
    PROVE  ReadOK(t, i)
<1>1. PICK objs \in Seq(Object) : objs = s.objects /\ DOMAIN objs = DOMAIN objects
  BY DEF ReadOK, ObjectsOK
<1>2. o \in Object
  BY DEF ObjectOK
<1>3. PICK objs1 : objs1 = [objs EXCEPT ![i] = o]
  OBVIOUS
<1>4. objs1 \in Seq(Object) /\ DOMAIN objs1 = DOMAIN objs
  BY <1>1, <1>2, <1>3, ExceptSeq
<1>5. \A k \in DOMAIN objs : objs1[k] = IF k = i THEN o ELSE objs[k]
  BY <1>1, <1>3
<1>6. \A k \in DOMAIN objs : ObjectOK(objs[k], client)
  BY <1>1 DEF ReadOK, ObjectsOK
<1>7. ObjectsOK(objs1, client)
  BY <1>4, <1>5, <1>6 DEF ObjectsOK
<1>8. \A k \in DOMAIN objects : k # i => objs1[k] = objects[k]
  BY <1>1, <1>5 DEF ReadOK
<1>9. objs1[i] = o /\ t.objects = objs1
  BY <1>1, <1>3, <1>5
<1>10. QED
  BY <1>1, <1>4, <1>7, <1>8, <1>9 DEF ReadOK

(* Those who waited are told of what they asked, and wait no more.            *)
LEMMA TellOK ==
    ASSUME LookupsInv, NEW i \in DOMAIN objects, client # "bitly",
           http[objects[i].http].query = objects[i].query,
           NEW o \in Object, o.http = objects[i].http, o.query = objects[i].query, ~o.request_timeout,
           o.answer \in {"NULL", o.query}, o.answer # "NULL" => client \in {"tinyurl", "youtube"},
           NEW s \in Outcomes, s.objects = [objects EXCEPT ![i] = o]
    PROVE  /\ ReadOK(Tell(s, i), i) /\ Tell(s, i).objects[i].answer = o.answer
           /\ Tell(s, i).errors = s.errors /\ Tell(s, i).php_cache = s.php_cache
<1>1. objects \in Seq(Object) /\ ReadOK(S, i) /\ AnswersRight
  BY StartOK DEF LookupsInv, LookupsTypes, ObjectsOK
<1>2. s.objects[i] = o
  BY <1>1
<1>3. PICK told : told = [o EXCEPT !.waits = {}, !.done = o.done \cup o.waits]
  OBVIOUS
<1>4. ObjectOK(told, client)
  <2>1. told \in Object
    BY <1>3 DEF Object
  <2>2. /\ told.waits = {} /\ told.query = o.query /\ told.http = o.http
        /\ told.answer = o.answer /\ told.request_timeout = o.request_timeout
    BY <1>3 DEF Object
  <2>3. QED
    BY <2>1, <2>2 DEF ObjectOK
<1>5. told.http = o.http /\ told.query = o.query /\ told.answer = o.answer
  BY <1>3 DEF Object
<1>6. PICK said : said = Told(o, http[o.http].query)
  OBVIOUS
<1>7. said = {}
  BY <1>1, <1>6, ToldRight
<1>8. Tell(s, i) = [s EXCEPT !.objects = [s.objects EXCEPT ![i] = told], !.misled = said]
  <2>1. Tell(s, i) = [s EXCEPT !.objects[i] = [o EXCEPT !.waits = {}, !.done = @ \cup o.waits], !.misled = said]
    BY <1>2, <1>6 DEF Tell
  <2>2. [o EXCEPT !.waits = {}, !.done = @ \cup o.waits] = told
    BY <1>3
  <2>3. QED
    BY <2>1, <2>2
<1>9. PICK objs : objs = [objects EXCEPT ![i] = told]
  OBVIOUS
<1>10. [s.objects EXCEPT ![i] = told] = objs
  BY <1>1, <1>9
<1>11. told \in Object
  BY <1>4 DEF ObjectOK
<1>12. objs \in Seq(Object) /\ objs[i] = told
  BY <1>1, <1>9, <1>11, ExceptSeq
<1>13. PICK t : t = Tell(s, i)
  OBVIOUS
<1>14. t = [s EXCEPT !.objects = objs, !.misled = {}]
  BY <1>7, <1>8, <1>10, <1>13
<1>15. t \in Outcomes /\ t.objects = objs /\ t.errors = s.errors /\ t.php_cache = s.php_cache
  BY <1>12, <1>14 DEF Outcomes
<1>16. t.objects = [S.objects EXCEPT ![i] = told]
  BY <1>9, <1>15 DEF S
<1>17. ReadOK(t, i)
  BY <1>1, <1>4, <1>5, <1>15, <1>16, ReadChanges
<1>18. t.objects[i].answer = o.answer
  BY <1>5, <1>12, <1>15
<1>19. QED
  BY <1>13, <1>15, <1>17, <1>18

(* Everybody is told, and the answer is kept or not.                          *)
LEMMA TellStartOK ==
    ASSUME LookupsInv, NEW i \in DOMAIN objects, client # "bitly",
           http[objects[i].http].query = objects[i].query
    PROVE  /\ ReadOK(Tell(S, i), i) /\ Tell(S, i).php_cache = php_cache
           /\ Tell(S, i).objects[i].answer = objects[i].answer
<1>1. ObjectOK(objects[i], client) /\ objects \in Seq(Object) /\ ReadOK(S, i)
  BY StartOK DEF LookupsInv, LookupsTypes, ObjectsOK
<1>2. PICK o : o = objects[i]
  OBVIOUS
<1>3. /\ o \in Object /\ o.answer \in {"NULL", o.query} /\ (o.answer # "NULL" => client \in {"tinyurl", "youtube"})
      /\ ~o.request_timeout
  BY <1>1, <1>2 DEF ObjectOK
<1>4. S \in Outcomes /\ S.objects = objects /\ S.php_cache = php_cache
  BY <1>1 DEF ReadOK, S
<1>5. S.objects = [objects EXCEPT ![i] = o]
  BY <1>1, <1>2, <1>4
<1>6. o.http = objects[i].http /\ o.query = objects[i].query
  BY <1>2
<1> HIDE DEF S, Tell
<1>7. ReadOK(Tell(S, i), i) /\ Tell(S, i).php_cache = S.php_cache /\ Tell(S, i).objects[i].answer = o.answer
  <2>1. PICK s \in Outcomes : s = S
    BY <1>4
  <2>2. s.objects = [objects EXCEPT ![i] = o] /\ o \in Object
    BY <1>3, <1>5, <2>1
  <2>3. o.answer \in {"NULL", o.query} /\ (o.answer # "NULL" => client \in {"tinyurl", "youtube"}) /\ ~o.request_timeout
    BY <1>3
  <2>4. ReadOK(Tell(s, i), i) /\ Tell(s, i).php_cache = s.php_cache /\ Tell(s, i).objects[i].answer = o.answer
    BY <1>6, <2>2, <2>3, TellOK
  <2>5. QED
    BY <2>1, <2>4
<1>8. QED
  BY <1>2, <1>4, <1>7

(* The same of an answer that is kept for later.                              *)
LEMMA TellKeepOK ==
    ASSUME LookupsInv, NEW i \in DOMAIN objects, client \in {"tinyurl", "youtube"},
           http[objects[i].http].query = objects[i].query
    PROVE  ReadOK(Tell(Keep(S, i), i), i) /\ Tell(Keep(S, i), i).objects[i].answer # "NULL"
<1>1. ObjectOK(objects[i], client) /\ objects \in Seq(Object) /\ ReadOK(S, i)
  BY StartOK DEF LookupsInv, LookupsTypes, ObjectsOK
<1>2. PICK p : p = objects[i]
  OBVIOUS
<1>3. p \in Object /\ p.query \in Query /\ ~p.request_timeout
  BY <1>1, <1>2 DEF ObjectOK, Object
<1>4. PICK o : o = [p EXCEPT !.answer = p.query]
  OBVIOUS
<1>5. /\ o \in Object /\ o.http = p.http /\ o.query = p.query /\ o.answer = p.query
      /\ o.request_timeout = p.request_timeout
  BY <1>3, <1>4 DEF Object
<1>6. S \in Outcomes /\ S.objects = objects
  BY <1>1 DEF ReadOK, S
<1>7. http[S.objects[i].http].query = p.query
  BY <1>2, <1>6
<1>8. PICK s : s = Keep(S, i)
  OBVIOUS
<1>9. s = [S EXCEPT !.objects[i].answer = p.query]
  BY <1>7, <1>8 DEF Keep
<1> HIDE DEF S
<1>10. s = [S EXCEPT !.objects = [objects EXCEPT ![i] = o]]
  BY <1>2, <1>4, <1>6, <1>9
<1>11. [objects EXCEPT ![i] = o] \in Seq(Object)
  BY <1>1, <1>5, ExceptSeq
<1>12. s \in Outcomes /\ s.objects = [objects EXCEPT ![i] = o]
  BY <1>6, <1>10, <1>11 DEF Outcomes
<1>13. o.answer # "NULL"
  BY <1>3, <1>5, LookupsAssumption
<1>14. ReadOK(Tell(s, i), i) /\ Tell(s, i).objects[i].answer = o.answer
  BY <1>2, <1>3, <1>5, <1>12, TellOK
<1>15. QED
  BY <1>8, <1>13, <1>14

(* bitly tells the one who waits, or nobody when the timer was first.         *)
LEMMA bitly_finishedOK ==
    ASSUME LookupsInv, NEW i \in DOMAIN objects, client = "bitly", NEW s, ReadOK(s, i),
           http[objects[i].http].query = objects[i].query
    PROVE  ReadOK(bitly_finished(s, i), i)
<1>1. AnswersRight /\ s \in Outcomes /\ s.objects \in Seq(Object) /\ DOMAIN s.objects = DOMAIN objects
      /\ ObjectOK(s.objects[i], client)
  BY DEF LookupsInv, ReadOK, ObjectsOK
<1>2. PICK o : o = s.objects[i]
  OBVIOUS
<1>3. o \in Object /\ o.http = objects[i].http /\ o.query = objects[i].query /\ o.answer = "NULL"
  BY <1>1, <1>2 DEF ReadOK, ObjectOK
<1>4. PICK t : t = IF o.waits = {Hook} THEN url_shortened(s) ELSE s
  OBVIOUS
<1>5. t \in Outcomes /\ t.objects = s.objects
  <2>1. t = s \/ t = [s EXCEPT !.errors = s.errors \cup {"crash"}]
    BY <1>4 DEF url_shortened
  <2>2. "crash" \in Errors
    BY DEF Errors
  <2>3. QED
    BY <1>1, <2>1, <2>2 DEF Outcomes
<1>6. PICK said : said = Told(o, http[o.http].query)
  OBVIOUS
<1>7. said = {}
  BY <1>1, <1>3, <1>6, ToldRight
<1>8. PICK told : told = [o EXCEPT !.handled = TRUE, !.request_timeout = FALSE, !.waits = {}]
  OBVIOUS
<1>9. /\ told \in Object /\ told.http = o.http /\ told.query = o.query /\ told.answer = o.answer
      /\ told.waits = {} /\ ~told.request_timeout
  BY <1>3, <1>8 DEF Object
<1>10. ObjectOK(told, client)
  BY <1>3, <1>9 DEF ObjectOK
<1>11. PICK r : r = bitly_finished(s, i)
  OBVIOUS
<1>12. r = [t EXCEPT !.objects[i] = [@ EXCEPT !.handled = TRUE, !.request_timeout = FALSE, !.waits = {}], !.misled = said]
  BY <1>2, <1>4, <1>6, <1>11 DEF bitly_finished
<1>13. PICK objs : objs = [s.objects EXCEPT ![i] = told]
  OBVIOUS
<1>14. r = [t EXCEPT !.objects = objs, !.misled = {}]
  BY <1>2, <1>5, <1>7, <1>8, <1>12, <1>13
<1>15. objs \in Seq(Object)
  BY <1>1, <1>9, <1>13, ExceptSeq
<1>16. r \in Outcomes /\ r.objects = objs
  BY <1>5, <1>14, <1>15 DEF Outcomes
<1>17. ReadOK(r, i)
  BY <1>3, <1>9, <1>10, <1>13, <1>16, ReadChanges
<1>18. QED
  BY <1>11, <1>17

(* What the read functions of the modules come to.                            *)
LEMMA read_funcOK ==
    ASSUME LookupsInv, NEW i \in DOMAIN objects, NEW a \in Addr, i = Find(a), i # 0, NEW buf, NEW registered,
           http[objects[i].http].query = objects[i].query
    PROVE  ReadOK(read_func(S, a, buf, registered), i)
<1>1. ReadOK(S, i)
  BY StartOK
<1>2. client \in {"google", "urbandict", "youtube", "tinyurl", "php", "bitly"}
  BY LookupsAssumption DEF LookupsInv, LookupsTypes
<1> HIDE DEF S, Tell, Keep
<1>3. CASE client = "google"
  <2>1. read_func(S, a, buf, registered) \in {S, Tell(S, i)}
    BY <1>3 DEF read_func, google_read_func
  <2>2. QED
    BY <1>1, <1>3, <2>1, TellStartOK
<1>4. CASE client = "urbandict"
  <2>1. read_func(S, a, buf, registered) = Tell(S, i)
    BY <1>4 DEF read_func, urbandict_read_func
  <2>2. QED
    BY <1>4, <2>1, TellStartOK
<1>5. CASE client = "youtube"
  <2>1. read_func(S, a, buf, registered) \in {S, Tell(Keep(S, i), i)}
    BY <1>5 DEF read_func, youtube_read_func
  <2>2. QED
    BY <1>1, <1>5, <2>1, TellKeepOK
<1>6. CASE client = "tinyurl"
  <2>1. read_func(S, a, buf, registered) \in {S, Tell(S, i), Tell(Keep(S, i), i)}
    BY <1>6 DEF read_func, tinyurl_read_func
  <2>2. QED
    BY <1>1, <1>6, <2>1, TellStartOK, TellKeepOK
<1>7. CASE client = "php"
  <2>1. read_func(S, a, buf, registered) = php_read_func(S, i, buf, registered)
    BY <1>7 DEF read_func
  <2>2. CASE php_read_func(S, i, buf, registered) = S
    BY <1>1, <2>1, <2>2
  <2>3. ASSUME php_read_func(S, i, buf, registered) # S PROVE ReadOK(php_read_func(S, i, buf, registered), i)
    <3>1. PICK t : t = Tell(S, i)
      OBVIOUS
    <3>2. ReadOK(t, i)
      BY <1>7, <3>1, TellStartOK
    <3>3. PICK q : q = S.objects[i].query
      OBVIOUS
    <3>4. q \in Query
      BY <1>1, <3>3 DEF ReadOK, ObjectsOK, ObjectOK, Object
    <3>5. PICK r : r = php_read_func(S, i, buf, registered)
      OBVIOUS
    <3>6. r = [t EXCEPT !.php_cache = IF buf = "answer" THEN @ \cup {q} ELSE @]
      BY <2>3, <3>1, <3>3, <3>5 DEF php_read_func
    <3>7. t \in Outcomes
      BY <3>2 DEF ReadOK
    <3>8. r \in Outcomes /\ r.objects = t.objects
      BY <3>4, <3>6, <3>7 DEF Outcomes
    <3>9. ReadOK(r, i)
      BY <3>2, <3>8 DEF ReadOK
    <3>10. QED
      BY <3>5, <3>9
  <2>4. QED
    BY <2>1, <2>2, <2>3
<1>8. CASE client = "bitly"
  <2>1. read_func(S, a, buf, registered) = bitly_finished(S, i)
    BY <1>8 DEF read_func, bitly_read_func
  <2>2. QED
    BY <1>1, <1>8, <2>1, bitly_finishedOK
<1>9. QED
  BY <1>2, <1>3, <1>4, <1>5, <1>6, <1>7, <1>8

(* Deleting an object leaves objects.                                         *)
LEMMA DeletedObjects ==
    ASSUME NEW cl, NEW objs, ObjectsOK(objs, cl), NEW i \in DOMAIN objs
    PROVE  ObjectsOK(RemoveAt(objs, i), cl)
<1>1. PICK n \in Nat : n = Len(objs) /\ DOMAIN objs = 1 .. n /\ i \in 1 .. n
  BY DEF ObjectsOK
<1>2. PICK left : left = RemoveAt(objs, i)
  OBVIOUS
<1>3. /\ left \in Seq(Object) /\ DOMAIN left = 1 .. n - 1
      /\ \A k \in 1 .. n - 1 : left[k] = IF k < i THEN objs[k] ELSE objs[k + 1]
  BY <1>1, <1>2, RemoveAtOK DEF ObjectsOK
<1>4. ASSUME NEW k \in 1 .. n - 1 PROVE ObjectOK(left[k], cl)
  <2>1. PICK p \in 1 .. n : left[k] = objs[p]
    BY <1>1, <1>3
  <2>2. QED
    BY <1>1, <2>1 DEF ObjectsOK
<1>5. QED
  BY <1>2, <1>3, <1>4 DEF ObjectsOK

(* An outcome without one of its objects.                                     *)
LEMMA object_deleteOK ==
    ASSUME NEW s \in Outcomes, ObjectsOK(s.objects, client), NEW i \in DOMAIN s.objects
    PROVE  /\ object_delete(s, i) \in Outcomes /\ ObjectsOK(object_delete(s, i).objects, client)
           /\ object_delete(s, i).objects = RemoveAt(s.objects, i) /\ object_delete(s, i).errors = s.errors
<1>1. PICK objs : objs = RemoveAt(s.objects, i)
  OBVIOUS
<1>2. ObjectsOK(objs, client)
  BY <1>1, DeletedObjects
<1>3. object_delete(s, i) = [s EXCEPT !.objects = objs]
  BY <1>1 DEF object_delete
<1>4. objs \in Seq(Object)
  BY <1>2 DEF ObjectsOK
<1>5. object_delete(s, i) \in Outcomes /\ object_delete(s, i).objects = objs /\ object_delete(s, i).errors = s.errors
  BY <1>3, <1>4 DEF Outcomes
<1>6. QED
  BY <1>1, <1>2, <1>5

(* What the event functions come to when a request ends: g is http without it. *)
LEMMA event_funcOK ==
    ASSUME LookupsInv, errors = {}, loaded.client, NEW a \in Addr, NEW i \in DOMAIN objects, i = Find(a), i # 0,
           objects[i].http = a, objects[i].answer = "NULL", http[a].query = objects[i].query,
           NEW g, OnlyEnds(http, g, a),
           NEW s, ReadOK(s, i), NEW hangup, NEW t \in event_func(s, a, hangup)
    PROVE  OutcomeOK(t, g)
<1>1. Current(objects, http) /\ Served(objects, http) /\ objects \in Seq(Object)
  BY DEF LookupsInv, Requests, LookupsTypes, ObjectsOK
<1>2. ASSUME NEW r, ReadOK(r, i) PROVE OutcomeOK(object_delete(r, i), g)
  <2>1. r \in Outcomes /\ ObjectsOK(r.objects, client) /\ DOMAIN r.objects = DOMAIN objects /\ i \in DOMAIN r.objects
        /\ r.objects \in Seq(Object)
    BY <1>2 DEF ReadOK, ObjectsOK
  <2>2. /\ object_delete(r, i) \in Outcomes /\ ObjectsOK(object_delete(r, i).objects, client)
        /\ object_delete(r, i).objects = RemoveAt(r.objects, i)
    BY <2>1, object_deleteOK
  <2>3. OnlyChanges(objects, r.objects, i)
    BY <1>2 DEF ReadOK, OnlyChanges
  <2>4. Current(RemoveAt(r.objects, i), g) /\ Served(RemoveAt(r.objects, i), g)
    BY <1>1, <2>1, <2>3, EndKeeps
  <2>5. QED
    BY <2>2, <2>4 DEF OutcomeOK
<1>3. ASSUME s.objects[i].answer # "NULL" PROVE OutcomeOK(s, g)
  <2>1. s \in Outcomes /\ ObjectsOK(s.objects, client) /\ DOMAIN s.objects = DOMAIN objects /\ s.objects \in Seq(Object)
    BY DEF ReadOK, ObjectsOK
  <2>2. OnlyChanges(objects, s.objects, i) /\ s.objects[i].http = objects[i].http
    BY DEF ReadOK, OnlyChanges
  <2>3. Current(s.objects, g) /\ Served(s.objects, g)
    BY <1>1, <1>3, <2>1, <2>2, AnswerKeeps
  <2>4. QED
    BY <2>1, <2>3 DEF OutcomeOK
<1> HIDE DEF Find
<1>4. client \in {"google", "urbandict", "youtube", "tinyurl", "php", "bitly"}
  BY LookupsAssumption DEF LookupsInv, LookupsTypes
<1>5. CASE client = "youtube"
  <2>1. t = youtube_event_func(s, i, hangup)
    BY <1>5 DEF event_func
  <2>2. CASE s.objects[i].answer # "NULL" /\ hangup
    BY <1>3, <2>1, <2>2 DEF youtube_event_func
  <2>3. CASE ~(s.objects[i].answer # "NULL" /\ hangup)
    BY <1>2, <2>1, <2>3 DEF youtube_event_func
  <2>4. QED
    BY <2>2, <2>3
<1>6. CASE client = "tinyurl"
  <2>1. t = tinyurl_event_func(s, i)
    BY <1>6 DEF event_func
  <2>2. CASE s.objects[i].answer # "NULL"
    BY <1>3, <2>1, <2>2 DEF tinyurl_event_func
  <2>3. CASE s.objects[i].answer = "NULL"
    BY <1>2, <2>1, <2>3 DEF tinyurl_event_func
  <2>4. QED
    BY <2>2, <2>3
<1>7. CASE client = "php"
  <2>1. t \in php_event_func(s, i)
    BY <1>7 DEF event_func
  <2>2. PICK j \in DOMAIN objects : t = [object_delete(s, j) EXCEPT !.errors = @ \cup (IF j # i THEN {"twin"} ELSE {})]
    BY <2>1 DEF php_event_func
  <2>3. s \in Outcomes /\ ObjectsOK(s.objects, client) /\ j \in DOMAIN s.objects
    BY DEF ReadOK
  <2>4. PICK d \in Outcomes : d = object_delete(s, j) /\ ObjectsOK(d.objects, client)
    BY <2>3, object_deleteOK
  <2>5. CASE j = i
    <3>1. t = d
      BY <2>2, <2>4, <2>5 DEF Outcomes
    <3>2. QED
      BY <1>2, <2>4, <2>5, <3>1
  <2>6. CASE j # i
    <3>1. t = [d EXCEPT !.errors = d.errors \cup {"twin"}]
      BY <2>2, <2>4, <2>6
    <3>2. "twin" \in Errors
      BY DEF Errors
    <3>3. t \in Outcomes /\ t.objects = d.objects /\ t.errors # {}
      BY <3>1, <3>2 DEF Outcomes
    <3>4. QED
      BY <2>4, <3>3 DEF OutcomeOK
  <2>7. QED
    BY <2>5, <2>6
<1>8. CASE client = "bitly"
  <2>1. t = bitly_event_func(s, i)
    BY <1>8 DEF event_func
  <2>2. PICK r : r = IF s.objects[i].handled THEN s ELSE bitly_finished(s, i)
    OBVIOUS
  <2>3. ReadOK(r, i)
    BY <1>8, <2>2, bitly_finishedOK
  <2>4. t = object_delete(r, i)
    BY <2>1, <2>2 DEF bitly_event_func
  <2>5. QED
    BY <1>2, <2>3, <2>4
<1>9. CASE client \in {"google", "urbandict"}
  <2>1. t = object_delete(s, i)
    BY <1>9 DEF event_func
  <2>2. QED
    BY <1>2, <2>1
<1>10. QED
  BY <1>4, <1>5, <1>6, <1>7, <1>8, <1>9

(* The functions are called, or they are not there.                           *)
LEMMA CallKeeps ==
    ASSUME LookupsInv, errors = {}, UNCHANGED <<client, loaded>>, http' \in [Addr -> Request], Cancelled',
           NEW a, NEW s, loaded.client => OutcomeOK(s, http'), Call(a, s)
    PROVE  LookupsInv'
<1>1. LookupsTypes /\ AnswersRight /\ (~loaded.client => objects = <<>>)
  BY DEF LookupsInv
<1>2. CASE loaded.client
  <2>1. OutcomeOK(s, http') /\ Becomes(s)
    BY <1>2 DEF Call
  <2>2. /\ s.objects \in Seq(Object) /\ s.php_cache \subseteq Query /\ s.misled = {} /\ s.errors \subseteq Errors
        /\ ObjectsOK(s.objects, client)
    BY <2>1 DEF OutcomeOK, Outcomes
  <2>3. LookupsTypes' /\ AnswersRight'
    BY <1>1, <2>1, <2>2 DEF LookupsTypes, AnswersRight, Becomes, ObjectsOK
  <2>4. Requests'
    BY <2>1 DEF Requests, OutcomeOK, Becomes
  <2>5. QED
    BY <1>2, <2>3, <2>4 DEF LookupsInv
<1>3. CASE ~loaded.client
  <2>1. Becomes([S EXCEPT !.errors = @ \cup {"crash"}])
    BY <1>3 DEF Call
  <2>2. objects' = objects /\ php_cache' = php_cache /\ misled' = misled /\ errors' = errors \cup {"crash"}
    BY <2>1 DEF Becomes, S
  <2>3. "crash" \in Errors
    BY DEF Errors
  <2>4. LookupsTypes' /\ AnswersRight'
    BY <1>1, <2>2, <2>3 DEF LookupsTypes, AnswersRight, ObjectsOK
  <2>5. Requests'
    BY <2>2 DEF Requests
  <2>6. QED
    BY <1>1, <2>2, <2>4, <2>5 DEF LookupsInv
<1>4. QED
  BY <1>2, <1>3

(* Types of a request that ends.                                              *)
LEMMA EndTypes ==
    ASSUME LookupsInv, NEW a \in Addr, NEW r \in Request, http' = [http EXCEPT ![a] = r], r.st \in {"free", "stuck"},
           UNCHANGED <<client, loaded>>
    PROVE  http' \in [Addr -> Request] /\ Cancelled' /\ OnlyEnds(http, http', a)
<1>1. http \in [Addr -> Request] /\ Cancelled
  BY DEF LookupsInv, LookupsTypes
<1>2. http' \in [Addr -> Request] /\ http'[a] = r /\ \A b \in Addr : b # a => http'[b] = http[b]
  BY <1>1
<1>3. Cancelled'
  <2>1. ASSUME client = "bitly", ~loaded.client, NEW b \in Addr PROVE http'[b].st \in {"free", "stuck"}
    <3>1. http[b].st \in {"free", "stuck"}
      BY <1>1, <2>1 DEF Cancelled
    <3>2. QED
      BY <1>2, <3>1
  <2>2. QED
    BY <2>1 DEF Cancelled
<1>4. QED
  BY <1>2, <1>3 DEF OnlyEnds

(* An address that is free has no request.                                    *)
LEMMA NoRequestOK == NoRequest \in Request /\ NoRequest.st = "free" /\ NoRequest.query = "none"
BY DEF NoRequest, Request, Buffer

(* The connection of a request ends, and its handler is called.               *)
LEMMA HangupKeeps ==
    ASSUME LookupsInv, errors = {}, NEW a \in Addr, Hangup(a)
    PROVE  LookupsInv'
<1>1. /\ http[a].st = "connected" /\ http' = [http EXCEPT ![a] = NoRequest] /\ UNCHANGED <<client, loaded>>
  BY DEF Hangup, http_sock_hangup, HTTPRequest_free
<1>2. PICK registered \in BOOLEAN : \E s \in event_func(read_func(S, a, http[a].buf, registered), a, TRUE) : Call(a, s)
  BY DEF Hangup
<1>6. PICK s \in event_func(read_func(S, a, http[a].buf, registered), a, TRUE) : Call(a, s)
  BY <1>2
<1>3. http' \in [Addr -> Request] /\ Cancelled' /\ OnlyEnds(http, http', a)
  BY <1>1, EndTypes, NoRequestOK
<1>4. ASSUME loaded.client PROVE OutcomeOK(s, http')
  <2>1. PICK i \in DOMAIN objects : /\ i = Find(a) /\ i # 0 /\ objects[i].http = a
                                    /\ objects[i].answer = "NULL" /\ http[a].query = objects[i].query
    BY <1>1, <1>4, FindCurrent
  <2>2. PICK buf : buf = http[a].buf
    OBVIOUS
  <2>3. PICK r : r = read_func(S, a, buf, registered)
    OBVIOUS
  <2>4. ReadOK(r, i)
    BY <2>1, <2>3, read_funcOK
  <2>5. s \in event_func(r, a, TRUE)
    BY <1>6, <2>2, <2>3
  <2> HIDE DEF Find
  <2>6. QED
    BY <1>3, <1>4, <2>1, <2>4, <2>5, event_funcOK
<1>5. QED
  BY <1>1, <1>3, <1>4, <1>6, CallKeeps

(* A request fails, and the handler is called.                                *)
LEMMA FailureKeeps ==
    ASSUME LookupsInv, errors = {}, NEW a \in Addr, Failure(a)
    PROVE  LookupsInv'
<1>1. http \in [Addr -> Request]
  BY DEF LookupsInv, LookupsTypes
<1>2. PICK r \in Request : http' = [http EXCEPT ![a] = r] /\ r.st \in {"free", "stuck"}
  <2>1. CASE http_sock_error(a)
    BY <2>1, NoRequestOK DEF http_sock_error, HTTPRequest_free
  <2>2. CASE http_invalid_header(a)
    <3>1. [http[a] EXCEPT !.st = "stuck"] \in Request /\ [http[a] EXCEPT !.st = "stuck"].st = "stuck"
      BY <1>1 DEF Request
    <3>2. http' = [http EXCEPT ![a] = [http[a] EXCEPT !.st = "stuck"]]
      BY <2>2 DEF http_invalid_header
    <3>3. QED
      BY <3>1, <3>2
  <2>3. QED
    BY <2>1, <2>2 DEF Failure
<1>3. http[a].st \in {"connecting", "connected"} /\ UNCHANGED <<client, loaded>>
  BY DEF Failure, http_sock_error, http_invalid_header, Open
<1>4. PICK s \in event_func(S, a, FALSE) : Call(a, s)
  BY DEF Failure
<1>5. http' \in [Addr -> Request] /\ Cancelled' /\ OnlyEnds(http, http', a)
  BY <1>2, <1>3, EndTypes
<1>6. ASSUME loaded.client PROVE OutcomeOK(s, http')
  <2>1. PICK i \in DOMAIN objects : /\ i = Find(a) /\ i # 0 /\ objects[i].http = a
                                    /\ objects[i].answer = "NULL" /\ http[a].query = objects[i].query
    BY <1>3, <1>6, FindCurrent
  <2>2. PICK r0 : r0 = S
    OBVIOUS
  <2>3. ReadOK(r0, i) /\ s \in event_func(r0, a, FALSE)
    BY <1>4, <2>1, <2>2, StartOK
  <2> HIDE DEF Find
  <2>4. QED
    BY <1>5, <1>6, <2>1, <2>3, event_funcOK
<1>7. QED
  BY <1>3, <1>4, <1>5, <1>6, CallKeeps

(* What is left to show of a step that leaves the modules as they are.        *)
LEMMA StaysKeeps ==
    ASSUME LookupsInv, UNCHANGED <<client, loaded>>,
           http' \in [Addr -> Request], Cancelled', ObjectsOK(objects', client),
           php_cache' \subseteq Query, misled' = {}, errors' \subseteq Errors,
           errors' = {} => Current(objects', http') /\ (loaded.client => Served(objects', http')),
           ~loaded.client => objects' = <<>>
    PROVE  LookupsInv'
<1>1. LookupsTypes'
  BY DEF LookupsInv, LookupsTypes, ObjectsOK
<1>2. AnswersRight' /\ Requests'
  BY DEF AnswersRight, Requests
<1>3. QED
  BY <1>1, <1>2 DEF LookupsInv

(* A new object in front of the others ...                                    *)
LEMMA InsertFirst ==
    ASSUME NEW cl, NEW objs, ObjectsOK(objs, cl), NEW o, ObjectOK(o, cl), o.answer = "NULL", NEW h, NEW g,
           h[o.http].st = "free", \A b \in Addr : b # o.http => g[b] = h[b],
           g[o.http].st # "free", g[o.http].query = o.query, Current(objs, h), Served(objs, h)
    PROVE  ObjectsOK(<<o>> \o objs, cl) /\ Current(<<o>> \o objs, g) /\ Served(<<o>> \o objs, g)
<1>1. objs \in Seq(Object) /\ o \in Object
  BY DEF ObjectsOK, ObjectOK
<1>2. PICK n \in Nat : n = Len(objs) /\ DOMAIN objs = 1 .. n
  BY <1>1
<1>3. PICK objs1 : objs1 = <<o>> \o objs
  OBVIOUS
<1>4. <<o>> \in Seq(Object) /\ Len(<<o>>) = 1 /\ <<o>>[1] = o
  BY <1>1
<1>5. /\ objs1 \in Seq(Object) /\ Len(objs1) = 1 + n
      /\ \A k \in 1 .. 1 + n : objs1[k] = IF k <= 1 THEN <<o>>[k] ELSE objs[k - 1]
  BY <1>1, <1>2, <1>3, <1>4, ConcatProperties
<1>6. DOMAIN objs1 = 1 .. n + 1 /\ objs1[1] = o /\ \A k \in 1 .. n + 1 : k # 1 => k - 1 \in 1 .. n /\ objs1[k] = objs[k - 1]
  <2>1. DOMAIN objs1 = 1 .. Len(objs1) /\ 1 + n = n + 1
    BY <1>5
  <2>2. objs1[1] = o
    BY <1>4, <1>5
  <2>3. QED
    BY <1>5, <2>1, <2>2
<1>7. ObjectsOK(objs1, cl)
  <2>1. ASSUME NEW k \in 1 .. n + 1 PROVE ObjectOK(objs1[k], cl)
    BY <1>2, <1>6 DEF ObjectsOK
  <2>2. QED
    BY <1>5, <1>6, <2>1 DEF ObjectsOK
<1>8. \A k \in 1 .. n : objs[k].http \in Addr /\ (objs[k].answer = "NULL" => objs[k].http # o.http)
  <2>1. ASSUME NEW k \in 1 .. n PROVE objs[k].http \in Addr
    <3>1. objs[k] \in Object
      BY <1>1, <1>2
    <3>2. QED
      BY <3>1 DEF Object
  <2>2. QED
    BY <1>2, <2>1 DEF Current
<1>9. ASSUME NEW k \in 1 .. n + 1, objs1[k].answer = "NULL"
      PROVE  /\ g[objs1[k].http].st # "free" /\ g[objs1[k].http].query = objs1[k].query
             /\ \A j \in 1 .. n + 1 : j < k => objs1[j].http # objs1[k].http
  <2>1. CASE k = 1
    BY <1>6, <2>1
  <2>2. CASE k # 1
    <3>1. PICK m \in 1 .. n : m = k - 1 /\ objs1[k] = objs[m]
      BY <1>6, <2>2
    <3>2. /\ h[objs[m].http].st # "free" /\ h[objs[m].http].query = objs[m].query
          /\ \A j \in 1 .. n : j < m => objs[j].http # objs[m].http
      BY <1>2, <1>9, <3>1 DEF Current
    <3>3. objs[m].http # o.http /\ g[objs[m].http] = h[objs[m].http]
      BY <1>8, <1>9, <3>1
    <3>4. ASSUME NEW j \in 1 .. n + 1, j < k PROVE objs1[j].http # objs1[k].http
      <4>1. CASE j = 1
        BY <1>6, <3>1, <3>3, <4>1
      <4>2. CASE j # 1
        <5>1. j - 1 \in 1 .. n /\ j - 1 < m /\ objs1[j] = objs[j - 1]
          BY <1>6, <3>1, <3>4, <4>2
        <5>2. QED
          BY <3>1, <3>2, <5>1
      <4>3. QED
        BY <4>1, <4>2
    <3>5. QED
      BY <3>1, <3>2, <3>3, <3>4
  <2>3. QED
    BY <2>1, <2>2
<1>10. Current(objs1, g)
  BY <1>6, <1>9 DEF Current
<1>11. ASSUME NEW b \in Addr, g[b].st \in {"connecting", "connected"}
       PROVE  \E k \in 1 .. n + 1 : objs1[k].http = b /\ objs1[k].answer = "NULL"
  <2>1. CASE b = o.http
    BY <1>6, <2>1
  <2>2. CASE b # o.http
    <3>1. PICK m \in 1 .. n : objs[m].http = b /\ objs[m].answer = "NULL"
      BY <1>2, <1>11, <2>2 DEF Served
    <3>2. m + 1 \in 1 .. n + 1 /\ m + 1 # 1 /\ (m + 1) - 1 = m
      OBVIOUS
    <3>3. objs1[m + 1] = objs[m]
      BY <1>6, <3>2
    <3>4. QED
      BY <3>1, <3>2, <3>3
  <2>3. QED
    BY <2>1, <2>2
<1>12. QED
  BY <1>3, <1>6, <1>7, <1>10, <1>11 DEF Served

(* ... or behind them: there, all of them wait for requests.                  *)
LEMMA InsertLast ==
    ASSUME NEW cl, NEW objs, ObjectsOK(objs, cl), NEW o, ObjectOK(o, cl), o.answer = "NULL", NEW h, NEW g,
           \A k \in DOMAIN objs : objs[k].answer = "NULL",
           h[o.http].st = "free", \A b \in Addr : b # o.http => g[b] = h[b],
           g[o.http].st # "free", g[o.http].query = o.query, Current(objs, h), Served(objs, h)
    PROVE  ObjectsOK(Append(objs, o), cl) /\ Current(Append(objs, o), g) /\ Served(Append(objs, o), g)
<1>1. objs \in Seq(Object) /\ o \in Object
  BY DEF ObjectsOK, ObjectOK
<1>2. PICK n \in Nat : n = Len(objs) /\ DOMAIN objs = 1 .. n
  BY <1>1
<1>3. PICK objs1 : objs1 = Append(objs, o)
  OBVIOUS
<1>4. objs1 \in Seq(Object) /\ Len(objs1) = n + 1 /\ objs1[n + 1] = o /\ \A k \in 1 .. n : objs1[k] = objs[k]
  BY <1>1, <1>2, <1>3, AppendProperties
<1>5. DOMAIN objs1 = 1 .. n + 1
  BY <1>4
<1>6. \A k \in 1 .. n + 1 : k # n + 1 => k \in 1 .. n /\ objs1[k] = objs[k]
  BY <1>4
<1>7. ObjectsOK(objs1, cl)
  <2>1. ASSUME NEW k \in 1 .. n + 1 PROVE ObjectOK(objs1[k], cl)
    BY <1>2, <1>4, <1>6 DEF ObjectsOK
  <2>2. QED
    BY <1>4, <1>5, <2>1 DEF ObjectsOK
<1>8. \A k \in 1 .. n : objs[k].http \in Addr /\ objs[k].http # o.http
  <2>1. ASSUME NEW k \in 1 .. n PROVE objs[k].http \in Addr
    <3>1. objs[k] \in Object
      BY <1>1, <1>2
    <3>2. QED
      BY <3>1 DEF Object
  <2>2. QED
    BY <1>2, <2>1 DEF Current
<1>9. ASSUME NEW k \in 1 .. n + 1, objs1[k].answer = "NULL"
      PROVE  /\ g[objs1[k].http].st # "free" /\ g[objs1[k].http].query = objs1[k].query
             /\ \A j \in 1 .. n + 1 : j < k => objs1[j].http # objs1[k].http
  <2>1. CASE k = n + 1
    <3>1. \A j \in 1 .. n + 1 : j < k => objs1[j].http # o.http
      BY <1>6, <1>8, <2>1
    <3>2. QED
      BY <1>4, <2>1, <3>1
  <2>2. CASE k # n + 1
    <3>1. k \in 1 .. n /\ objs1[k] = objs[k]
      BY <1>6, <2>2
    <3>2. /\ h[objs[k].http].st # "free" /\ h[objs[k].http].query = objs[k].query
          /\ \A j \in 1 .. n : j < k => objs[j].http # objs[k].http
      BY <1>2, <1>9, <3>1 DEF Current
    <3>3. g[objs[k].http] = h[objs[k].http]
      BY <1>8, <3>1
    <3>4. ASSUME NEW j \in 1 .. n + 1, j < k PROVE objs1[j].http # objs1[k].http
      <4>1. j \in 1 .. n /\ objs1[j] = objs[j]
        BY <1>6, <3>1, <3>4
      <4>2. QED
        BY <3>1, <3>2, <3>4, <4>1
    <3>5. QED
      BY <3>1, <3>2, <3>3, <3>4
  <2>3. QED
    BY <2>1, <2>2
<1>10. Current(objs1, g)
  BY <1>5, <1>9 DEF Current
<1>11. ASSUME NEW b \in Addr, g[b].st \in {"connecting", "connected"}
       PROVE  \E k \in 1 .. n + 1 : objs1[k].http = b /\ objs1[k].answer = "NULL"
  <2>1. CASE b = o.http
    <3>1. n + 1 \in 1 .. n + 1
      OBVIOUS
    <3>2. QED
      BY <1>4, <2>1, <3>1
  <2>2. CASE b # o.http
    <3>1. PICK m \in 1 .. n : objs[m].http = b /\ objs[m].answer = "NULL"
      BY <1>2, <1>11, <2>2 DEF Served
    <3>2. m \in 1 .. n + 1 /\ objs1[m] = objs[m]
      BY <1>4
    <3>4. QED
      BY <3>1, <3>2
  <2>3. QED
    BY <2>1, <2>2
<1>12. QED
  BY <1>3, <1>5, <1>7, <1>10, <1>11 DEF Served

(* Whoever asks gets an object and a request of his own.                      *)
LEMMA AskNewKeeps ==
    ASSUME LookupsInv, errors = {}, loaded.client, UNCHANGED <<client, loaded, errors>>,
           NEW w \in Asker, NEW query \in Query, AskNew(w, query)
    PROVE  LookupsInv'
<1>1. PICK a \in Addr :
        /\ HTTPRequest_create(a, query)
        /\ objects' = Insert([query |-> query, http |-> a, waits |-> {w}, done |-> {}, answer |-> "NULL",
                              handled |-> FALSE, request_timeout |-> client = "bitly"])
  BY DEF AskNew
<1>2. php_cache' = php_cache /\ misled' = misled
  BY DEF AskNew
<1>3. PICK st \in {"connecting", "stuck"} :
        http[a].st = "free" /\ http' = [http EXCEPT ![a] = [NoRequest EXCEPT !.st = st, !.query = query]]
  BY <1>1 DEF HTTPRequest_create, HTTPRequest_connect
<1>4. PICK r : r = [NoRequest EXCEPT !.st = st, !.query = query]
  OBVIOUS
<1>5. r \in Request /\ r.st = st /\ r.query = query
  BY <1>4 DEF Request, NoRequest, Buffer
<1>6. LookupsTypes /\ AnswersRight /\ Current(objects, http) /\ Served(objects, http)
  BY DEF LookupsInv, Requests
<1>7. http' \in [Addr -> Request] /\ http'[a] = r /\ \A b \in Addr : b # a => http'[b] = http[b]
  BY <1>3, <1>4, <1>5, <1>6 DEF LookupsTypes
<1>8. PICK o : o = [query |-> query, http |-> a, waits |-> {w}, done |-> {}, answer |-> "NULL",
                    handled |-> FALSE, request_timeout |-> client = "bitly"]
  OBVIOUS
<1>9. /\ o.http = a /\ o.query = query /\ o.answer = "NULL" /\ o.waits = {w}
      /\ o.request_timeout = (client = "bitly")
  BY <1>8
<1>10. o \in Object
  <2>1. (client = "bitly") \in BOOLEAN
    OBVIOUS
  <2>2. QED
    BY <1>8, <2>1 DEF Object
<1>11. ObjectOK(o, client)
  BY <1>9, <1>10 DEF ObjectOK
<1>12. ObjectsOK(objects, client)
  BY <1>6 DEF LookupsTypes
<1>13. http[o.http].st = "free" /\ (\A b \in Addr : b # o.http => http'[b] = http[b])
       /\ http'[o.http].st # "free" /\ http'[o.http].query = o.query
  BY <1>3, <1>5, <1>7, <1>9
<1>14. objects' = IF client \in {"urbandict", "bitly"} THEN Append(objects, o) ELSE <<o>> \o objects
  BY <1>1, <1>8 DEF Insert
<1>15. ObjectsOK(objects', client) /\ Current(objects', http') /\ Served(objects', http')
  <2>1. CASE client \in {"urbandict", "bitly"}
    <3>1. \A k \in DOMAIN objects : objects[k].answer = "NULL"
      BY <1>12, <2>1 DEF ObjectsOK, ObjectOK
    <3>2. PICK h : h = http
      OBVIOUS
    <3>3. PICK g : g = http'
      OBVIOUS
    <3>4. PICK objs : objs = objects
      OBVIOUS
    <3>5. h[o.http].st = "free" /\ (\A b \in Addr : b # o.http => g[b] = h[b])
          /\ g[o.http].st # "free" /\ g[o.http].query = o.query
      BY <1>13, <3>2, <3>3
    <3>6. ObjectsOK(objs, client) /\ Current(objs, h) /\ Served(objs, h) /\ \A k \in DOMAIN objs : objs[k].answer = "NULL"
      BY <1>6, <1>12, <3>1, <3>2, <3>4
    <3>7. ObjectsOK(Append(objs, o), client) /\ Current(Append(objs, o), g) /\ Served(Append(objs, o), g)
      BY <1>9, <1>11, <3>5, <3>6, InsertLast
    <3>8. QED
      BY <1>14, <2>1, <3>3, <3>4, <3>7
  <2>2. CASE client \notin {"urbandict", "bitly"}
    BY <1>6, <1>9, <1>11, <1>12, <1>13, <1>14, <2>2, InsertFirst
  <2>3. QED
    BY <2>1, <2>2
<1>16. Cancelled'
  BY DEF Cancelled
<1>17. QED
  BY <1>2, <1>6, <1>7, <1>15, <1>16, StaysKeeps DEF LookupsTypes, AnswersRight

(* Steps after which the same objects point to the same requests.             *)
LEMMA ShapeKeeps ==
    ASSUME LookupsInv, UNCHANGED <<http, client, loaded, errors>>, php_cache' \subseteq Query, misled' = {},
           ObjectsOK(objects', client), DOMAIN objects' = DOMAIN objects,
           \A k \in DOMAIN objects : /\ objects'[k].http = objects[k].http /\ objects'[k].query = objects[k].query
                                     /\ objects'[k].answer = objects[k].answer
    PROVE  LookupsInv'
<1>1. http' \in [Addr -> Request] /\ Cancelled' /\ errors' \subseteq Errors
  BY DEF LookupsInv, LookupsTypes, Cancelled
<1>2. PICK objs1 : objs1 = objects'
  OBVIOUS
<1>3. PICK objs : objs = objects
  OBVIOUS
<1>4. DOMAIN objs1 = DOMAIN objs /\ \A k \in DOMAIN objs : /\ objs1[k].http = objs[k].http /\ objs1[k].query = objs[k].query
                                                         /\ objs1[k].answer = objs[k].answer
  BY <1>2, <1>3
<1>5. (Current(objs, http) => Current(objs1, http)) /\ (Served(objs, http) => Served(objs1, http))
  BY <1>4, SameShape
<1>6. errors' = {} => Current(objects', http') /\ (loaded.client => Served(objects', http'))
  BY <1>2, <1>3, <1>5 DEF LookupsInv, Requests
<1>7. ~loaded.client => objects' = <<>>
  <2>1. SUFFICES ASSUME ~loaded.client PROVE objects' = <<>>
    OBVIOUS
  <2>2. objs = <<>> /\ objs1 \in Seq(Object)
    BY <1>2, <1>3, <2>1 DEF LookupsInv, ObjectsOK
  <2>3. DOMAIN objs = {}
    BY <2>2
  <2>4. DOMAIN objs1 = {}
    BY <1>4, <2>3
  <2>5. Len(objs1) = 0
    BY <2>2, <2>4
  <2>6. objs1 = <<>>
    BY <2>2, <2>5, EmptySeq
  <2>7. QED
    BY <1>2, <2>6
<1>8. QED
  BY <1>1, <1>6, <1>7, StaysKeeps

(* The object that is known by what it asks.                                  *)
LEMMA KnownOK ==
    ASSUME LookupsTypes, NEW query
    PROVE  Known(query) # 0 => Known(query) \in DOMAIN objects /\ objects[Known(query)].query = query
<1> DEFINE I == {i \in 1 .. Len(objects) : objects[i].query = query}
<1>1. Known(query) = IF I # {} THEN Min(I) ELSE 0
  BY DEF Known, SelectInSeq
<1>2. DOMAIN objects = 1 .. Len(objects) /\ Len(objects) \in Nat
  BY DEF LookupsTypes, ObjectsOK
<1>3. I \in SUBSET Nat
  BY <1>2
<1>4. CASE I # {}
  <2>1. Min(I) \in I
    BY <1>3, <1>4, LeastIsMin
  <2>2. QED
    BY <1>1, <1>2, <1>4, <2>1
<1>5. CASE I = {}
  BY <1>1, <1>5
<1>6. QED
  BY <1>4, <1>5

(* Somebody else waits for an object, or was told.                            *)
LEMMA OneKeeps ==
    ASSUME LookupsInv, UNCHANGED <<http, client, loaded, errors>>, php_cache' = php_cache, misled' = {},
           NEW i \in DOMAIN objects, NEW o, ObjectOK(o, client),
           o.http = objects[i].http, o.query = objects[i].query, o.answer = objects[i].answer,
           objects' = [objects EXCEPT ![i] = o]
    PROVE  LookupsInv'
<1>1. objects \in Seq(Object) /\ php_cache \subseteq Query /\ \A k \in DOMAIN objects : ObjectOK(objects[k], client)
  BY DEF LookupsInv, LookupsTypes, ObjectsOK
<1>2. o \in Object
  BY DEF ObjectOK
<1>3. PICK objs1 : objs1 = objects'
  OBVIOUS
<1>4. objs1 \in Seq(Object) /\ DOMAIN objs1 = DOMAIN objects
  BY <1>1, <1>2, <1>3, ExceptSeq
<1>5. \A k \in DOMAIN objects : objs1[k] = IF k = i THEN o ELSE objects[k]
  BY <1>3
<1>6. ObjectsOK(objs1, client)
  BY <1>1, <1>4, <1>5 DEF ObjectsOK
<1>7. \A k \in DOMAIN objects : /\ objs1[k].http = objects[k].http /\ objs1[k].query = objects[k].query
                               /\ objs1[k].answer = objects[k].answer
  BY <1>5
<1>8. ObjectsOK(objects', client) /\ DOMAIN objects' = DOMAIN objects /\ php_cache' \subseteq Query
  BY <1>1, <1>3, <1>4, <1>6
<1>9. \A k \in DOMAIN objects : /\ objects'[k].http = objects[k].http /\ objects'[k].query = objects[k].query
                               /\ objects'[k].answer = objects[k].answer
  BY <1>3, <1>7
<1>10. QED
  BY <1>8, <1>9, ShapeKeeps

(* tinyurl looks for an object with the same address first.                   *)
LEMMA tinyurl_createKeeps ==
    ASSUME LookupsInv, errors = {}, loaded.client, UNCHANGED <<client, loaded, errors>>,
           NEW w \in Asker, NEW query \in Query, tinyurl_create(w, query)
    PROVE  LookupsInv'
<1>1. CASE AskNew(w, query)
  BY <1>1, AskNewKeeps
<1>2. CASE ~AskNew(w, query)
  <2>1. /\ client = "tinyurl" /\ Known(query) # 0 /\ objects' = [objects EXCEPT ![Known(query)].waits = @ \cup {w}]
        /\ UNCHANGED <<http, php_cache, misled>>
    BY <1>2 DEF tinyurl_create
  <2>2. PICK i \in DOMAIN objects : i = Known(query)
    BY <2>1, KnownOK DEF LookupsInv
  <2>3. PICK p : p = objects[i]
    OBVIOUS
  <2>4. ObjectOK(p, client)
    BY <2>3 DEF LookupsInv, LookupsTypes, ObjectsOK
  <2>5. PICK o : o = [p EXCEPT !.waits = p.waits \cup {w}]
    OBVIOUS
  <2>6. /\ o \in Object /\ o.http = p.http /\ o.query = p.query /\ o.answer = p.answer
        /\ o.request_timeout = p.request_timeout
    BY <2>4, <2>5 DEF ObjectOK, Object
  <2>7. ObjectOK(o, client)
    BY <2>1, <2>4, <2>6 DEF ObjectOK
  <2>8. objects' = [objects EXCEPT ![i] = o]
    BY <2>1, <2>2, <2>3, <2>5
  <2>9. misled' = {} /\ UNCHANGED <<http, client, loaded, errors>> /\ php_cache' = php_cache
    BY <2>1 DEF LookupsInv, AnswersRight
  <2>10. QED
    BY <2>3, <2>6, <2>7, <2>8, <2>9, OneKeeps
<1>3. QED
  BY <1>1, <1>2

(* youtube looks for an object of the same video first.                       *)
LEMMA youtube_request_createKeeps ==
    ASSUME LookupsInv, errors = {}, loaded.client, UNCHANGED <<client, loaded, errors>>,
           NEW w \in Asker, NEW query \in Query, youtube_request_create(w, query)
    PROVE  LookupsInv'
<1>1. CASE AskNew(w, query)
  BY <1>1, AskNewKeeps
<1>2. CASE ~AskNew(w, query)
  <2>1. client = "youtube" /\ Known(query) # 0
    BY <1>2 DEF youtube_request_create
  <2>2. PICK i \in DOMAIN objects : i = Known(query)
    BY <2>1, KnownOK DEF LookupsInv
  <2>3. PICK p : p = objects[i]
    OBVIOUS
  <2>4. ObjectOK(p, client)
    BY <2>3 DEF LookupsInv, LookupsTypes, ObjectsOK
  <2>5. PICK known : known = [p EXCEPT !.waits = p.waits \cup ({w} \ p.done)]
    OBVIOUS
  <2>6. /\ known \in Object /\ known.http = p.http /\ known.query = p.query /\ known.answer = p.answer
        /\ known.request_timeout = p.request_timeout
    BY <2>4, <2>5 DEF ObjectOK, Object
  <2>7. \/ /\ known.answer = "NULL" /\ objects' = [objects EXCEPT ![i] = known]
           /\ UNCHANGED <<http, php_cache, misled>>
        \/ /\ known.answer # "NULL" /\ misled' = Told(known, known.answer)
           /\ objects' = [objects EXCEPT ![i] = [known EXCEPT !.waits = {}, !.done = @ \cup known.waits]]
           /\ UNCHANGED <<http, php_cache>>
    BY <1>2, <2>2, <2>3, <2>5 DEF youtube_request_create
  <2>8. AnswersRight
    BY DEF LookupsInv
  <2>9. CASE known.answer = "NULL"
    <3>1. ObjectOK(known, client)
      BY <2>1, <2>4, <2>6, <2>9 DEF ObjectOK
    <3>2. misled' = {} /\ UNCHANGED <<http, client, loaded, errors>> /\ php_cache' = php_cache
          /\ objects' = [objects EXCEPT ![i] = known]
      BY <2>7, <2>8, <2>9 DEF AnswersRight
    <3>3. QED
      BY <2>3, <2>6, <3>1, <3>2, OneKeeps
  <2>10. CASE known.answer # "NULL"
    <3>1. PICK o : o = [known EXCEPT !.waits = {}, !.done = known.done \cup known.waits]
      OBVIOUS
    <3>2. /\ o \in Object /\ o.http = p.http /\ o.query = p.query /\ o.answer = p.answer
          /\ o.request_timeout = p.request_timeout /\ o.waits = {}
      BY <2>6, <3>1 DEF Object
    <3>3. ObjectOK(o, client)
      BY <2>1, <2>4, <3>2 DEF ObjectOK
    <3>4. known.query = known.answer
      BY <2>4, <2>6, <2>10 DEF ObjectOK
    <3>5. PICK said : said = Told(known, known.answer)
      OBVIOUS
    <3>6. said = {}
      BY <2>8, <3>4, <3>5, ToldRight
    <3>7. misled' = {} /\ UNCHANGED <<http, client, loaded, errors>> /\ php_cache' = php_cache
      BY <2>7, <2>10, <3>5, <3>6
    <3>8. objects' = [objects EXCEPT ![i] = o]
      BY <2>7, <2>10, <3>1
    <3>9. QED
      BY <2>3, <3>2, <3>3, <3>7, <3>8, OneKeeps
  <2>11. QED
    BY <2>9, <2>10
<1>3. QED
  BY <1>1, <1>2

(* Asking keeps LookupsInv, whichever module is asked.                        *)
LEMMA AskKeeps ==
    ASSUME LookupsInv, errors = {}, Ask
    PROVE  LookupsInv'
<1>1. loaded.client /\ UNCHANGED <<client, loaded, errors>>
  BY DEF Ask
<1>2. PICK query \in Query :
        \/ http_github(query)
        \/ \E w \in Asker : \/ google(w, query) \/ urbandict(w, query) \/ php(w, query)
                            \/ tinyurl_create(w, query) \/ youtube_request_create(w, query)
                            \/ bitly_shorten(w, query)
  BY DEF Ask
<1>3. ASSUME NEW w \in Asker, php(w, query) PROVE LookupsInv'
  <2>1. CASE AskNew(w, query)
    BY <1>1, <2>1, AskNewKeeps
  <2>2. CASE ~AskNew(w, query)
    <3>1. UNCHANGED <<http, objects, php_cache, misled>>
      BY <1>3, <2>2 DEF php
    <3>2. QED
      BY <1>1, <3>1 DEF LookupsInv, LookupsTypes, ObjectsOK, AnswersRight, Requests, Cancelled, Current, Served
  <2>3. QED
    BY <2>1, <2>2
<1>4. ASSUME NEW w \in Asker, AskNew(w, query) PROVE LookupsInv'
  BY <1>1, <1>4, AskNewKeeps
<1>5. Hook \in Asker
  BY LookupsAssumption
<1>6. CASE http_github(query)
  BY <1>4, <1>5, <1>6 DEF http_github
<1>7. ASSUME NEW w \in Asker, google(w, query) \/ urbandict(w, query) \/ bitly_shorten(w, query) PROVE LookupsInv'
  BY <1>4, <1>7 DEF google, urbandict, bitly_shorten
<1>8. QED
  BY <1>1, <1>2, <1>3, <1>6, <1>7, tinyurl_createKeeps, youtube_request_createKeeps

(* What a request does without a call of its handler.                         *)
LEMMA QuietKeeps ==
    ASSUME LookupsInv, errors = {}, NEW a \in Addr, Quiet(a)
    PROVE  LookupsInv'
<1>1. http \in [Addr -> Request] /\ UNCHANGED <<client, loaded, objects, php_cache, misled, errors>>
  BY DEF Quiet, LookupsInv, LookupsTypes
<1>2. PICK q \in Request : q = http[a]
  BY <1>1
<1>3. PICK r \in Request : /\ http' = [http EXCEPT ![a] = r] /\ q.st \in {"connecting", "connected"}
                           /\ r.st \in {"connecting", "connected", "stuck"} /\ r.query = q.query
  <2>1. CASE http_sock_connected(a)
    <3>1. [q EXCEPT !.st = "connected"] \in Request /\ [q EXCEPT !.st = "connected"].st = "connected"
          /\ [q EXCEPT !.st = "connected"].query = q.query
      BY DEF Request
    <3>2. http' = [http EXCEPT ![a] = [q EXCEPT !.st = "connected"]] /\ q.st = "connecting"
      BY <1>2, <2>1 DEF http_sock_connected
    <3>3. QED
      BY <3>1, <3>2
  <2>2. CASE http_headers_end(a)
    <3>1. [q EXCEPT !.in_headers = FALSE] \in Request /\ [q EXCEPT !.in_headers = FALSE].st = q.st
          /\ [q EXCEPT !.in_headers = FALSE].query = q.query
      BY DEF Request
    <3>2. http' = [http EXCEPT ![a] = [q EXCEPT !.in_headers = FALSE]] /\ q.st = "connected"
      BY <1>2, <2>2 DEF http_headers_end
    <3>3. QED
      BY <3>1, <3>2
  <2>3. ASSUME NEW buf \in Buffer, http' = [http EXCEPT ![a].buf = buf], http[a].st = "connected"
        PROVE  \E r \in Request : /\ http' = [http EXCEPT ![a] = r] /\ q.st \in {"connecting", "connected"}
                                  /\ r.st \in {"connecting", "connected", "stuck"} /\ r.query = q.query
    <3>1. [q EXCEPT !.buf = buf] \in Request /\ [q EXCEPT !.buf = buf].st = q.st
          /\ [q EXCEPT !.buf = buf].query = q.query
      BY DEF Request
    <3>2. http' = [http EXCEPT ![a] = [q EXCEPT !.buf = buf]] /\ q.st = "connected"
      BY <1>2, <2>3
    <3>3. QED
      BY <3>1, <3>2
  <2>4. CASE http_body(a)
    BY <2>3, <2>4 DEF http_body
  <2>5. CASE http_not_redirected(a)
    <3>1. "location" \in Buffer
      BY DEF Buffer
    <3>2. QED
      BY <2>3, <2>5, <3>1 DEF http_not_redirected
  <2>6. CASE http_redirected(a)
    <3>1. PICK st \in {"connecting", "stuck"} :
            http' = [http EXCEPT ![a] = [NoRequest EXCEPT !.st = st, !.query = http[a].query]] /\ q.st = "connected"
      BY <1>2, <2>6 DEF http_redirected, HTTPRequest_connect
    <3>2. PICK r : r = [NoRequest EXCEPT !.st = st, !.query = q.query]
      OBVIOUS
    <3>3. q.query \in Query \cup {"none"}
      BY DEF Request
    <3>4. r \in Request /\ r.st = st /\ r.query = q.query
      BY <3>2, <3>3 DEF Request, NoRequest, Buffer
    <3>5. http' = [http EXCEPT ![a] = r]
      BY <1>2, <3>1, <3>2
    <3>6. QED
      BY <3>1, <3>4, <3>5
  <2>7. QED
    BY <2>1, <2>2, <2>4, <2>5, <2>6 DEF Quiet
<1>4. http' \in [Addr -> Request] /\ http'[a] = r /\ \A b \in Addr : b # a => http'[b] = http[b]
  BY <1>1, <1>3
<1>5. \A b \in Addr : /\ http'[b].query = http[b].query
                      /\ http[b].st # "free" => http'[b].st # "free"
                      /\ http'[b].st \in {"connecting", "connected"} => http[b].st \in {"connecting", "connected"}
  BY <1>2, <1>3, <1>4
<1>6. Cancelled'
  <2>1. SUFFICES ASSUME client = "bitly", ~loaded.client PROVE FALSE
    BY <1>1 DEF Cancelled
  <2>2. QED
    BY <1>2, <1>3, <2>1 DEF LookupsInv, Cancelled
<1>7. \A k \in DOMAIN objects : objects[k].http \in Addr
  <2>1. \A k \in DOMAIN objects : objects[k] \in Object
    BY DEF LookupsInv, LookupsTypes, ObjectsOK
  <2>2. QED
    BY <2>1 DEF Object
<1>8. Current(objects, http')
  <2>1. Current(objects, http)
    BY DEF LookupsInv, Requests
  <2>2. QED
    BY <1>5, <1>7, <2>1 DEF Current
<1>9. loaded.client => Served(objects, http')
  BY <1>5 DEF LookupsInv, Requests, Served
<1>10. ObjectsOK(objects', client)
  BY <1>1 DEF LookupsInv, LookupsTypes, ObjectsOK
<1>11. php_cache' \subseteq Query /\ misled' = {} /\ errors' \subseteq Errors /\ (~loaded.client => objects' = <<>>)
  BY <1>1 DEF LookupsInv, LookupsTypes, AnswersRight
<1>12. Current(objects', http') /\ (loaded.client => Served(objects', http'))
  BY <1>1, <1>8, <1>9 DEF Current, Served
<1>13. QED
  BY <1>1, <1>4, <1>6, <1>10, <1>11, <1>12, StaysKeeps

(* urbandict reads a line of an answer that is still coming.                  *)
LEMMA LineKeeps ==
    ASSUME LookupsInv, errors = {}, NEW a \in Addr, Line(a)
    PROVE  LookupsInv'
<1>1. http' = http /\ UNCHANGED <<client, loaded>> /\ client = "urbandict" /\ http[a].st = "connected"
  BY DEF Line, Linewise
<1>2. PICK s : s = (IF Find(a) = 0 THEN S ELSE urbandict_read_func(S, Find(a)))
  OBVIOUS
<1>3. Call(a, s)
  BY <1>2 DEF Line
<1>4. http' \in [Addr -> Request] /\ Cancelled'
  BY <1>1 DEF LookupsInv, LookupsTypes, Cancelled
<1>5. ASSUME loaded.client PROVE OutcomeOK(s, http')
  <2>1. PICK i \in DOMAIN objects : /\ i = Find(a) /\ i # 0 /\ objects[i].http = a
                                    /\ objects[i].answer = "NULL" /\ http[a].query = objects[i].query
    BY <1>1, <1>5, FindCurrent
  <2>2. s = Tell(S, i)
    BY <1>2, <2>1 DEF urbandict_read_func
  <2>3. ReadOK(s, i) /\ s.objects[i].answer = objects[i].answer
    BY <1>1, <2>1, <2>2, TellStartOK
  <2>4. s \in Outcomes /\ ObjectsOK(s.objects, client) /\ DOMAIN s.objects = DOMAIN objects
        /\ \A k \in DOMAIN objects : /\ s.objects[k].http = objects[k].http /\ s.objects[k].query = objects[k].query
                                     /\ s.objects[k].answer = objects[k].answer
    BY <2>3 DEF ReadOK
  <2>5. PICK objs1 : objs1 = s.objects
    OBVIOUS
  <2>6. Current(objects, http) /\ Served(objects, http)
    BY <1>5 DEF LookupsInv, Requests
  <2>7. Current(objs1, http) /\ Served(objs1, http)
    BY <2>4, <2>5, <2>6, SameShape
  <2>8. QED
    BY <1>1, <2>4, <2>5, <2>7 DEF OutcomeOK
<1>6. QED
  BY <1>1, <1>3, <1>4, <1>5, CallKeeps

(* bitly gives up on an answer and tells the one who waits.                   *)
LEMMA bitly_timeoutKeeps ==
    ASSUME LookupsInv, errors = {}, NEW i \in DOMAIN objects, bitly_timeout(i)
    PROVE  LookupsInv'
<1>1. ObjectOK(objects[i], client) /\ objects \in Seq(Object) /\ objects[i].request_timeout
  BY DEF LookupsInv, LookupsTypes, ObjectsOK, bitly_timeout
<1>2. client = "bitly" /\ objects[i].answer = "NULL" /\ objects[i].http \in Addr
  BY <1>1 DEF ObjectOK, Object
<1>3. loaded.client
  BY DEF LookupsInv
<1>4. Current(objects, http) /\ Served(objects, http)
  BY <1>3 DEF LookupsInv, Requests
<1>5. http[objects[i].http].query = objects[i].query
  BY <1>2, <1>4 DEF Current
<1>6. PICK s : s = bitly_finished(S, i)
  OBVIOUS
<1>7. ReadOK(s, i)
  BY <1>2, <1>5, <1>6, StartOK, bitly_finishedOK
<1>8. s \in Outcomes /\ ObjectsOK(s.objects, client) /\ i \in DOMAIN s.objects /\ s.objects \in Seq(Object)
  BY <1>7 DEF ReadOK, ObjectsOK
<1>9. PICK left : left = RemoveAt(s.objects, i)
  OBVIOUS
<1>10. ObjectsOK(left, client)
  BY <1>8, <1>9, DeletedObjects
<1>11. http' = [http EXCEPT ![objects[i].http] = NoRequest] /\ UNCHANGED <<client, loaded>>
  BY DEF bitly_timeout, HTTPRequest_free
<1>12. http' \in [Addr -> Request] /\ Cancelled' /\ OnlyEnds(http, http', objects[i].http)
  BY <1>2, <1>11, EndTypes, NoRequestOK
<1>13. OnlyChanges(objects, s.objects, i)
  BY <1>7 DEF ReadOK, OnlyChanges
<1>14. PICK g : g = http'
  OBVIOUS
<1>15. OnlyEnds(http, g, objects[i].http)
  BY <1>12, <1>14
<1>16. Current(left, g) /\ Served(left, g)
  BY <1>1, <1>2, <1>4, <1>8, <1>9, <1>13, <1>15, EndKeeps
<1>17. Becomes([s EXCEPT !.objects = left, !.errors = @ \cup Freed(objects[i])])
  BY <1>6, <1>9 DEF bitly_timeout
<1>18. PICK freed : freed = Freed(objects[i])
  OBVIOUS
<1>19. freed \subseteq Errors
  BY <1>18 DEF Freed, Errors
<1>20. objects' = left /\ php_cache' = s.php_cache /\ misled' = s.misled /\ errors' = s.errors \cup freed
  <2>1. PICK t : t = [s EXCEPT !.objects = left, !.errors = @ \cup freed]
    OBVIOUS
  <2>2. t.objects = left /\ t.php_cache = s.php_cache /\ t.misled = s.misled /\ t.errors = s.errors \cup freed
    BY <1>8, <2>1 DEF Outcomes
  <2>3. QED
    BY <1>17, <1>18, <2>1, <2>2 DEF Becomes
<1>21. php_cache' \subseteq Query /\ misled' = {} /\ errors' \subseteq Errors
  BY <1>8, <1>19, <1>20 DEF Outcomes
<1>22. ObjectsOK(objects', client) /\ Current(objects', http') /\ Served(objects', http')
  BY <1>10, <1>14, <1>16, <1>20
<1>23. QED
  BY <1>3, <1>11, <1>12, <1>21, <1>22, StaysKeeps

(* An object of youtube gets too old.                                         *)
LEMMA youtube_timerKeeps ==
    ASSUME LookupsInv, errors = {}, NEW i \in DOMAIN objects, youtube_timer(i)
    PROVE  LookupsInv'
<1>1. /\ client = "youtube" /\ objects' = RemoveAt(objects, i) /\ UNCHANGED <<http, client, loaded, php_cache, misled>>
      /\ errors' = errors \cup (IF objects[i].answer = "NULL" /\ Open(objects[i].http) THEN {"evicted"} ELSE {})
  BY DEF youtube_timer
<1>2. loaded.client /\ objects \in Seq(Object) /\ ObjectsOK(objects, client) /\ AnswersRight
  BY DEF LookupsInv, LookupsTypes, ObjectsOK
<1>3. Current(objects, http) /\ Served(objects, http)
  BY <1>2 DEF LookupsInv, Requests
<1>4. PICK left : left = RemoveAt(objects, i)
  OBVIOUS
<1>5. ObjectsOK(left, client)
  BY <1>2, <1>4, DeletedObjects
<1>6. ASSUME errors' = {} PROVE Current(left, http) /\ Served(left, http)
  <2>1. ~(objects[i].answer = "NULL" /\ http[objects[i].http].st \in {"connecting", "connected"})
    BY <1>1, <1>6 DEF Open
  <2>2. OthersAsk(objects, i, http)
    BY <1>3 DEF Current, OthersAsk
  <2>3. OthersRun(objects, i, http, http)
    BY <2>1 DEF OthersRun
  <2>4. PICK objs1 \in Seq(Object) : objs1 = objects
    BY <1>2
  <2>5. OnlyChanges(objects, objs1, i)
    BY <2>4 DEF OnlyChanges
  <2>6. Current(RemoveAt(objs1, i), http) /\ Served(RemoveAt(objs1, i), http)
    BY <1>2, <1>3, <2>2, <2>3, <2>5, RemovalKeeps
  <2>7. QED
    BY <1>4, <2>4, <2>6
<1>7. errors' \subseteq Errors
  BY <1>1 DEF Errors
<1>8. http' \in [Addr -> Request] /\ Cancelled' /\ php_cache' \subseteq Query /\ misled' = {}
  BY <1>1, <1>2 DEF LookupsInv, LookupsTypes, Cancelled, AnswersRight
<1>9. ObjectsOK(objects', client) /\ (errors' = {} => Current(objects', http') /\ (loaded.client => Served(objects', http')))
  <2>1. objects' = left /\ http' = http
    BY <1>1, <1>4
  <2>2. QED
    BY <1>5, <1>6, <2>1
<1>10. QED
  BY <1>1, <1>2, <1>7, <1>8, <1>9, StaysKeeps

(* A channel takes its youtube module away: nobody in it waits any more.      *)
LEMMA youtube_disable_cmodKeeps ==
    ASSUME LookupsInv, NEW w \in Asker, youtube_disable_cmod(w)
    PROVE  LookupsInv'
<1>1. /\ client = "youtube" /\ UNCHANGED <<http, client, loaded, php_cache, misled, errors>>
      /\ objects' = [i \in DOMAIN objects |-> [objects[i] EXCEPT !.waits = @ \ {w}, !.done = @ \ {w}]]
  BY DEF youtube_disable_cmod
<1>2. objects \in Seq(Object) /\ \A k \in DOMAIN objects : ObjectOK(objects[k], client)
  BY DEF LookupsInv, LookupsTypes, ObjectsOK
<1>3. PICK objs1 : objs1 = [i \in DOMAIN objects |-> [objects[i] EXCEPT !.waits = @ \ {w}, !.done = @ \ {w}]]
  OBVIOUS
<1>4. ASSUME NEW k \in DOMAIN objects
      PROVE  /\ ObjectOK(objs1[k], client)
             /\ objs1[k].http = objects[k].http /\ objs1[k].query = objects[k].query /\ objs1[k].answer = objects[k].answer
  <2>1. PICK p : p = objects[k]
    OBVIOUS
  <2>2. ObjectOK(p, client)
    BY <1>2, <2>1
  <2>3. PICK o : o = [p EXCEPT !.waits = p.waits \ {w}, !.done = p.done \ {w}]
    OBVIOUS
  <2>4. objs1[k] = o
    BY <1>3, <2>1, <2>3
  <2>5. /\ o \in Object /\ o.http = p.http /\ o.query = p.query /\ o.answer = p.answer
        /\ o.request_timeout = p.request_timeout /\ o.waits = p.waits \ {w}
    BY <2>2, <2>3 DEF ObjectOK, Object
  <2>6. ObjectOK(o, client)
    BY <1>1, <2>2, <2>5 DEF ObjectOK
  <2>7. QED
    BY <2>1, <2>4, <2>5, <2>6
<1>5. PICK n \in Nat : n = Len(objects) /\ DOMAIN objects = 1 .. n
  BY <1>2
<1>6. DOMAIN objs1 = 1 .. n /\ \A k \in 1 .. n : objs1[k] \in Object
  BY <1>3, <1>4, <1>5 DEF ObjectOK
<1>7. objs1 \in Seq(Object)
  <2>1. objs1 = [k \in 1 .. n |-> objs1[k]]
    BY <1>3, <1>6
  <2>2. objs1 \in [1 .. n -> Object]
    BY <1>6, <2>1
  <2>3. QED
    BY <2>2, SeqDef
<1>8. ObjectsOK(objs1, client)
  BY <1>4, <1>5, <1>6, <1>7 DEF ObjectsOK
<1>9. objects' = objs1
  BY <1>1, <1>3
<1>10. ObjectsOK(objects', client) /\ DOMAIN objects' = DOMAIN objects /\ php_cache' \subseteq Query /\ misled' = {}
  BY <1>1, <1>5, <1>6, <1>8, <1>9 DEF LookupsInv, LookupsTypes, AnswersRight
<1>11. \A k \in DOMAIN objects : /\ objects'[k].http = objects[k].http /\ objects'[k].query = objects[k].query
                                 /\ objects'[k].answer = objects[k].answer
  BY <1>4, <1>9
<1>12. QED
  BY <1>1, <1>10, <1>11, ShapeKeeps

(* A module goes: bitly, and no other, cancels what it asked for.             *)
LEMMA FiniKeeps ==
    ASSUME LookupsInv, errors = {}, lookup_fini \/ bitly_fini
    PROVE  LookupsInv'
<1>1. LookupsTypes /\ AnswersRight /\ loaded.client
  BY DEF LookupsInv, lookup_fini, bitly_fini
<1>2. objects' = <<>> /\ client' = client /\ loaded' = [loaded EXCEPT !.client = FALSE] /\ misled' = misled
      /\ php_cache' \subseteq Query
  BY <1>1 DEF LookupsTypes, lookup_fini, bitly_fini
<1>3. loaded' \in [client : BOOLEAN, github : BOOLEAN] /\ ~loaded'.client
  BY <1>1, <1>2 DEF LookupsTypes
<1>4. errors' \subseteq Errors
  BY <1>1 DEF LookupsTypes, lookup_fini, bitly_fini, Errors
<1>5. http' \in [Addr -> Request] /\ Cancelled'
  <2>1. CASE lookup_fini
    BY <1>1, <1>2, <2>1 DEF lookup_fini, LookupsTypes, Cancelled
  <2>2. CASE bitly_fini
    <3>1. http' = [a \in Addr |-> IF \E i \in DOMAIN objects : objects[i].http = a THEN NoRequest ELSE http[a]]
      BY <2>2 DEF bitly_fini
    <3>2. http' \in [Addr -> Request]
      BY <1>1, <3>1, NoRequestOK DEF LookupsTypes
    <3>3. ASSUME NEW a \in Addr PROVE http'[a].st \in {"free", "stuck"}
      <4>1. CASE \E i \in DOMAIN objects : objects[i].http = a
        BY <3>1, <4>1, NoRequestOK
      <4>2. CASE ~ \E i \in DOMAIN objects : objects[i].http = a
        <5>1. http'[a] = http[a] /\ http[a] \in Request
          BY <1>1, <3>1, <4>2 DEF LookupsTypes
        <5>2. ~(http[a].st \in {"connecting", "connected"})
          BY <1>1, <4>2 DEF LookupsInv, Requests, Served
        <5>3. QED
          BY <5>1, <5>2 DEF Request
      <4>3. QED
        BY <4>1, <4>2
    <3>4. QED
      BY <3>2, <3>3 DEF Cancelled
  <2>3. QED
    BY <2>1, <2>2
<1>6. ObjectsOK(objects', client') /\ Current(objects', http')
  BY <1>2 DEF ObjectsOK, Current
<1>7. LookupsTypes'
  BY <1>1, <1>2, <1>3, <1>4, <1>5, <1>6 DEF LookupsTypes, ObjectsOK
<1>8. QED
  BY <1>1, <1>2, <1>3, <1>5, <1>6, <1>7 DEF LookupsInv, Requests, AnswersRight

(* The invariant is inductive.                                                *)
LEMMA StepLookupsInv ==
    ASSUME LookupsInv, [lookupsNext]_lookupVars
    PROVE  LookupsInv'
<1>1. CASE UNCHANGED lookupVars
  BY <1>1 DEF lookupVars, LookupsInv, LookupsTypes, ObjectsOK, AnswersRight, Requests, Cancelled, Current, Served
<1>2. CASE lookupsNext
  <2>1. errors = {}
    BY <1>2 DEF lookupsNext
  <2>2. CASE php_timer_func
    <3>1. UNCHANGED <<http, client, loaded, objects, misled, errors>> /\ php_cache' \subseteq php_cache
      BY <2>2 DEF php_timer_func
    <3>2. QED
      BY <3>1 DEF LookupsInv, LookupsTypes, ObjectsOK, AnswersRight, Requests, Cancelled, Current, Served
  <2>3. CASE github_fini
    <3>1. UNCHANGED <<http, client, objects, php_cache, misled, errors>> /\ loaded' = [loaded EXCEPT !.github = FALSE]
      BY <2>3 DEF github_fini
    <3>2. loaded' \in [client : BOOLEAN, github : BOOLEAN] /\ loaded'.client = loaded.client
      BY <3>1 DEF LookupsInv, LookupsTypes
    <3>3. QED
      BY <3>1, <3>2 DEF LookupsInv, LookupsTypes, ObjectsOK, AnswersRight, Requests, Cancelled, Current, Served
  <2>4. QED
    BY <1>2, <2>1, <2>2, <2>3, AskKeeps, QuietKeeps, LineKeeps, HangupKeeps, FailureKeeps, bitly_timeoutKeeps,
       youtube_timerKeeps, youtube_disable_cmodKeeps, FiniKeeps DEF lookupsNext
<1>3. QED
  BY <1>1, <1>2

(***************************************************************************)
(* Rules.                                                                  *)
(***************************************************************************)

(* What holds of 0, and of n + 1 if of n, holds of every number.              *)
LEMMA Induction ==
    ASSUME NEW R \in SUBSET Nat, 0 \in R, \A n \in R : n + 1 \in R
    PROVE  R = Nat
<1> DEFINE out == Nat \ R
<1>1. SUFFICES ASSUME out # {} PROVE FALSE
  OBVIOUS
<1> HIDE DEF out
<1>2. PICK n \in out : \A m \in out : n <= m
  BY <1>1, LeastExists DEF out
<1>3. n \in Nat /\ n # 0 /\ n - 1 \in Nat /\ n \notin R
  BY <1>2 DEF out
<1>4. n - 1 \in R
  BY <1>2, <1>3 DEF out
<1>5. (n - 1) + 1 \in R
  BY <1>4
<1>6. QED
  BY <1>3, <1>5

\* g goes from a by steps of F, which are told their number, up to the n-th.
Goes(g, n, V, a, F) == g \in [0 .. n -> V] /\ g[0] = a /\ \A k \in 1 .. n : g[k] = F[<<k, g[k - 1]>>]

(* What a recursion computes step by step exists.                             *)
LEMMA Recursion ==
    ASSUME NEW V, NEW a \in V, NEW F \in [Nat \X V -> V], NEW n \in Nat
    PROVE  \E g : Goes(g, n, V, a, F)
<1> DEFINE R == {m \in Nat : \E g : Goes(g, m, V, a, F)}
<1>1. 0 \in R
  <2>1. PICK g : g = [k \in 0 .. 0 |-> a]
    OBVIOUS
  <2>2. Goes(g, 0, V, a, F)
    BY <2>1 DEF Goes
  <2>3. QED
    BY <2>2
<1>2. ASSUME NEW m \in R PROVE m + 1 \in R
  <2>1. m \in Nat
    OBVIOUS
  <2>2. PICK g : Goes(g, m, V, a, F)
    OBVIOUS
  <2>3. g \in [0 .. m -> V] /\ g[0] = a /\ \A k \in 1 .. m : g[k] = F[<<k, g[k - 1]>>]
    BY <2>2 DEF Goes
  <2>4. PICK y : y = F[<<m + 1, g[m]>>]
    OBVIOUS
  <2>5. m \in 0 .. m /\ 0 \in 0 .. m
    BY <2>1
  <2>6. <<m + 1, g[m]>> \in Nat \X V
    BY <2>1, <2>3, <2>5
  <2>7. y \in V
    BY <2>4, <2>6
  <2>8. PICK h : h = [k \in 0 .. m + 1 |-> IF k = m + 1 THEN y ELSE g[k]]
    OBVIOUS
  <2>9. \A k \in 0 .. m + 1 : k # m + 1 => k \in 0 .. m /\ h[k] = g[k]
    BY <2>1, <2>8
  <2>10. h[m + 1] = y /\ h[m] = g[m] /\ h[0] = a
    BY <2>1, <2>3, <2>8, <2>9
  <2>11. h \in [0 .. m + 1 -> V]
    BY <2>3, <2>7, <2>8, <2>9
  <2>12. ASSUME NEW k \in 1 .. m + 1 PROVE h[k] = F[<<k, h[k - 1]>>]
    <3>1. CASE k = m + 1
      <4>1. k - 1 = m
        BY <2>1, <3>1
      <4>2. QED
        BY <2>4, <2>10, <3>1, <4>1
    <3>2. CASE k # m + 1
      <4>1. k \in 1 .. m /\ k \in 0 .. m + 1 /\ k - 1 \in 0 .. m + 1 /\ k - 1 # m + 1
        BY <2>1, <3>2
      <4>2. h[k] = g[k] /\ h[k - 1] = g[k - 1]
        BY <2>9, <3>2, <4>1
      <4>3. QED
        BY <2>3, <4>1, <4>2
    <3>3. QED
      BY <3>1, <3>2
  <2>13. Goes(h, m + 1, V, a, F)
    BY <2>10, <2>11, <2>12 DEF Goes
  <2>14. QED
    BY <2>1, <2>13
<1>3. R = Nat
  <2>1. R \in SUBSET Nat
    OBVIOUS
  <2> HIDE DEF R
  <2>2. QED
    BY <1>1, <1>2, <2>1, Induction
<1>4. QED
  BY <1>3

(* A set of numbers with a bound has a greatest one.                          *)
LEMMA GreatestExists ==
    ASSUME NEW R \in SUBSET Nat, R # {}, NEW b \in Nat, \A r \in R : r <= b
    PROVE  \E n \in R : \A m \in R : m <= n
<1>1. PICK Q : Q = {k \in Nat : \E r \in R : k = b - r}
  OBVIOUS
<1>2. PICK r0 \in R : TRUE
  OBVIOUS
<1>3. Q \in SUBSET Nat /\ b - r0 \in Q
  BY <1>1, <1>2
<1>4. PICK q \in Q : \A p \in Q : q <= p
  BY <1>3, LeastExists
<1>5. PICK r \in R : q = b - r
  BY <1>1, <1>4
<1>6. ASSUME NEW m \in R PROVE m <= r
  <2>1. b - m \in Q
    BY <1>1
  <2>2. b - r <= b - m
    BY <1>4, <1>5, <2>1
  <2>3. QED
    BY <2>2
<1>7. QED
  BY <1>6

(* The rightmost of some numbers that have a bound is the greatest of them.   *)
LEMMA RightmostOK ==
    ASSUME NEW I \in SUBSET Nat, I # {}, NEW b \in Nat, \A r \in I : r <= b
    PROVE  Rightmost(I) \in I /\ \A m \in I : m <= Rightmost(I)
<1>1. PICK n \in I : \A m \in I : m <= n
  BY GreatestExists
<1>2. QED
  BY <1>1 DEF Rightmost

-----------------------------------------------------------------------------
(* The depth of parentheses.                                                  *)

Count(s, w, k) == Cardinality({j \in 1 .. k : s[j] = w})

(* How often a token comes among the first ones of a rule, one by one.        *)
LEMMA CountStep ==
    ASSUME NEW s, NEW w
    PROVE  /\ Count(s, w, 0) = 0
           /\ \A k \in Nat : Count(s, w, k) \in Nat
           /\ \A k \in Nat : Count(s, w, k + 1) = Count(s, w, k) + IF s[k + 1] = w THEN 1 ELSE 0
<1>1. Count(s, w, 0) = 0
  <2>1. {j \in 1 .. 0 : s[j] = w} = {}
    OBVIOUS
  <2>2. QED
    BY <2>1, FS_EmptySet DEF Count
<1>2. ASSUME NEW k \in Nat PROVE IsFiniteSet({j \in 1 .. k : s[j] = w}) /\ Count(s, w, k) \in Nat
  <2>1. PICK I : I = {j \in 1 .. k : s[j] = w}
    OBVIOUS
  <2>2. I \in SUBSET (1 .. k)
    BY <2>1
  <2>3. IsFiniteSet(1 .. k)
    BY FS_Interval
  <2>4. IsFiniteSet(I)
    BY <2>2, <2>3, FS_Subset
  <2>5. Cardinality(I) \in Nat
    BY <2>4, FS_CardinalityType
  <2>6. QED
    BY <2>1, <2>4, <2>5 DEF Count
<1>3. ASSUME NEW k \in Nat PROVE Count(s, w, k + 1) = Count(s, w, k) + IF s[k + 1] = w THEN 1 ELSE 0
  <2>1. PICK I : I = {j \in 1 .. k : s[j] = w}
    OBVIOUS
  <2>2. PICK J : J = {j \in 1 .. k + 1 : s[j] = w}
    OBVIOUS
  <2>3. IsFiniteSet(I) /\ Cardinality(I) \in Nat /\ Cardinality(I) = Count(s, w, k) /\ Cardinality(J) = Count(s, w, k + 1)
    BY <1>2, <2>1, <2>2 DEF Count
  <2>4. k + 1 \notin I
    BY <2>1
  <2>5. CASE s[k + 1] = w
    <3>1. J = I \cup {k + 1}
      BY <2>1, <2>2, <2>5
    <3>2. Cardinality(J) = Cardinality(I) + 1
      BY <2>3, <2>4, <3>1, FS_AddElement
    <3>3. QED
      BY <2>3, <2>5, <3>2
  <2>6. CASE s[k + 1] # w
    <3>1. J = I
      BY <2>1, <2>2, <2>6
    <3>2. QED
      BY <2>3, <2>6, <3>1
  <2>7. QED
    BY <2>5, <2>6
<1>4. QED
  BY <1>1, <1>2, <1>3

(* A parenthesis changes the depth by one.                                    *)
LEMMA DepthStep ==
    ASSUME NEW s
    PROVE  /\ Depth(s, 0) = 0 /\ \A k \in Nat : Depth(s, k) \in Int
           /\ \A k \in Nat : Depth(s, k + 1) = IF s[k + 1] = "(" THEN Depth(s, k) + 1
                                               ELSE IF s[k + 1] = ")" THEN Depth(s, k) - 1 ELSE Depth(s, k)
<1>1. \A k \in Nat : Depth(s, k) = Count(s, "(", k) - Count(s, ")", k)
  BY DEF Depth, Count
<1>2. QED
  BY <1>1, CountStep

(* Depth is that of what was read so far.                                     *)
LEMMA DepthPrefix ==
    ASSUME NEW s, NEW t, NEW k \in Nat, \A j \in 1 .. k : s[j] = t[j]
    PROVE  Depth(s, k) = Depth(t, k)
<1>1. {j \in 1 .. k : s[j] = "("} = {j \in 1 .. k : t[j] = "("}
  OBVIOUS
<1>2. {j \in 1 .. k : s[j] = ")"} = {j \in 1 .. k : t[j] = ")"}
  OBVIOUS
<1>3. QED
  BY <1>1, <1>2 DEF Depth
-----------------------------------------------------------------------------
(* What parser_tokenize takes.                                                *)

Token == Word \ {"x"}

\* The token w may come after last.
Fits(last, w) ==
    /\ w \in {"(", "f", "true"} => last \notin Operand
    /\ w = ")" => last \notin Operator \cup {"("}
    /\ w \in {"&&", "||"} => last \in Operand
    /\ w = "!" => last \in {"T_NONE", "&&", "||", "("}

Before(s, k) == IF k = 1 THEN "T_NONE" ELSE s[k - 1]

\* Each token fits, and no parenthesis is closed that was not opened.
Readable(s) ==
    /\ s \in Seq(Token)
    /\ \A k \in 1 .. Len(s) : Fits(Before(s, k), s[k])
    /\ \A k \in 0 .. Len(s) : Depth(s, k) \in Nat

Complete(s) == Readable(s) /\ Depth(s, Len(s)) = 0 /\ (s # <<>> => s[Len(s)] \in Operand)

ParserInv ==
    /\ ParserTypeOK /\ Readable(tokens)
    /\ open_parens = Depth(tokens, Len(tokens)) + IF func_token = "arg" THEN 1 ELSE 0
    /\ parsed = "tokens" => open_parens = 0 /\ last_token \notin Operator

(* A rule that parser_tokenize takes has closed its parentheses, and ends     *)
(* with an operand.                                                           *)
LEMMA TokensComplete ==
    ASSUME ParserInv, parsed = "tokens"
    PROVE  Complete(tokens)
<1>1. PICK n \in Nat : n = Len(tokens)
  BY DEF ParserInv, Readable
<1>2. Readable(tokens) /\ Depth(tokens, n) \in Nat
  BY <1>1 DEF ParserInv, Readable
<1>3. Depth(tokens, n) = 0
  BY <1>1, <1>2 DEF ParserInv
<1>4. ASSUME tokens # <<>> PROVE tokens[n] \in Operand
  <2>1. n # 0 /\ tokens[n] \in Token
    BY <1>1, <1>4 DEF ParserInv, Readable
  <2>2. PICK m \in Nat : n = m + 1
    BY <2>1
  <2>3. Depth(tokens, m) \in Nat
    BY <1>1, <1>2, <2>2 DEF Readable
  <2>4. tokens[n] # "("
    BY <1>3, <2>2, <2>3, DepthStep
  <2>5. tokens[n] \notin Operator
    BY <1>1, <1>4 DEF ParserInv, last_token
  <2>6. QED
    BY <2>1, <2>4, <2>5 DEF Token, Word, Operand, Operator
<1>5. QED
  BY <1>1, <1>2, <1>3, <1>4 DEF Complete

(* Nothing is read at first.                                                  *)
LEMMA InitParserInv == parserInit => ParserInv
<1> SUFFICES ASSUME parserInit PROVE ParserInv
  OBVIOUS
<1>1. tokens = <<>> /\ Len(tokens) = 0 /\ tokens \in Seq(Token)
  BY DEF parserInit
<1>2. Depth(tokens, 0) = 0
  BY DepthStep
<1>3. Readable(tokens)
  BY <1>1, <1>2 DEF Readable
<1>4. ParserTypeOK
  BY MaxTextAssumption DEF parserInit, ParserTypeOK
<1>5. QED
  BY <1>1, <1>2, <1>3, <1>4 DEF ParserInv, parserInit

(* A token more.                                                              *)
LEMMA TokenAdded ==
    ASSUME Readable(tokens), NEW w \in Token, Follows(w), w = ")" => Depth(tokens, Len(tokens)) > 0
    PROVE  /\ Readable(Append(tokens, w)) /\ Append(tokens, w) \in Seq(Word)
           /\ Depth(Append(tokens, w), Len(Append(tokens, w))) =
                IF w = "(" THEN Depth(tokens, Len(tokens)) + 1
                ELSE IF w = ")" THEN Depth(tokens, Len(tokens)) - 1 ELSE Depth(tokens, Len(tokens))
<1>1. PICK n \in Nat : n = Len(tokens)
  BY DEF Readable
<1>2. tokens \in Seq(Token) /\ DOMAIN tokens = 1 .. n
  BY <1>1 DEF Readable
<1>3. PICK s : s = Append(tokens, w)
  OBVIOUS
<1>4. s \in Seq(Token) /\ Len(s) = n + 1 /\ s[n + 1] = w /\ \A k \in 1 .. n : s[k] = tokens[k]
  BY <1>1, <1>2, <1>3, AppendProperties
<1>5. s \in Seq(Word)
  <2>1. Token \subseteq Word
    BY DEF Token
  <2>2. QED
    BY <1>4, <2>1
<1>6. ASSUME NEW k \in 0 .. n PROVE Depth(s, k) = Depth(tokens, k)
  <2>1. k \in Nat /\ \A j \in 1 .. k : s[j] = tokens[j]
    BY <1>1, <1>4
  <2>2. QED
    BY <2>1, DepthPrefix
<1>7. PICK d \in Nat : d = Depth(tokens, n)
  BY <1>1 DEF Readable
<1>8. Depth(s, n + 1) = IF w = "(" THEN d + 1 ELSE IF w = ")" THEN d - 1 ELSE d
  <2>1. Depth(s, n) = d
    BY <1>1, <1>6, <1>7
  <2>2. QED
    BY <1>1, <1>4, <2>1, DepthStep
<1>9. Depth(s, n + 1) \in Nat
  BY <1>1, <1>7, <1>8
<1>10. \A k \in 0 .. n + 1 : Depth(s, k) \in Nat
  <2>1. ASSUME NEW k \in 0 .. n + 1, k # n + 1 PROVE Depth(s, k) \in Nat
    <3>1. k \in 0 .. n
      BY <1>1, <2>1
    <3>2. QED
      BY <1>1, <1>6, <3>1 DEF Readable
  <2>2. QED
    BY <1>9, <2>1
<1>11. ASSUME NEW k \in 1 .. n + 1 PROVE Fits(Before(s, k), s[k])
  <2>1. CASE k = n + 1
    <3>1. Before(s, k) = last_token
      <4>1. CASE n = 0
        BY <1>1, <1>2, <2>1, <4>1 DEF Before, last_token
      <4>2. CASE n # 0
        <5>1. tokens # <<>> /\ k # 1 /\ k - 1 = n /\ n \in 1 .. n
          BY <1>1, <1>2, <2>1, <4>2
        <5>2. QED
          BY <1>1, <1>4, <5>1 DEF Before, last_token
      <4>3. QED
        BY <4>1, <4>2
    <3>2. QED
      BY <1>4, <2>1, <3>1 DEF Fits, Follows
  <2>2. CASE k # n + 1
    <3>1. k \in 1 .. n /\ (k # 1 => k - 1 \in 1 .. n)
      BY <1>1, <2>2
    <3>2. s[k] = tokens[k] /\ Before(s, k) = Before(tokens, k)
      BY <1>4, <3>1 DEF Before
    <3>3. QED
      BY <1>1, <3>1, <3>2 DEF Readable
  <2>3. QED
    BY <2>1, <2>2
<1>12. Readable(s)
  BY <1>4, <1>10, <1>11 DEF Readable
<1>13. QED
  BY <1>1, <1>3, <1>4, <1>5, <1>7, <1>8, <1>12

(* Every word keeps ParserInv.                                                *)
LEMMA StepParserInv ==
    ASSUME ParserInv, [parserNext]_parserVars
    PROVE  ParserInv'
<1>1. CASE UNCHANGED parserVars
  <2>1. last_token' = last_token
    BY <1>1 DEF parserVars, last_token
  <2>2. Readable(tokens)' /\ Depth(tokens, Len(tokens))' = Depth(tokens, Len(tokens))
    BY <1>1 DEF parserVars, ParserInv
  <2>3. QED
    BY <1>1, <2>1, <2>2 DEF parserVars, ParserInv, ParserTypeOK
<1>2. ASSUME NEW w \in Word, parser_word(w) PROVE ParserInv'
  <2>1. parsed = "reading" /\ read' = read + 1 /\ read' \in 0 .. MaxText
    BY <1>2, MaxTextAssumption DEF parser_word, ParserInv, ParserTypeOK
  <2>2. PICK d \in Nat : d = Depth(tokens, Len(tokens))
    <3>1. Len(tokens) \in 0 .. Len(tokens)
      BY DEF ParserInv, Readable
    <3>2. QED
      BY <3>1 DEF ParserInv, Readable
  <2>3. open_parens = d + IF func_token = "arg" THEN 1 ELSE 0
    BY <2>2 DEF ParserInv
  <2>4. ASSUME UNCHANGED tokens, parsed' \in {"reading", "error"}, func_token' \in {"none", "name", "arg"},
               open_parens' = d + IF func_token' = "arg" THEN 1 ELSE 0
        PROVE  ParserInv'
    <3>1. Readable(tokens)' /\ Depth(tokens, Len(tokens))' = d
      BY <2>2, <2>4 DEF ParserInv
    <3>2. open_parens' \in Nat
      BY <2>4
    <3>3. QED
      BY <2>1, <2>4, <3>1, <3>2 DEF ParserInv, ParserTypeOK
  <2>5. ASSUME NEW t \in Token, Follows(t), tokens' = Append(tokens, t), parsed' = parsed,
               func_token # "arg", func_token' \in {"none", "name"}, t = ")" => d > 0,
               open_parens' = IF t = "(" THEN open_parens + 1 ELSE IF t = ")" THEN open_parens - 1 ELSE open_parens
        PROVE  ParserInv'
    <3>1. Readable(tokens)
      BY DEF ParserInv
    <3>2. PICK s : s = Append(tokens, t)
      OBVIOUS
    <3>3. /\ Readable(s) /\ s \in Seq(Word)
          /\ Depth(s, Len(s)) = IF t = "(" THEN d + 1 ELSE IF t = ")" THEN d - 1 ELSE d
      BY <2>2, <2>5, <3>1, <3>2, TokenAdded
    <3>4. Readable(tokens)' /\ Depth(tokens, Len(tokens))' = Depth(s, Len(s)) /\ tokens' \in Seq(Word)
      BY <2>5, <3>2, <3>3
    <3>5. open_parens' = Depth(s, Len(s)) /\ open_parens' \in Nat
      BY <2>3, <2>5, <3>3
    <3>6. QED
      BY <2>1, <2>5, <3>4, <3>5 DEF ParserInv, ParserTypeOK
  <2>6. CASE Error
    BY <2>3, <2>4, <2>6 DEF Error, ParserInv, ParserTypeOK
  <2>7. CASE w = "(" /\ open_paren
    <3>1. CASE func_token = "name" /\ func_token' = "arg" /\ open_parens' = open_parens + 1 /\ UNCHANGED <<tokens, parsed>>
      <4>1. open_parens' = d + 1
        BY <2>3, <3>1
      <4>2. QED
        BY <2>1, <2>4, <3>1, <4>1
    <3>2. CASE func_token = "none" /\ Follows("(") /\ add_token("(") /\ open_parens' = open_parens + 1 /\ UNCHANGED func_token
      <4>1. "(" \in Token
        BY DEF Token, Word
      <4>2. QED
        BY <2>5, <3>2, <4>1 DEF add_token
    <3>3. QED
      BY <2>6, <2>7, <3>1, <3>2 DEF open_paren
  <2>8. CASE w = ")" /\ close_paren
    <3>1. CASE func_token = "arg" /\ func_token' = "none" /\ open_parens' = open_parens - 1 /\ UNCHANGED <<tokens, parsed>>
      <4>1. open_parens' = d
        BY <2>3, <3>1
      <4>2. QED
        BY <2>1, <2>4, <3>1, <4>1
    <3>2. CASE open_parens > 0 /\ func_token # "arg" /\ Follows(")") /\ add_token(")") /\ open_parens' = open_parens - 1
               /\ UNCHANGED func_token
      <4>1. ")" \in Token /\ d > 0
        BY <2>3, <3>2 DEF Token, Word
      <4>2. func_token' \in {"none", "name"}
        BY <3>2 DEF ParserInv, ParserTypeOK
      <4>3. QED
        BY <2>5, <3>2, <4>1, <4>2 DEF add_token
    <3>3. QED
      BY <2>6, <2>8, <3>1, <3>2 DEF close_paren
  <2>9. CASE argument(w)
    BY <2>1, <2>3, <2>4, <2>9 DEF argument
  <2>10. CASE operator(w)
    <3>1. CASE Follows(w) /\ add_token(w) /\ UNCHANGED <<func_token, open_parens>>
      <4>1. w \in Token /\ w # "(" /\ w # ")"
        BY <2>10 DEF operator, Operator, Token, Word
      <4>2. func_token' \in {"none", "name"} /\ func_token # "arg"
        BY <2>10, <3>1 DEF ParserInv, ParserTypeOK, operator
      <4>3. QED
        BY <2>5, <3>1, <4>1, <4>2 DEF add_token
    <3>2. QED
      BY <2>6, <2>10, <3>1 DEF operator
  <2>11. CASE name(w)
    <3>1. CASE Follows(w) /\ w # "x" /\ add_token(w) /\ func_token' = (IF w = "f" THEN "name" ELSE "none") /\ UNCHANGED open_parens
      <4>1. w \in Token /\ w # "(" /\ w # ")" /\ func_token # "arg"
        BY <2>11, <3>1 DEF name, Token, Word
      <4>2. func_token' \in {"none", "name"}
        BY <3>1
      <4>3. QED
        BY <2>5, <3>1, <4>1, <4>2 DEF add_token
    <3>2. QED
      BY <2>6, <2>11, <3>1 DEF name
  <2>12. QED
    BY <1>2, <2>7, <2>8, <2>9, <2>10, <2>11 DEF parser_word
<1>3. CASE parser_end
  <2>1. UNCHANGED <<read, tokens, func_token, open_parens>> /\ parsed' \in {"error", "tokens"}
        /\ (parsed' = "tokens" => ~(open_parens > 0 \/ last_token \in Operator))
    BY <1>3 DEF parser_end
  <2>2. last_token' = last_token
    BY <2>1 DEF last_token
  <2>3. Readable(tokens)' /\ Depth(tokens, Len(tokens))' = Depth(tokens, Len(tokens))
    BY <2>1 DEF ParserInv
  <2>4. parsed' = "tokens" => open_parens' = 0 /\ last_token' \notin Operator
    BY <2>1, <2>2 DEF ParserInv, ParserTypeOK
  <2>5. QED
    BY <2>1, <2>3, <2>4 DEF ParserInv, ParserTypeOK
<1>4. QED
  BY <1>1, <1>2, <1>3 DEF parserNext
-----------------------------------------------------------------------------
(* How parser_execute goes.                                                   *)

\* x is a state of the execution after the k-th token.
OnTrack(x, s, k) == x \in Execution(s) /\ (x.result = "unknown" => x.depth = Depth(s, k) + 1)

Begin(s) == [depth |-> 1, calls |-> [d \in 1 .. Len(s) + 1 |-> NewFrame], result |-> "unknown"]

Runs(e, s, v) ==
    /\ e[0] = Begin(s) /\ \A k \in 1 .. Len(s) : e[k] = parser_execute_recursive(e[k - 1], s[k], v)
    /\ \A k \in 0 .. Len(s) : OnTrack(e[k], s, k)

(* A call has neither an operand nor an operator at first.                    *)
LEMMA NewFrameOK ==
    /\ NewFrame \in Frame /\ NewFrame.lhs = "NONE" /\ NewFrame.rhs = "NONE"
    /\ NewFrame.op = "T_NONE" /\ NewFrame.neg = FALSE
BY DEF NewFrame, Frame, Value

(* Evaluating what a call has leaves a call, and its negation alone.          *)
LEMMA parser_eval_binaryOK ==
    ASSUME NEW l \in Frame
    PROVE  parser_eval_binary(l) \in Frame /\ parser_eval_binary(l).neg = l.neg
BY DEF parser_eval_binary, Frame, Value, Bool

(* A function says something, whether it is called or not.                    *)
LEMMA CalledOK == ASSUME NEW l, NEW v \in Value PROVE Called(l, v) \in Value
BY DEF Called, Value

(* A call that takes an operand is a call.                                    *)
LEMMA TakeOK ==
    ASSUME NEW l \in Frame, NEW r \in Value
    PROVE  Take(l, r) \in Frame
<1>1. PICK value \in Value : value = IF l.neg THEN Not(r) ELSE r
  BY DEF Not, Bool, Value
<1>2. Take(l, r) = IF l.lhs = "NONE" THEN [l EXCEPT !.lhs = value, !.neg = FALSE]
                   ELSE [l EXCEPT !.rhs = IF @ = "NONE" THEN value ELSE @, !.neg = FALSE]
  BY <1>1 DEF Take
<1>3. QED
  BY <1>2 DEF Frame

(* No more parentheses are open than tokens were read.                        *)
LEMMA DepthBound ==
    ASSUME NEW s, NEW k \in Nat
    PROVE  Depth(s, k) <= k
<1> DEFINE R == {n \in Nat : Depth(s, n) <= n}
<1>1. 0 \in R
  BY DepthStep
<1>2. ASSUME NEW n \in R PROVE n + 1 \in R
  BY DepthStep
<1>3. R \in SUBSET Nat
  OBVIOUS
<1> HIDE DEF R
<1>4. R = Nat
  BY <1>1, <1>2, <1>3, Induction
<1>5. QED
  BY <1>4 DEF R

(* The call that gets an operand.                                             *)
LEMMA GivenOK ==
    ASSUME NEW s \in Seq(Token), NEW d \in 1 .. Len(s) + 1, NEW calls \in [1 .. Len(s) + 1 -> Frame], NEW r \in Value
    PROVE  Given(d, calls, r) \in Execution(s) /\ Given(d, calls, r).depth = d
<1>1. Take(calls[d], r) \in Frame
  BY TakeOK
<1>2. [calls EXCEPT ![d] = Take(@, r)] \in [1 .. Len(s) + 1 -> Frame]
  BY <1>1
<1>3. QED
  BY <1>2 DEF Given, Execution, Value

(* What a token does to the calls that are under way.                         *)
LEMMA StepOnTrack ==
    ASSUME NEW s, Readable(s), NEW k \in 1 .. Len(s), NEW v \in Value, NEW x, OnTrack(x, s, k - 1)
    PROVE  OnTrack(parser_execute_recursive(x, s[k], v), s, k)
<1>1. PICK n \in Nat : n = Len(s)
  BY DEF Readable
<1>2. s \in Seq(Token) /\ s[k] \in Token
  BY DEF Readable
<1>3. x \in Execution(s) /\ x.depth \in 1 .. n + 1 /\ x.calls \in [1 .. n + 1 -> Frame] /\ x.result \in Value \cup {"unknown"}
  BY <1>1 DEF OnTrack, Execution
<1>4. PICK y : y = parser_execute_recursive(x, s[k], v)
  OBVIOUS
<1>5. CASE x.result # "unknown"
  <2>1. y = x
    BY <1>4, <1>5 DEF parser_execute_recursive
  <2>2. QED
    BY <1>3, <1>4, <1>5, <2>1 DEF OnTrack
<1>6. CASE x.result = "unknown"
  <2>1. PICK d \in 1 .. n + 1 : d = x.depth
    BY <1>3
  <2>2. Depth(s, k - 1) \in Nat /\ Depth(s, k) \in Nat /\ d = Depth(s, k - 1) + 1
    <3>1. k - 1 \in 0 .. n /\ k \in 0 .. n
      BY <1>1
    <3>2. Depth(s, k - 1) \in Nat /\ Depth(s, k) \in Nat
      BY <1>1, <3>1 DEF Readable
    <3>3. QED
      BY <1>6, <2>1, <3>2 DEF OnTrack
  <2>3. Depth(s, k) = IF s[k] = "(" THEN Depth(s, k - 1) + 1 ELSE IF s[k] = ")" THEN Depth(s, k - 1) - 1 ELSE Depth(s, k - 1)
    <3>1. k - 1 \in Nat /\ (k - 1) + 1 = k
      BY <1>1
    <3>2. QED
      BY <3>1, DepthStep
  <2>4. PICK l \in Frame : l = parser_eval_binary(x.calls[d])
    BY <1>3, parser_eval_binaryOK
  <2>5. PICK ready \in [1 .. n + 1 -> Frame] : ready = [x.calls EXCEPT ![d] = l]
    BY <1>3
  <2>6. CASE s[k] = "("
    <3>1. y = [x EXCEPT !.depth = d + 1, !.calls = [ready EXCEPT ![d + 1] = NewFrame]]
      BY <1>4, <1>6, <2>1, <2>4, <2>5, <2>6 DEF parser_execute_recursive
    <3>2. d + 1 \in 1 .. n + 1 /\ d + 1 = Depth(s, k) + 1
      BY <1>1, <2>2, <2>3, <2>6, DepthBound
    <3>3. [ready EXCEPT ![d + 1] = NewFrame] \in [1 .. n + 1 -> Frame]
      BY NewFrameOK
    <3>4. y \in Execution(s) /\ y.depth = d + 1
      BY <1>1, <1>3, <3>1, <3>2, <3>3 DEF Execution
    <3>5. QED
      BY <1>4, <3>2, <3>4 DEF OnTrack
  <2>7. CASE s[k] = ")"
    <3>1. d # 1 /\ d - 1 \in 1 .. n + 1 /\ d - 1 = Depth(s, k) + 1
      BY <2>2, <2>3, <2>7
    <3>2. y = Given(d - 1, ready, l.lhs)
      BY <1>4, <1>6, <2>1, <2>4, <2>5, <2>7, <3>1 DEF parser_execute_recursive
    <3>3. l.lhs \in Value
      BY DEF Frame
    <3>4. y \in Execution(s) /\ y.depth = d - 1
      BY <1>1, <1>2, <3>1, <3>2, <3>3, GivenOK
    <3>5. QED
      BY <1>4, <3>1, <3>4 DEF OnTrack
  <2>8. ASSUME NEW f \in Frame, y = [x EXCEPT !.calls = [ready EXCEPT ![d] = f]], Depth(s, k) = Depth(s, k - 1)
        PROVE  OnTrack(y, s, k)
    <3>1. [ready EXCEPT ![d] = f] \in [1 .. n + 1 -> Frame]
      OBVIOUS
    <3>2. y \in Execution(s) /\ y.depth = d
      BY <1>1, <1>3, <2>1, <2>8, <3>1 DEF Execution
    <3>3. QED
      BY <2>2, <2>8, <3>2 DEF OnTrack
  <2>9. CASE s[k] = "!"
    <3>1. y = [x EXCEPT !.calls = [ready EXCEPT ![d] = [l EXCEPT !.neg = ~@]]]
      BY <1>4, <1>6, <2>1, <2>4, <2>5, <2>9 DEF parser_execute_recursive
    <3>2. PICK f \in Frame : f = [l EXCEPT !.neg = ~@]
      BY DEF Frame
    <3>3. y = [x EXCEPT !.calls = [ready EXCEPT ![d] = f]]
      BY <3>1, <3>2
    <3>4. QED
      BY <1>4, <2>3, <2>8, <2>9, <3>3
  <2>10. CASE s[k] \in {"&&", "||"}
    <3>1. y = [x EXCEPT !.calls = [ready EXCEPT ![d] = [l EXCEPT !.op = s[k]]]]
      BY <1>4, <1>6, <2>1, <2>4, <2>5, <2>10 DEF parser_execute_recursive
    <3>2. PICK f \in Frame : f = [l EXCEPT !.op = s[k]]
      BY <2>10 DEF Frame
    <3>3. y = [x EXCEPT !.calls = [ready EXCEPT ![d] = f]]
      BY <3>1, <3>2
    <3>4. QED
      BY <1>4, <2>3, <2>8, <2>10, <3>3
  <2>11. CASE s[k] \in {"true", "f"}
    <3>1. y = Given(d, ready, IF s[k] = "f" THEN Called(l, v) ELSE "TRUE")
      BY <1>4, <1>6, <2>1, <2>4, <2>5, <2>11 DEF parser_execute_recursive
    <3>2. PICK r \in Value : r = IF s[k] = "f" THEN Called(l, v) ELSE "TRUE"
      BY CalledOK DEF Value
    <3>3. y \in Execution(s) /\ y.depth = d
      BY <1>1, <1>2, <3>1, <3>2, GivenOK
    <3>4. QED
      BY <1>4, <2>2, <2>3, <2>11, <3>3 DEF OnTrack
  <2>12. QED
    BY <1>2, <2>6, <2>7, <2>9, <2>10, <2>11 DEF Token, Word
<1>7. QED
  BY <1>5, <1>6

(* The execution begins with one call.                                        *)
LEMMA BeginOnTrack ==
    ASSUME NEW s, Readable(s)
    PROVE  OnTrack(Begin(s), s, 0)
<1>1. Len(s) \in Nat
  BY DEF Readable
<1>2. Begin(s) \in Execution(s) /\ Begin(s).depth = 1
  BY <1>1, NewFrameOK DEF Begin, Execution
<1>3. Depth(s, 0) = 0
  BY DepthStep
<1>4. Begin(s).depth = Depth(s, 0) + 1
  BY <1>2, <1>3
<1>5. QED
  BY <1>2, <1>4 DEF OnTrack

(* Executing is what the recursion says.                                      *)
LEMMA ExecutingRuns ==
    ASSUME NEW s, Readable(s), NEW v \in Value
    PROVE  Runs(Executing(s, v), s, v)
<1>1. PICK n \in Nat : n = Len(s)
  BY DEF Readable
<1> DEFINE V == Execution(s)
           Step(k, x) == parser_execute_recursive(x, s[k], v)
           F == [p \in Nat \X V |-> IF Step(p[1], p[2]) \in V THEN Step(p[1], p[2]) ELSE Begin(s)]
           Body(g) == [k \in 0 .. n |-> IF k = 0 THEN Begin(s) ELSE Step(k, g[k - 1])]
           run == CHOOSE g : g = Body(g)
<1>2. Begin(s) \in V
  BY BeginOnTrack DEF OnTrack
<1>3. F \in [Nat \X V -> V]
  BY <1>2
<1>4. \A k \in Nat, x \in V : F[<<k, x>>] = IF Step(k, x) \in V THEN Step(k, x) ELSE Begin(s)
  OBVIOUS
<1>5. ASSUME NEW k \in 1 .. n, NEW x, OnTrack(x, s, k - 1) PROVE OnTrack(Step(k, x), s, k) /\ Step(k, x) \in V
  BY <1>1, <1>5, StepOnTrack DEF OnTrack
<1>6. Executing(s, v) = run
  BY <1>1 DEF Executing, Begin
<1> HIDE DEF V, F, Step
<1>7. PICK h : Goes(h, n, V, Begin(s), F)
  BY <1>2, <1>3, Recursion
<1>8. h \in [0 .. n -> V] /\ h[0] = Begin(s) /\ \A k \in 1 .. n : h[k] = F[<<k, h[k - 1]>>]
  BY <1>7 DEF Goes
<1>9. \A k \in 0 .. n : OnTrack(h[k], s, k)
  <2> DEFINE R == {k \in Nat : k <= n => OnTrack(h[k], s, k)}
  <2>1. 0 \in R
    BY <1>8, BeginOnTrack
  <2>2. ASSUME NEW k \in R PROVE k + 1 \in R
    <3>1. SUFFICES ASSUME k + 1 <= n PROVE OnTrack(h[k + 1], s, k + 1)
      OBVIOUS
    <3>2. k + 1 \in 1 .. n /\ (k + 1) - 1 = k /\ k \in 0 .. n /\ OnTrack(h[k], s, k)
      BY <3>1
    <3>3. OnTrack(Step(k + 1, h[k]), s, k + 1) /\ Step(k + 1, h[k]) \in V
      BY <1>5, <3>2
    <3>4. h[k + 1] = F[<<k + 1, h[k]>>] /\ h[k] \in V /\ k + 1 \in Nat
      BY <1>8, <3>2
    <3>6. h[k + 1] = Step(k + 1, h[k])
      BY <1>4, <3>3, <3>4
    <3>5. QED
      BY <3>3, <3>6
  <2>3. R \in SUBSET Nat
    OBVIOUS
  <2> HIDE DEF R
  <2>4. R = Nat
    BY <2>1, <2>2, <2>3, Induction
  <2>5. QED
    BY <2>4 DEF R
<1>10. \A k \in 1 .. n : h[k] = Step(k, h[k - 1])
  <2> TAKE k \in 1 .. n
  <2>1. k - 1 \in 0 .. n /\ k \in Nat
    OBVIOUS
  <2>2. Step(k, h[k - 1]) \in V
    BY <1>5, <1>9, <2>1
  <2>3. QED
    BY <1>4, <1>8, <2>1, <2>2
<1>11. h = Body(h)
  BY <1>8, <1>10
<1>12. run = Body(run)
  <2> HIDE DEF Body
  <2>1. QED
    BY <1>11
<1> HIDE DEF run
<1>13. run[0] = Begin(s) /\ \A k \in 1 .. n : run[k] = Step(k, run[k - 1])
  BY <1>12
<1>14. \A k \in 0 .. n : OnTrack(run[k], s, k)
  <2> DEFINE R == {k \in Nat : k <= n => OnTrack(run[k], s, k)}
  <2>1. 0 \in R
    BY <1>13, BeginOnTrack
  <2>2. ASSUME NEW k \in R PROVE k + 1 \in R
    <3>1. SUFFICES ASSUME k + 1 <= n PROVE OnTrack(run[k + 1], s, k + 1)
      OBVIOUS
    <3>2. k + 1 \in 1 .. n /\ (k + 1) - 1 = k /\ OnTrack(run[k], s, k)
      BY <3>1
    <3>3. OnTrack(Step(k + 1, run[k]), s, k + 1)
      BY <1>5, <3>2
    <3>4. QED
      BY <1>13, <3>2, <3>3
  <2>3. R \in SUBSET Nat
    OBVIOUS
  <2> HIDE DEF R
  <2>4. R = Nat
    BY <2>1, <2>2, <2>3, Induction
  <2>5. QED
    BY <2>4 DEF R
<1>15. \A k \in 1 .. n : run[k] = parser_execute_recursive(run[k - 1], s[k], v)
  BY <1>13 DEF Step
<1>16. Runs(run, s, v)
  BY <1>1, <1>13, <1>14, <1>15 DEF Runs
<1>17. QED
  BY <1>6, <1>16
-----------------------------------------------------------------------------
(* What rules mean.                                                           *)

Means(m, s, v) ==
    /\ \A n \in 0 .. Len(s) : m[n] \in [Segments(s) -> Value]
    /\ \A p \in Segments(s) : m[0][p] = "NONE"
    /\ \A n \in 1 .. Len(s) : \A i \in 1 .. Len(s) + 1, j \in 0 .. Len(s) :
           m[n][<<i, j>>] = Expression(s, v, m[n - 1], i, j)

(* An expression has a value if shorter ones have.                            *)
LEMMA ExpressionOK ==
    ASSUME NEW s \in Seq(Token), NEW v \in Value, NEW m \in [Segments(s) -> Value],
           NEW i \in 1 .. Len(s) + 1, NEW j \in 0 .. Len(s)
    PROVE  Expression(s, v, m, i, j) \in Value
<1>1. PICK n \in Nat : n = Len(s)
  OBVIOUS
<1>2. \A p \in 1 .. n + 1, q \in 0 .. n : m[<<p, q>>] \in Value
  BY <1>1 DEF Segments
<1>3. "NONE" \in Value /\ "TRUE" \in Value /\ \A x : Bool(x) \in Value /\ Not(x) \in Value
  BY DEF Value, Bool, Not
<1>4. \A k : Operation(s, m, i, k, j) \in Value
  BY <1>3 DEF Operation
<1>5. CASE j < i
  BY <1>3, <1>5 DEF Expression
<1>6. CASE ~(j < i) /\ Splits(s, i, j) # {}
  BY <1>4, <1>6 DEF Expression
<1>7. CASE ~(j < i) /\ Splits(s, i, j) = {}
  <2>1. i + 1 \in 1 .. n + 1 /\ j \in 0 .. n
    BY <1>1, <1>7
  <2>2. m[<<i + 1, j>>] \in Value
    BY <1>2, <2>1
  <2>3. ~(j < i + 2) => m[<<i + 1, j - 1>>] \in Value
    <3>1. SUFFICES ASSUME ~(j < i + 2) PROVE m[<<i + 1, j - 1>>] \in Value
      OBVIOUS
    <3>2. j - 1 \in 0 .. n
      BY <1>1, <3>1
    <3>3. QED
      BY <1>2, <2>1, <3>2
  <2>4. QED
    BY <1>3, <1>7, <2>2, <2>3 DEF Expression
<1>8. QED
  BY <1>5, <1>6, <1>7

(* The meaning of a part comes from those of shorter ones.                    *)
LEMMA MeansStep ==
    ASSUME NEW s, NEW v, NEW m, Means(m, s, v), NEW n \in 1 .. Len(s), NEW i \in 1 .. Len(s) + 1, NEW j \in 0 .. Len(s)
    PROVE  m[n][<<i, j>>] = Expression(s, v, m[n - 1], i, j)
BY DEF Means

(* Meanings is what the recursion says.                                       *)
LEMMA MeaningsMean ==
    ASSUME NEW s \in Seq(Token), NEW v \in Value
    PROVE  Means(Meanings(s, v), s, v)
<1>1. PICK N \in Nat : N = Len(s)
  OBVIOUS
<1> DEFINE V == [Segments(s) -> Value]
           Step(n, m) == [p \in Segments(s) |-> Expression(s, v, m, p[1], p[2])]
           None == [p \in Segments(s) |-> "NONE"]
           F == [p \in Nat \X V |-> Step(p[1], p[2])]
           Body(g) == [n \in 0 .. N |-> [p \in Segments(s) |-> IF n = 0 THEN "NONE" ELSE Expression(s, v, g[n - 1], p[1], p[2])]]
           meaning == CHOOSE g : g = Body(g)
<1>2. None \in V
  BY DEF Value
<1>3. ASSUME NEW n \in Nat, NEW m \in V PROVE Step(n, m) \in V
  <2>1. ASSUME NEW p \in Segments(s) PROVE Expression(s, v, m, p[1], p[2]) \in Value
    <3>1. p[1] \in 1 .. Len(s) + 1 /\ p[2] \in 0 .. Len(s)
      BY DEF Segments
    <3>2. QED
      BY <3>1, ExpressionOK
  <2>2. QED
    BY <2>1
<1>4. \A n \in Nat, m \in V : F[<<n, m>>] = Step(n, m)
  OBVIOUS
<1>5. F \in [Nat \X V -> V]
  <2>1. \A p \in Nat \X V : Step(p[1], p[2]) \in V
    BY <1>3
  <2> HIDE DEF Step, V
  <2>2. QED
    BY <2>1
<1>6. Meanings(s, v) = meaning
  BY <1>1 DEF Meanings
<1> HIDE DEF V, F, Step, None
<1>7. PICK h : Goes(h, N, V, None, F)
  BY <1>2, <1>5, Recursion
<1>8. h \in [0 .. N -> V] /\ h[0] = None /\ \A k \in 1 .. N : h[k] = F[<<k, h[k - 1]>>]
  BY <1>7 DEF Goes
<1>9. \A k \in 1 .. N : h[k] = Step(k, h[k - 1])
  <2> TAKE k \in 1 .. N
  <2>1. k - 1 \in 0 .. N /\ k \in Nat
    OBVIOUS
  <2>2. h[k - 1] \in V
    BY <1>8, <2>1
  <2>3. QED
    BY <1>4, <1>8, <2>1, <2>2
<1>10. \A g : Body(g) = [n \in 0 .. N |-> IF n = 0 THEN None ELSE Step(n, g[n - 1])]
  <2> TAKE g
  <2>1. ASSUME NEW n \in 0 .. N
        PROVE  [p \in Segments(s) |-> IF n = 0 THEN "NONE" ELSE Expression(s, v, g[n - 1], p[1], p[2])]
                 = IF n = 0 THEN None ELSE Step(n, g[n - 1])
    BY DEF None, Step
  <2>2. QED
    BY <2>1
<1>11. h = Body(h)
  <2>1. h = [n \in 0 .. N |-> IF n = 0 THEN None ELSE Step(n, h[n - 1])]
    BY <1>8, <1>9
  <2> HIDE DEF Body
  <2>2. QED
    BY <1>10, <2>1
<1>12. meaning = Body(meaning)
  <2> HIDE DEF Body
  <2>1. QED
    BY <1>11
<1> HIDE DEF meaning, Body
<1>13. meaning = [n \in 0 .. N |-> IF n = 0 THEN None ELSE Step(n, meaning[n - 1])]
  BY <1>10, <1>12
<1>14. meaning[0] = None /\ \A n \in 1 .. N : meaning[n] = Step(n, meaning[n - 1])
  BY <1>13
<1>15. \A n \in 0 .. N : meaning[n] \in V
  <2> DEFINE R == {n \in Nat : n <= N => meaning[n] \in V}
  <2>1. 0 \in R
    BY <1>2, <1>14
  <2>2. ASSUME NEW k \in R PROVE k + 1 \in R
    <3>1. SUFFICES ASSUME k + 1 <= N PROVE meaning[k + 1] \in V
      OBVIOUS
    <3>2. k + 1 \in 1 .. N /\ (k + 1) - 1 = k /\ meaning[k] \in V /\ k + 1 \in Nat
      BY <3>1
    <3>3. QED
      BY <1>3, <1>14, <3>2
  <2>3. R \in SUBSET Nat
    OBVIOUS
  <2> HIDE DEF R
  <2>4. R = Nat
    BY <2>1, <2>2, <2>3, Induction
  <2>5. QED
    BY <2>4 DEF R
<1>16. ASSUME NEW n \in 1 .. N, NEW i \in 1 .. N + 1, NEW j \in 0 .. N
       PROVE  meaning[n][<<i, j>>] = Expression(s, v, meaning[n - 1], i, j)
  <2>1. <<i, j>> \in Segments(s)
    BY <1>1 DEF Segments
  <2>2. QED
    BY <1>14, <2>1 DEF Step
<1>17. Means(meaning, s, v)
  <2>1. \A p \in Segments(s) : meaning[0][p] = "NONE"
    BY <1>14 DEF None
  <2>2. QED
    BY <1>1, <1>15, <1>16, <2>1 DEF Means, V
<1>18. QED
  BY <1>6, <1>17
-----------------------------------------------------------------------------
(* Expressions in a rule.                                                     *)

\* The tokens from the i-th to the j-th may be an expression.
Segment(s, i, j) ==
    /\ i \in 1 .. Len(s) /\ j \in i .. Len(s)
    /\ s[i] \notin {"&&", "||", ")"} /\ s[j] \in Operand
    /\ \A k \in i .. j : Depth(s, k) >= Depth(s, i - 1)
    /\ Depth(s, j) = Depth(s, i - 1)

(* A token opens a parenthesis, closes one, or leaves the depth alone.        *)
LEMMA Reading ==
    ASSUME NEW s, Readable(s), NEW k \in 1 .. Len(s)
    PROVE  /\ s[k] \in {"(", ")", "&&", "||", "!", "true", "f"}
           /\ Depth(s, k - 1) \in Nat /\ Depth(s, k) \in Nat
           /\ Depth(s, k) = IF s[k] = "(" THEN Depth(s, k - 1) + 1
                            ELSE IF s[k] = ")" THEN Depth(s, k - 1) - 1 ELSE Depth(s, k - 1)
<1>1. PICK n \in Nat : n = Len(s)
  BY DEF Readable
<1>2. s[k] \in Token
  BY DEF Readable
<1>3. k - 1 \in Nat /\ (k - 1) + 1 = k /\ k - 1 \in 0 .. n /\ k \in 0 .. n
  BY <1>1
<1>4. Depth(s, k - 1) \in Nat /\ Depth(s, k) \in Nat
  BY <1>1, <1>3 DEF Readable
<1>5. Depth(s, k) = IF s[k] = "(" THEN Depth(s, k - 1) + 1
                    ELSE IF s[k] = ")" THEN Depth(s, k - 1) - 1 ELSE Depth(s, k - 1)
  BY <1>3, DepthStep
<1>6. QED
  BY <1>2, <1>4, <1>5 DEF Token, Word

(* What may come after a token.                                               *)
LEMMA After ==
    ASSUME NEW s, Readable(s), NEW k \in 1 .. Len(s), k + 1 \in 1 .. Len(s)
    PROVE  /\ s[k] \in Operand => s[k + 1] \in {")", "&&", "||"}
           /\ s[k] \in {"&&", "||", "("} => s[k + 1] \in {"(", "!", "true", "f"}
           /\ s[k] = "!" => s[k + 1] \in {"(", "true", "f"}
           /\ s[k + 1] \in {")", "&&", "||"} => s[k] \in Operand
<1>1. s[k] \in {"(", ")", "&&", "||", "!", "true", "f"} /\ s[k + 1] \in {"(", ")", "&&", "||", "!", "true", "f"}
  BY Reading
<1>2. Fits(s[k], s[k + 1])
  <2>1. k + 1 # 1 /\ (k + 1) - 1 = k
    OBVIOUS
  <2>2. Fits(Before(s, k + 1), s[k + 1])
    BY DEF Readable
  <2>3. QED
    BY <2>1, <2>2 DEF Before
<1>3. QED
  BY <1>1, <1>2 DEF Fits, Operand, Operator

(* An operand by itself ...                                                   *)
LEMMA AtomSegment ==
    ASSUME NEW s, Readable(s), NEW i, NEW j, Segment(s, i, j), Splits(s, i, j) = {}, s[i] \in {"true", "f"}
    PROVE  i = j
<1>1. PICK n \in Nat : n = Len(s)
  BY DEF Readable
<1>2. SUFFICES ASSUME i < j PROVE FALSE
  BY <1>1 DEF Segment
<1>3. i \in 1 .. n /\ i + 1 \in 1 .. n /\ i + 1 \in i .. j /\ (i + 1) - 1 = i
  BY <1>1, <1>2 DEF Segment
<1>4. s[i + 1] \in {")", "&&", "||"}
  BY <1>1, <1>3, After DEF Operand
<1>5. Depth(s, i) = Depth(s, i - 1) /\ Depth(s, i) \in Nat
  BY <1>1, <1>3, Reading
<1>6. CASE s[i + 1] = ")"
  <2>1. Depth(s, i + 1) = Depth(s, i) - 1
    BY <1>1, <1>3, <1>6, Reading
  <2>2. Depth(s, i + 1) >= Depth(s, i - 1)
    BY <1>3 DEF Segment
  <2>3. QED
    BY <1>5, <2>1, <2>2
<1>7. CASE s[i + 1] \in {"&&", "||"}
  <2>1. Depth(s, i + 1) = Depth(s, i)
    BY <1>1, <1>3, <1>7, Reading
  <2>2. i + 1 \in Splits(s, i, j)
    BY <1>3, <1>5, <1>7, <2>1 DEF Splits
  <2>3. QED
    BY <2>2
<1>8. QED
  BY <1>4, <1>6, <1>7

(* ... negated ...                                                            *)
LEMMA NotSegment ==
    ASSUME NEW s, Readable(s), NEW i, NEW j, Segment(s, i, j), Splits(s, i, j) = {}, s[i] = "!"
    PROVE  i < j /\ s[i + 1] \in {"(", "true", "f"} /\ Segment(s, i + 1, j) /\ Splits(s, i + 1, j) = {}
<1>1. PICK n \in Nat : n = Len(s)
  BY DEF Readable
<1>2. i < j
  BY <1>1 DEF Segment, Operand
<1>3. i \in 1 .. n /\ j \in 1 .. n /\ i + 1 \in 1 .. n /\ (i + 1) - 1 = i
  BY <1>1, <1>2 DEF Segment
<1>4. s[i + 1] \in {"(", "true", "f"}
  BY <1>1, <1>3, After
<1>5. Depth(s, i) = Depth(s, i - 1)
  BY <1>1, <1>3, Reading
<1>6. Segment(s, i + 1, j)
  <2>1. \A k \in i + 1 .. j : k \in i .. j
    BY <1>3
  <2>2. \A k \in i + 1 .. j : Depth(s, k) >= Depth(s, i)
    BY <1>5, <2>1 DEF Segment
  <2>3. Depth(s, j) = Depth(s, i) /\ s[j] \in Operand
    BY <1>5 DEF Segment
  <2>4. j \in i + 1 .. n
    BY <1>2, <1>3
  <2>5. QED
    BY <1>1, <1>3, <1>4, <2>2, <2>3, <2>4 DEF Segment
<1>7. Splits(s, i + 1, j) = {}
  <2>1. \A k \in i + 1 .. j : k \in i .. j
    BY <1>3
  <2>2. Splits(s, i + 1, j) \subseteq Splits(s, i, j)
    BY <1>3, <1>5, <2>1 DEF Splits
  <2>3. QED
    BY <2>2
<1>8. QED
  BY <1>2, <1>4, <1>6, <1>7

(* ... or in parentheses, of which the last token is the second.              *)
LEMMA ParenSegment ==
    ASSUME NEW s, Readable(s), NEW i, NEW j, Segment(s, i, j), Splits(s, i, j) = {}, s[i] = "("
    PROVE  i + 2 <= j /\ s[j] = ")" /\ Segment(s, i + 1, j - 1)
<1>1. PICK n \in Nat : n = Len(s)
  BY DEF Readable
<1>2. i \in 1 .. n /\ j \in 1 .. n /\ i < j
  BY <1>1 DEF Segment, Operand
<1>3. PICK d \in Nat : d = Depth(s, i - 1)
  BY <1>1, <1>2, Reading
<1>4. Depth(s, i) = d + 1 /\ Depth(s, j) = d
  BY <1>1, <1>2, <1>3, Reading DEF Segment
<1>5. PICK R : R = {k \in i + 1 .. j : Depth(s, k) = d}
  OBVIOUS
<1>6. R \in SUBSET Nat /\ j \in R
  BY <1>2, <1>4, <1>5
<1>7. PICK q \in R : \A k \in R : q <= k
  BY <1>6, LeastExists
<1>8. q \in i + 1 .. j /\ Depth(s, q) = d /\ q \in 1 .. n /\ q - 1 \in 1 .. n
  BY <1>2, <1>5, <1>7
<1>9. \A k \in i .. q - 1 : Depth(s, k) >= d + 1
  <2> TAKE k \in i .. q - 1
  <2>1. CASE k = i
    BY <1>3, <1>4, <2>1
  <2>2. CASE k # i
    <3>1. k \in i + 1 .. j /\ k \in 1 .. n /\ ~(q <= k) /\ k \in i .. j
      BY <1>2, <1>8, <2>2
    <3>2. Depth(s, k) # d /\ Depth(s, k) >= d
      BY <1>3, <1>5, <1>7, <3>1 DEF Segment
    <3>3. Depth(s, k) \in Nat
      BY <1>1, <3>1, Reading
    <3>4. QED
      BY <1>3, <3>2, <3>3
  <2>3. QED
    BY <2>1, <2>2
<1>10. s[q] = ")" /\ Depth(s, q - 1) = d + 1
  <2>1. q - 1 \in i .. q - 1
    BY <1>2, <1>8
  <2>2. Depth(s, q - 1) >= d + 1
    BY <1>9, <2>1
  <2>3. s[q] = ")" /\ Depth(s, q) = Depth(s, q - 1) - 1 /\ Depth(s, q - 1) \in Nat
    BY <1>1, <1>3, <1>8, <2>2, Reading
  <2>4. QED
    BY <1>3, <1>8, <2>3
<1>11. q = j
  <2>1. SUFFICES ASSUME q < j PROVE FALSE
    BY <1>2, <1>8
  <2>2. q + 1 \in 1 .. n /\ q + 1 \in i .. j /\ (q + 1) - 1 = q
    BY <1>2, <1>8, <2>1
  <2>3. s[q + 1] \in {")", "&&", "||"}
    BY <1>1, <1>8, <1>10, <2>2, After DEF Operand
  <2>4. Depth(s, q + 1) >= d
    BY <1>3, <2>2 DEF Segment
  <2>5. s[q + 1] # ")"
    <3>1. s[q + 1] = ")" => Depth(s, q + 1) = Depth(s, q) - 1
      BY <1>1, <2>2, Reading
    <3>2. QED
      BY <1>3, <1>8, <2>4, <3>1
  <2>6. Depth(s, q + 1) = d
    BY <1>1, <1>8, <2>2, <2>3, <2>5, Reading
  <2>7. q + 1 \in Splits(s, i, j)
    BY <1>3, <2>2, <2>3, <2>5, <2>6 DEF Splits
  <2>8. QED
    BY <2>7
<1>12. i + 1 \in 1 .. n /\ j - 1 \in 1 .. n /\ (j - 1) + 1 = j /\ (i + 1) - 1 = i
  BY <1>2, <1>8, <1>11
<1>13. s[i + 1] \in {"(", "!", "true", "f"}
  BY <1>1, <1>2, <1>12, After
<1>14. s[j - 1] \in Operand
  <2>1. s[(j - 1) + 1] = ")" /\ (j - 1) + 1 \in 1 .. n
    BY <1>2, <1>10, <1>11, <1>12
  <2>2. QED
    BY <1>1, <1>12, <2>1, After
<1>15. i + 2 <= j
  <2>1. j # i + 1
    BY <1>10, <1>11, <1>13
  <2>2. QED
    BY <1>2, <2>1
<1>16. Segment(s, i + 1, j - 1)
  <2>1. \A k \in i + 1 .. j - 1 : Depth(s, k) >= Depth(s, i)
    BY <1>2, <1>4, <1>9, <1>11
  <2>2. Depth(s, j - 1) = Depth(s, i)
    BY <1>4, <1>10, <1>11
  <2>3. j - 1 \in i + 1 .. n
    BY <1>2, <1>15
  <2>4. QED
    BY <1>1, <1>12, <1>13, <1>14, <2>1, <2>2, <2>3 DEF Segment
<1>17. QED
  BY <1>10, <1>11, <1>15, <1>16

(* The last operator splits an expression in an expression and an operand.    *)
LEMMA SplitSegment ==
    ASSUME NEW s, Readable(s), NEW i, NEW j, Segment(s, i, j), Splits(s, i, j) # {},
           NEW k, k = Rightmost(Splits(s, i, j))
    PROVE  /\ k \in i + 1 .. j - 1 /\ s[k] \in {"&&", "||"}
           /\ Segment(s, i, k - 1) /\ Segment(s, k + 1, j) /\ Splits(s, k + 1, j) = {}
<1>1. PICK n \in Nat : n = Len(s)
  BY DEF Readable
<1>2. i \in 1 .. n /\ j \in 1 .. n
  BY <1>1 DEF Segment
<1>3. PICK d \in Nat : d = Depth(s, i - 1)
  BY <1>1, <1>2, Reading
<1>4. PICK I : I = Splits(s, i, j)
  OBVIOUS
<1>5. I \in SUBSET Nat /\ \A r \in I : r <= j
  BY <1>2, <1>4 DEF Splits
<1>6. k \in I /\ \A r \in I : r <= k
  <2>1. j \in Nat /\ I # {} /\ k = Rightmost(I)
    BY <1>2, <1>4
  <2>2. Rightmost(I) \in I /\ \A r \in I : r <= Rightmost(I)
    BY <1>5, <2>1, RightmostOK
  <2>3. QED
    BY <2>1, <2>2
<1>7. k \in i .. j /\ s[k] \in {"&&", "||"} /\ Depth(s, k) = d
  BY <1>3, <1>4, <1>6 DEF Splits
<1>8. k # i /\ k # j
  BY <1>7 DEF Segment, Operand
<1>9. k \in i + 1 .. j - 1 /\ k \in 1 .. n /\ k - 1 \in 1 .. n /\ k + 1 \in 1 .. n /\ (k - 1) + 1 = k /\ (k + 1) - 1 = k
  BY <1>2, <1>7, <1>8
<1>10. Depth(s, k - 1) = d
  <2>1. Depth(s, k) = Depth(s, k - 1)
    BY <1>1, <1>7, <1>9, Reading
  <2>2. QED
    BY <1>7, <2>1
<1>11. Segment(s, i, k - 1)
  <2>1. s[k - 1] \in Operand
    <3>1. s[(k - 1) + 1] \in {")", "&&", "||"} /\ (k - 1) + 1 \in 1 .. n
      BY <1>7, <1>9
    <3>2. QED
      BY <1>1, <1>9, <3>1, After
  <2>2. \A r \in i .. k - 1 : r \in i .. j
    BY <1>2, <1>9
  <2>3. \A r \in i .. k - 1 : Depth(s, r) >= Depth(s, i - 1)
    BY <2>2 DEF Segment
  <2>4. k - 1 \in i .. n
    BY <1>2, <1>9
  <2>5. s[i] \notin {"&&", "||", ")"}
    BY DEF Segment
  <2>6. QED
    BY <1>1, <1>2, <1>3, <1>10, <2>1, <2>3, <2>4, <2>5 DEF Segment
<1>12. Segment(s, k + 1, j)
  <2>1. s[k + 1] \in {"(", "!", "true", "f"}
    BY <1>1, <1>7, <1>9, After
  <2>2. \A r \in k + 1 .. j : r \in i .. j
    BY <1>2, <1>9
  <2>3. \A r \in k + 1 .. j : Depth(s, r) >= Depth(s, k)
    BY <1>3, <1>7, <2>2 DEF Segment
  <2>4. Depth(s, j) = Depth(s, k) /\ s[j] \in Operand
    BY <1>3, <1>7 DEF Segment
  <2>5. j \in k + 1 .. n
    BY <1>2, <1>9
  <2>6. QED
    BY <1>1, <1>9, <2>1, <2>3, <2>4, <2>5 DEF Segment
<1>13. Splits(s, k + 1, j) = {}
  <2>1. ASSUME NEW r \in Splits(s, k + 1, j) PROVE FALSE
    <3>1. r \in k + 1 .. j /\ s[r] \in {"&&", "||"} /\ Depth(s, r) = Depth(s, k)
      BY <1>9 DEF Splits
    <3>2. r \in i .. j /\ ~(r <= k)
      BY <1>2, <1>9, <3>1
    <3>3. r \in I
      BY <1>3, <1>4, <1>7, <3>1, <3>2 DEF Splits
    <3>4. QED
      BY <1>6, <3>2, <3>3
  <2>2. QED
    BY <2>1
<1>14. QED
  BY <1>7, <1>9, <1>11, <1>12, <1>13
-----------------------------------------------------------------------------
(* Executing an expression.                                                   *)

\* The call that gets the k-th token.
At(s, k) == Depth(s, k - 1) + 1

\* ... and what it holds then.
Ready(e, s, k) == parser_eval_binary(e[k - 1].calls[At(s, k)])

\* After the j-th token the calls before the c-th are what they were after the k-th.
SameBelow(e, k, j, c) == \A b \in 1 .. c - 1 : e[j].calls[b] = e[k].calls[b]

(* A result is not changed any more.                                          *)
LEMMA ResultStays ==
    ASSUME NEW s, Readable(s), NEW v, NEW e, Runs(e, s, v), NEW i \in 0 .. Len(s), NEW j \in i .. Len(s),
           e[i].result = "NONE"
    PROVE  e[j].result = "NONE"
<1>1. PICK n \in Nat : n = Len(s)
  BY DEF Readable
<1> DEFINE R == {k \in Nat : i + k <= n => e[i + k].result = "NONE"}
<1>2. 0 \in R
  BY <1>1
<1>3. ASSUME NEW k \in R PROVE k + 1 \in R
  <2>1. SUFFICES ASSUME i + (k + 1) <= n PROVE e[i + (k + 1)].result = "NONE"
    OBVIOUS
  <2>2. PICK p \in 1 .. n : p = i + (k + 1) /\ p - 1 = i + k
    BY <1>1, <2>1
  <2>3. e[p - 1].result = "NONE"
    BY <1>1, <2>2
  <2>4. e[p] = parser_execute_recursive(e[p - 1], s[p], v)
    BY <1>1 DEF Runs
  <2>5. e[p] = e[p - 1]
    BY <2>3, <2>4 DEF parser_execute_recursive
  <2>6. QED
    BY <2>2, <2>3, <2>5
<1>4. R \in SUBSET Nat
  OBVIOUS
<1> HIDE DEF R
<1>5. R = Nat
  BY <1>2, <1>3, <1>4, Induction
<1>6. j - i \in Nat /\ i + (j - i) = j /\ j <= n
  BY <1>1
<1>7. QED
  BY <1>5, <1>6 DEF R

(* What holds before the k-th token.                                          *)
LEMMA RunningOK ==
    ASSUME NEW s, Readable(s), NEW v \in Value, NEW e, Runs(e, s, v), NEW k \in 1 .. Len(s),
           e[k - 1].result = "unknown"
    PROVE  /\ At(s, k) \in 1 .. Len(s) + 1 /\ e[k - 1].depth = At(s, k)
           /\ e[k - 1].calls \in [1 .. Len(s) + 1 -> Frame] /\ Ready(e, s, k) \in Frame
           /\ e[k] = parser_execute_recursive(e[k - 1], s[k], v)
           /\ e[k] \in Execution(s)
<1>1. PICK n \in Nat : n = Len(s)
  BY DEF Readable
<1>2. k - 1 \in 0 .. n /\ k \in 0 .. n
  BY <1>1
<1>3. OnTrack(e[k - 1], s, k - 1) /\ OnTrack(e[k], s, k) /\ e[k] = parser_execute_recursive(e[k - 1], s[k], v)
  BY <1>1, <1>2 DEF Runs
<1>4. e[k - 1].depth \in 1 .. n + 1 /\ e[k - 1].calls \in [1 .. n + 1 -> Frame] /\ e[k] \in Execution(s)
  BY <1>1, <1>3 DEF OnTrack, Execution
<1>5. e[k - 1].depth = At(s, k)
  BY <1>3 DEF OnTrack, At
<1>6. e[k - 1].calls[At(s, k)] \in Frame
  BY <1>4, <1>5
<1>7. Ready(e, s, k) \in Frame
  BY <1>6, parser_eval_binaryOK DEF Ready
<1>8. QED
  BY <1>1, <1>3, <1>4, <1>5, <1>7

(* Steps: a parenthesis opens a call, ...                                     *)
LEMMA OpenStep ==
    ASSUME NEW s, Readable(s), NEW v \in Value, NEW e, Runs(e, s, v), NEW k \in 1 .. Len(s),
           e[k - 1].result = "unknown", s[k] = "("
    PROVE  /\ e[k].result = "unknown" /\ SameBelow(e, k - 1, k, At(s, k))
           /\ e[k].calls[At(s, k)] = Ready(e, s, k) /\ e[k].calls[At(s, k) + 1] = NewFrame
<1>1. PICK n \in Nat : n = Len(s)
  BY DEF Readable
<1>2. PICK d \in 1 .. n + 1 : d = At(s, k)
  BY <1>1, RunningOK
<1>3. PICK x : x = e[k - 1]
  OBVIOUS
<1>4. x.depth = d /\ x.calls \in [1 .. n + 1 -> Frame] /\ x.result = "unknown" /\ e[k] = parser_execute_recursive(x, s[k], v)
      /\ Ready(e, s, k) \in Frame /\ e[k] \in Execution(s)
  BY <1>1, <1>2, <1>3, RunningOK
<1>5. PICK l \in Frame : l = Ready(e, s, k) /\ l = parser_eval_binary(x.calls[d])
  BY <1>2, <1>3, <1>4 DEF Ready
<1>6. PICK ready \in [1 .. n + 1 -> Frame] : ready = [x.calls EXCEPT ![d] = l]
  BY <1>4, <1>5
<1>7. e[k] = [x EXCEPT !.depth = d + 1, !.calls = [ready EXCEPT ![d + 1] = NewFrame]]
  BY <1>4, <1>5, <1>6 DEF parser_execute_recursive
<1>8. x \in Execution(s)
  <2>1. k - 1 \in 0 .. n
    BY <1>1
  <2>2. QED
    BY <1>1, <1>3, <2>1 DEF Runs, OnTrack
<1>9. e[k].calls = [ready EXCEPT ![d + 1] = NewFrame] /\ e[k].result = "unknown"
  BY <1>4, <1>7, <1>8 DEF Execution
<1>10. d + 1 \in 1 .. n + 1
  <2>1. Depth(s, k) = d /\ Depth(s, k) <= k /\ d \in Nat
    BY <1>1, <1>2, Reading, DepthBound DEF At
  <2>2. QED
    BY <1>1, <2>1
<1>11. QED
  BY <1>2, <1>3, <1>5, <1>6, <1>9, <1>10 DEF SameBelow

(* ... another one ends it, ...                                               *)
LEMMA CloseStep ==
    ASSUME NEW s, Readable(s), NEW v \in Value, NEW e, Runs(e, s, v), NEW k \in 1 .. Len(s),
           e[k - 1].result = "unknown", s[k] = ")", NEW r, r = Ready(e, s, k).lhs
    PROVE  /\ At(s, k) - 1 \in 1 .. Len(s)
           /\ r = "NONE" => e[k].result = "NONE"
           /\ r # "NONE" => /\ e[k].result = "unknown" /\ SameBelow(e, k - 1, k, At(s, k) - 1)
                            /\ e[k].calls[At(s, k) - 1] = Take(e[k - 1].calls[At(s, k) - 1], r)
<1>1. PICK n \in Nat : n = Len(s)
  BY DEF Readable
<1>2. PICK d \in 1 .. n + 1 : d = At(s, k)
  BY <1>1, RunningOK
<1>3. PICK x : x = e[k - 1]
  OBVIOUS
<1>4. x.depth = d /\ x.calls \in [1 .. n + 1 -> Frame] /\ x.result = "unknown" /\ e[k] = parser_execute_recursive(x, s[k], v)
      /\ Ready(e, s, k) \in Frame /\ e[k] \in Execution(s)
  BY <1>1, <1>2, <1>3, RunningOK
<1>5. PICK l \in Frame : l = Ready(e, s, k) /\ l = parser_eval_binary(x.calls[d])
  BY <1>2, <1>3, <1>4 DEF Ready
<1>6. PICK ready \in [1 .. n + 1 -> Frame] : ready = [x.calls EXCEPT ![d] = l]
  BY <1>4, <1>5
<1>7. d - 1 \in 1 .. n
  <2>1. Depth(s, k) = Depth(s, k - 1) - 1 /\ Depth(s, k) \in Nat /\ Depth(s, k - 1) \in Nat
    BY <1>1, Reading
  <2>2. QED
    BY <1>1, <1>2, <2>1 DEF At
<1>8. e[k] = Given(d - 1, ready, r)
  BY <1>4, <1>5, <1>6, <1>7 DEF parser_execute_recursive
<1>9. r = "NONE" => e[k].result = "NONE"
  BY <1>8 DEF Given
<1>10. ASSUME r # "NONE"
       PROVE  /\ e[k].result = "unknown" /\ \A b \in 1 .. d - 2 : e[k].calls[b] = x.calls[b]
              /\ e[k].calls[d - 1] = Take(x.calls[d - 1], r)
  <2>1. e[k].result = "unknown" /\ e[k].calls = [ready EXCEPT ![d - 1] = Take(@, r)]
    BY <1>8, <1>10 DEF Given
  <2>2. d - 1 \in 1 .. n + 1 /\ ready[d - 1] = x.calls[d - 1]
    BY <1>4, <1>6, <1>7
  <2>3. \A b \in 1 .. d - 2 : b \in 1 .. n + 1 /\ b # d - 1 /\ b # d
    BY <1>7
  <2>4. QED
    BY <1>4, <1>6, <2>1, <2>2, <2>3
<1>11. (d - 1) - 1 = d - 2
  BY <1>2
<1>12. QED
  BY <1>1, <1>2, <1>3, <1>7, <1>9, <1>10, <1>11 DEF SameBelow

(* ... an operator is noted, ...                                              *)
LEMMA OperatorStep ==
    ASSUME NEW s, Readable(s), NEW v \in Value, NEW e, Runs(e, s, v), NEW k \in 1 .. Len(s),
           e[k - 1].result = "unknown", s[k] \in {"!", "&&", "||"}
    PROVE  /\ e[k].result = "unknown" /\ SameBelow(e, k - 1, k, At(s, k))
           /\ e[k].calls[At(s, k)] = IF s[k] = "!" THEN [Ready(e, s, k) EXCEPT !.neg = ~@] ELSE [Ready(e, s, k) EXCEPT !.op = s[k]]
<1>1. PICK n \in Nat : n = Len(s)
  BY DEF Readable
<1>2. PICK d \in 1 .. n + 1 : d = At(s, k)
  BY <1>1, RunningOK
<1>3. PICK x : x = e[k - 1]
  OBVIOUS
<1>4. x.depth = d /\ x.calls \in [1 .. n + 1 -> Frame] /\ x.result = "unknown" /\ e[k] = parser_execute_recursive(x, s[k], v)
      /\ Ready(e, s, k) \in Frame /\ e[k] \in Execution(s)
  BY <1>1, <1>2, <1>3, RunningOK
<1>5. PICK l \in Frame : l = Ready(e, s, k) /\ l = parser_eval_binary(x.calls[d])
  BY <1>2, <1>3, <1>4 DEF Ready
<1>6. PICK ready \in [1 .. n + 1 -> Frame] : ready = [x.calls EXCEPT ![d] = l]
  BY <1>4, <1>5
<1>7. PICK f : f = IF s[k] = "!" THEN [l EXCEPT !.neg = ~@] ELSE [l EXCEPT !.op = s[k]]
  OBVIOUS
<1>8. e[k] = [x EXCEPT !.calls = [ready EXCEPT ![d] = f]]
  <2>1. CASE s[k] = "!"
    BY <1>4, <1>5, <1>6, <1>7, <2>1 DEF parser_execute_recursive
  <2>2. CASE s[k] # "!"
    BY <1>4, <1>5, <1>6, <1>7, <2>2 DEF parser_execute_recursive
  <2>3. QED
    BY <2>1, <2>2
<1>9. x \in Execution(s)
  <2>1. k - 1 \in 0 .. n
    BY <1>1
  <2>2. QED
    BY <1>1, <1>3, <2>1 DEF Runs, OnTrack
<1>10. e[k].calls = [ready EXCEPT ![d] = f] /\ e[k].result = "unknown"
  BY <1>4, <1>8, <1>9 DEF Execution
<1>11. e[k].calls[d] = f
  BY <1>6, <1>10
<1>12. SameBelow(e, k - 1, k, d)
  <2>1. ASSUME NEW b \in 1 .. d - 1 PROVE e[k].calls[b] = x.calls[b]
    <3>1. b \in 1 .. n + 1 /\ b # d
      BY <1>2
    <3>2. ready[b] = x.calls[b]
      BY <1>4, <1>6, <3>1
    <3>3. QED
      BY <1>6, <1>10, <3>1, <3>2
  <2>2. QED
    BY <1>3, <2>1 DEF SameBelow
<1>13. f = IF s[k] = "!" THEN [Ready(e, s, k) EXCEPT !.neg = ~@] ELSE [Ready(e, s, k) EXCEPT !.op = s[k]]
  BY <1>5, <1>7
<1>14. QED
  BY <1>2, <1>10, <1>11, <1>12, <1>13

(* ... and a name gives an operand.                                           *)
LEMMA NameStep ==
    ASSUME NEW s, Readable(s), NEW v \in Value, NEW e, Runs(e, s, v), NEW k \in 1 .. Len(s),
           e[k - 1].result = "unknown", s[k] \in {"true", "f"},
           NEW r, r = IF s[k] = "f" THEN Called(Ready(e, s, k), v) ELSE "TRUE"
    PROVE  /\ r = "NONE" => e[k].result = "NONE"
           /\ r # "NONE" => /\ e[k].result = "unknown" /\ SameBelow(e, k - 1, k, At(s, k))
                            /\ e[k].calls[At(s, k)] = Take(Ready(e, s, k), r)
<1>1. PICK n \in Nat : n = Len(s)
  BY DEF Readable
<1>2. PICK d \in 1 .. n + 1 : d = At(s, k)
  BY <1>1, RunningOK
<1>3. PICK x : x = e[k - 1]
  OBVIOUS
<1>4. x.depth = d /\ x.calls \in [1 .. n + 1 -> Frame] /\ x.result = "unknown" /\ e[k] = parser_execute_recursive(x, s[k], v)
      /\ Ready(e, s, k) \in Frame /\ e[k] \in Execution(s)
  BY <1>1, <1>2, <1>3, RunningOK
<1>5. PICK l \in Frame : l = Ready(e, s, k) /\ l = parser_eval_binary(x.calls[d])
  BY <1>2, <1>3, <1>4 DEF Ready
<1>6. PICK ready \in [1 .. n + 1 -> Frame] : ready = [x.calls EXCEPT ![d] = l]
  BY <1>4, <1>5
<1>7. e[k] = Given(d, ready, r)
  BY <1>4, <1>5, <1>6 DEF parser_execute_recursive
<1>8. r = "NONE" => e[k].result = "NONE"
  BY <1>7 DEF Given
<1>9. ASSUME r # "NONE"
      PROVE  /\ e[k].result = "unknown" /\ \A b \in 1 .. d - 1 : e[k].calls[b] = x.calls[b]
             /\ e[k].calls[d] = Take(l, r)
  <2>1. e[k].result = "unknown" /\ e[k].calls = [ready EXCEPT ![d] = Take(@, r)]
    BY <1>7, <1>9 DEF Given
  <2>2. QED
    BY <1>4, <1>6, <2>1
<1>10. QED
  BY <1>2, <1>3, <1>5, <1>8, <1>9 DEF SameBelow

\* What an operand, whose value is r, makes of the call that reads it: the call takes it, or all return.
Takes(e, s, i, j, r) ==
    IF r = "NONE" THEN e[j].result = "NONE"
    ELSE /\ e[j].result = "unknown" /\ SameBelow(e, i - 1, j, At(s, i))
         /\ e[j].calls[At(s, i)] = Take(Ready(e, s, i), r)

\* What an expression, whose value is r, makes of a call that starts with it.
Gives(e, s, i, j, r) ==
    IF r = "NONE" THEN e[j].result = "NONE"
    ELSE /\ e[j].result = "unknown" /\ SameBelow(e, i - 1, j, At(s, i))
         /\ parser_eval_binary(e[j].calls[At(s, i)]) = [NewFrame EXCEPT !.lhs = r]

\* A function's value depends on what the call has.
BareValue(e, s, v, r, i) == IF s[i] = "f" THEN Called(Ready(e, s, i), v) ELSE r

\* The execution e does what the meaning m of up to n tokens says of the tokens from i to j.
Agrees(e, m, s, v, n, i, j) ==
    /\ v # "NONE" => m[n][<<i, j>>] # "NONE"
    /\ e[i - 1].result = "unknown" /\ e[i - 1].calls[At(s, i)] = NewFrame => Gives(e, s, i, j, m[n][<<i, j>>])
    /\ e[i - 1].result = "unknown" /\ Splits(s, i, j) = {} /\ s[i] # "!" =>
           Takes(e, s, i, j, BareValue(e, s, v, m[n][<<i, j>>], i))

AgreesUpto(e, m, s, v, n) == \A i, j \in 1 .. Len(s) : Segment(s, i, j) /\ j - i < n => Agrees(e, m, s, v, n, i, j)

(* Where an expression may be, and what it may begin with.                    *)
LEMMA SegmentBounds ==
    ASSUME NEW s, Readable(s), NEW i, NEW j, Segment(s, i, j)
    PROVE  /\ i \in 1 .. Len(s) /\ j \in 1 .. Len(s) /\ i <= j /\ i - 1 \in 0 .. Len(s)
           /\ Depth(s, i - 1) \in Nat /\ Depth(s, j) = Depth(s, i - 1)
           /\ s[i] \in {"(", "!", "true", "f"}
<1>1. PICK n \in Nat : n = Len(s)
  BY DEF Readable
<1>2. i \in 1 .. n /\ j \in 1 .. n /\ i <= j /\ i - 1 \in 0 .. n
  BY <1>1 DEF Segment
<1>3. QED
  BY <1>1, <1>2, Reading DEF Segment

\* What BareAgrees shows of the operand from i to j ...
BareOperand(e, m, s, v, n, i, j) ==
    /\ v # "NONE" => m[n][<<i, j>>] # "NONE"
    /\ s[i] = "f" => m[n][<<i, j>>] = v /\ i = j
    /\ e[i - 1].result = "unknown" => Takes(e, s, i, j, BareValue(e, s, v, m[n][<<i, j>>], i))

(* An operand that is not negated.                                            *)
LEMMA BareAgrees ==
    ASSUME NEW s, Readable(s), NEW v \in Value, NEW e, Runs(e, s, v), NEW m, Means(m, s, v),
           NEW n \in 1 .. Len(s), AgreesUpto(e, m, s, v, n - 1),
           NEW i, NEW j, Segment(s, i, j), j - i < n, Splits(s, i, j) = {}, s[i] # "!"
    PROVE  BareOperand(e, m, s, v, n, i, j)
<1>1. PICK N \in Nat : N = Len(s)
  BY DEF Readable
<1>2. i \in 1 .. N /\ j \in 1 .. N /\ i <= j /\ s[i] \in {"(", "true", "f"} /\ Depth(s, i - 1) \in Nat
      /\ Depth(s, j) = Depth(s, i - 1)
  BY <1>1, SegmentBounds
<1>3. m[n][<<i, j>>] = Expression(s, v, m[n - 1], i, j)
  <2>1. i \in 1 .. Len(s) + 1 /\ j \in 0 .. Len(s)
    BY <1>1, <1>2
  <2>2. QED
    BY <2>1, MeansStep
<1>4. CASE s[i] \in {"true", "f"}
  <2>1. i = j
    BY <1>4, AtomSegment
  <2>2. m[n][<<i, j>>] = IF s[i] = "f" THEN v ELSE "TRUE"
    BY <1>2, <1>3, <1>4, <2>1 DEF Expression
  <2>3. PICK r : r = BareValue(e, s, v, m[n][<<i, j>>], i)
    OBVIOUS
  <2>4. r = IF s[i] = "f" THEN Called(Ready(e, s, i), v) ELSE "TRUE"
    BY <2>2, <2>3 DEF BareValue
  <2>5. ASSUME e[i - 1].result = "unknown" PROVE Takes(e, s, i, j, r)
    <3>1. /\ r = "NONE" => e[i].result = "NONE"
          /\ r # "NONE" => /\ e[i].result = "unknown" /\ SameBelow(e, i - 1, i, At(s, i))
                           /\ e[i].calls[At(s, i)] = Take(Ready(e, s, i), r)
      BY <1>1, <1>2, <1>4, <2>4, <2>5, NameStep
    <3>2. QED
      BY <2>1, <3>1 DEF Takes
  <2>6. QED
    BY <2>1, <2>2, <2>3, <2>5 DEF BareOperand
<1>5. CASE s[i] = "("
  <2>1. i + 2 <= j /\ s[j] = ")" /\ Segment(s, i + 1, j - 1)
    BY <1>5, ParenSegment
  <2>2. PICK r : r = m[n - 1][<<i + 1, j - 1>>]
    OBVIOUS
  <2>3. m[n][<<i, j>>] = r
    BY <1>2, <1>3, <1>5, <2>1, <2>2 DEF Expression
  <2>4. Agrees(e, m, s, v, n - 1, i + 1, j - 1)
    <3>1. i + 1 \in 1 .. N /\ j - 1 \in 1 .. N /\ (j - 1) - (i + 1) < n - 1
      BY <1>1, <1>2, <2>1
    <3>2. QED
      BY <1>1, <2>1, <3>1 DEF AgreesUpto
  <2>5. v # "NONE" => r # "NONE"
    BY <2>2, <2>4 DEF Agrees
  <2>6. BareValue(e, s, v, m[n][<<i, j>>], i) = r
    BY <1>5, <2>3 DEF BareValue
  <2>7. ASSUME e[i - 1].result = "unknown" PROVE Takes(e, s, i, j, r)
    <3>1. PICK c \in 1 .. N + 1 : c = At(s, i)
      BY <1>1, <1>2, <2>7, RunningOK
    <3>2. At(s, i + 1) = c + 1
      <4>1. Depth(s, i) = Depth(s, i - 1) + 1 /\ (i + 1) - 1 = i
        BY <1>1, <1>2, <1>5, Reading
      <4>2. QED
        BY <1>2, <3>1, <4>1 DEF At
    <3>3. At(s, j) = c + 1
      <4>1. Depth(s, j) = Depth(s, j - 1) - 1 /\ Depth(s, j - 1) \in Nat
        BY <1>1, <1>2, <2>1, Reading
      <4>2. QED
        BY <1>2, <3>1, <4>1 DEF At
    <3>4. e[i].result = "unknown" /\ SameBelow(e, i - 1, i, c) /\ e[i].calls[c] = Ready(e, s, i) /\ e[i].calls[c + 1] = NewFrame
      BY <1>1, <1>2, <1>5, <2>7, <3>1, OpenStep
    <3>5. (i + 1) - 1 = i
      BY <1>2
    <3>6. Gives(e, s, i + 1, j - 1, r)
      BY <2>2, <2>4, <3>2, <3>4, <3>5 DEF Agrees
    <3>7. CASE r = "NONE"
      <4>1. e[j - 1].result = "NONE"
        BY <3>6, <3>7 DEF Gives
      <4>2. j - 1 \in 0 .. N /\ j \in j - 1 .. N
        BY <1>2
      <4>3. e[j].result = "NONE"
        BY <1>1, <4>1, <4>2, ResultStays
      <4>4. QED
        BY <3>7, <4>3 DEF Takes
    <3>8. CASE r # "NONE"
      <4>1. /\ e[j - 1].result = "unknown" /\ SameBelow(e, i, j - 1, c + 1)
            /\ parser_eval_binary(e[j - 1].calls[c + 1]) = [NewFrame EXCEPT !.lhs = r]
        BY <3>2, <3>5, <3>6, <3>8 DEF Gives
      <4>2. Ready(e, s, j).lhs = r
        BY <3>3, <4>1, NewFrameOK DEF Ready, Frame
      <4>3. (c + 1) - 1 = c
        BY <3>1
      <4>4. e[j].result = "unknown" /\ SameBelow(e, j - 1, j, c) /\ e[j].calls[c] = Take(e[j - 1].calls[c], r)
        <5>1. At(s, j) - 1 = c /\ s[j] = ")" /\ r = Ready(e, s, j).lhs
          BY <2>1, <3>3, <4>2, <4>3
        <5>2. /\ e[j].result = "unknown" /\ SameBelow(e, j - 1, j, At(s, j) - 1)
              /\ e[j].calls[At(s, j) - 1] = Take(e[j - 1].calls[At(s, j) - 1], r)
          <6>1. j \in 1 .. Len(s) /\ e[j - 1].result = "unknown" /\ s[j] = ")" /\ r = Ready(e, s, j).lhs /\ r # "NONE"
            BY <1>1, <1>2, <3>8, <4>1, <5>1
          <6>2. QED
            BY <6>1, CloseStep
        <5>3. QED
          BY <5>1, <5>2
      <4>5. e[j - 1].calls[c] = Ready(e, s, i)
        BY <3>1, <3>4, <4>1 DEF SameBelow
      <4>6. SameBelow(e, i - 1, j, c)
        <5>1. \A b \in 1 .. c - 1 : b \in 1 .. (c + 1) - 1
          BY <3>1
        <5>2. QED
          BY <3>4, <4>1, <4>4, <5>1 DEF SameBelow
      <4>7. QED
        BY <3>1, <3>8, <4>4, <4>5, <4>6 DEF Takes
    <3>9. QED
      BY <3>7, <3>8
  <2>8. QED
    BY <1>5, <2>3, <2>5, <2>6, <2>7 DEF BareOperand
<1>6. QED
  BY <1>2, <1>4, <1>5

\* The value of an operand that may be negated
Signed(s, i, r) == IF s[i] = "!" /\ r # "NONE" THEN Not(r) ELSE r

\* The operand from i to j is a function, negated or not.
IsFunction(s, i, j) == s[j] = "f" /\ (i = j \/ (i + 1 = j /\ s[i] = "!"))

OperandValue(e, s, v, r, i, j) == IF IsFunction(s, i, j) THEN Signed(s, i, Called(Ready(e, s, i), v)) ELSE r

\* ... and OperandAgrees.
Operands(e, m, s, v, n, i, j) ==
    /\ v # "NONE" => m[n][<<i, j>>] # "NONE"
    /\ IsFunction(s, i, j) => m[n][<<i, j>>] = Signed(s, i, v)
    /\ e[i - 1].result = "unknown" /\ ~Ready(e, s, i).neg /\ "NONE" \in {Ready(e, s, i).lhs, Ready(e, s, i).rhs} =>
           Takes(e, s, i, j, OperandValue(e, s, v, m[n][<<i, j>>], i, j))

(* An operand, for a call that waits for one.                                 *)
LEMMA OperandAgrees ==
    ASSUME NEW s, Readable(s), NEW v \in Value, NEW e, Runs(e, s, v), NEW m, Means(m, s, v),
           NEW n \in 1 .. Len(s), AgreesUpto(e, m, s, v, n - 1),
           NEW i, NEW j, Segment(s, i, j), j - i < n, Splits(s, i, j) = {}
    PROVE  Operands(e, m, s, v, n, i, j)
<1>1. PICK N \in Nat : N = Len(s)
  BY DEF Readable
<1>2. i \in 1 .. N /\ j \in 1 .. N /\ i <= j /\ s[i] \in {"(", "!", "true", "f"} /\ Depth(s, i - 1) \in Nat
  BY <1>1, SegmentBounds
<1>3. CASE s[i] # "!"
  <2>1. /\ v # "NONE" => m[n][<<i, j>>] # "NONE"
        /\ s[i] = "f" => m[n][<<i, j>>] = v /\ i = j
        /\ e[i - 1].result = "unknown" => Takes(e, s, i, j, BareValue(e, s, v, m[n][<<i, j>>], i))
    <3>1. BareOperand(e, m, s, v, n, i, j)
      BY <1>3, BareAgrees
    <3>2. QED
      BY <3>1 DEF BareOperand
  <2>2. IsFunction(s, i, j) <=> s[i] = "f"
    BY <1>3, <2>1 DEF IsFunction
  <2>3. OperandValue(e, s, v, m[n][<<i, j>>], i, j) = BareValue(e, s, v, m[n][<<i, j>>], i)
    BY <1>3, <2>2 DEF OperandValue, BareValue, Signed
  <2>4. IsFunction(s, i, j) => m[n][<<i, j>>] = Signed(s, i, v)
    BY <1>3, <2>1, <2>2 DEF Signed
  <2>5. QED
    BY <2>1, <2>3, <2>4 DEF Operands
<1>4. CASE s[i] = "!"
  <2>1. i < j /\ s[i + 1] \in {"(", "true", "f"} /\ Segment(s, i + 1, j) /\ Splits(s, i + 1, j) = {}
    BY <1>4, NotSegment
  <2>2. PICK q : q = m[n - 1][<<i + 1, j>>]
    OBVIOUS
  <2>3. m[n][<<i, j>>] = Signed(s, i, q)
    <3>1. m[n][<<i, j>>] = Expression(s, v, m[n - 1], i, j)
      <4>1. i \in 1 .. Len(s) + 1 /\ j \in 0 .. Len(s)
        BY <1>1, <1>2
      <4>2. QED
        BY <4>1, MeansStep
    <3>2. QED
      BY <1>2, <1>4, <2>1, <2>2, <3>1 DEF Expression, Signed
  <2>4. i + 1 \in 1 .. N /\ (i + 1) - 1 = i /\ j - (i + 1) < n - 1 /\ n - 1 \in 1 .. N
    BY <1>1, <1>2, <2>1
  <2>5. Agrees(e, m, s, v, n - 1, i + 1, j)
    BY <1>1, <1>2, <2>1, <2>4 DEF AgreesUpto
  <2>6. q # "NONE" => Signed(s, i, q) # "NONE"
    BY DEF Signed, Not, Bool
  <2>7. v # "NONE" => m[n][<<i, j>>] # "NONE"
    BY <2>2, <2>3, <2>5, <2>6 DEF Agrees
  <2>8. s[i + 1] = "f" => q = v /\ i + 1 = j
    <3>1. SUFFICES ASSUME s[i + 1] = "f" PROVE q = v /\ i + 1 = j
      OBVIOUS
    <3>2. i + 1 = j
      BY <2>1, <3>1, AtomSegment
    <3>3. q = Expression(s, v, m[(n - 1) - 1], i + 1, j)
      <4>1. n - 1 \in 1 .. Len(s) /\ i + 1 \in 1 .. Len(s) + 1 /\ j \in 0 .. Len(s)
        BY <1>1, <1>2, <2>4
      <4>2. m[n - 1][<<i + 1, j>>] = Expression(s, v, m[(n - 1) - 1], i + 1, j)
        BY <4>1, MeansStep
      <4>3. QED
        BY <2>2, <4>2
    <3>4. q = v
      BY <1>2, <2>1, <3>1, <3>2, <3>3 DEF Expression
    <3>5. QED
      BY <3>2, <3>4
  <2>9. IsFunction(s, i, j) <=> s[i + 1] = "f"
    BY <1>4, <2>1, <2>8 DEF IsFunction
  <2>10. IsFunction(s, i, j) => m[n][<<i, j>>] = Signed(s, i, v)
    BY <2>3, <2>8, <2>9
  <2>11. ASSUME e[i - 1].result = "unknown", ~Ready(e, s, i).neg, "NONE" \in {Ready(e, s, i).lhs, Ready(e, s, i).rhs}
         PROVE  Takes(e, s, i, j, OperandValue(e, s, v, m[n][<<i, j>>], i, j))
    <3>1. PICK c \in 1 .. N + 1 : c = At(s, i)
      BY <1>1, <1>2, <2>11, RunningOK
    <3>2. PICK F \in Frame : F = Ready(e, s, i)
      BY <1>1, <1>2, <2>11, RunningOK
    <3>3. PICK G \in Frame : G = [F EXCEPT !.neg = TRUE]
      BY DEF Frame
    <3>4. e[i].result = "unknown" /\ SameBelow(e, i - 1, i, c) /\ e[i].calls[c] = G
      <4>1. [F EXCEPT !.neg = ~@] = G
        BY <2>11, <3>2, <3>3 DEF Frame
      <4>2. QED
        <5>1. /\ e[i].result = "unknown" /\ SameBelow(e, i - 1, i, At(s, i))
              /\ e[i].calls[At(s, i)] = IF s[i] = "!" THEN [Ready(e, s, i) EXCEPT !.neg = ~@] ELSE [Ready(e, s, i) EXCEPT !.op = s[i]]
          <6>1. i \in 1 .. Len(s) /\ e[i - 1].result = "unknown" /\ s[i] \in {"!", "&&", "||"}
            BY <1>1, <1>2, <1>4, <2>11
          <6>2. QED
            BY <6>1, OperatorStep
        <5>2. QED
          BY <1>4, <3>1, <3>2, <4>1, <5>1
    <3>5. At(s, i + 1) = c
      BY <1>1, <1>2, <1>4, <2>4, <3>1, Reading DEF At
    <3>6. parser_eval_binary(G) = G
      BY <2>11, <3>2, <3>3 DEF parser_eval_binary, Frame
    <3>7. Ready(e, s, i + 1) = G
      BY <2>4, <3>4, <3>5, <3>6 DEF Ready
    <3>8. PICK r : r = BareValue(e, s, v, q, i + 1)
      OBVIOUS
    <3>9. Takes(e, s, i + 1, j, r)
      BY <2>1, <2>2, <2>4, <2>5, <3>4, <3>8 DEF Agrees
    <3>10. Called(G, v) = Called(F, v)
      BY <3>3 DEF Called, Frame
    <3>11. OperandValue(e, s, v, m[n][<<i, j>>], i, j) = Signed(s, i, r)
      BY <2>3, <2>9, <3>2, <3>7, <3>8, <3>10 DEF OperandValue, BareValue
    <3>12. CASE r = "NONE"
      <4>1. e[j].result = "NONE" /\ Signed(s, i, r) = "NONE"
        BY <3>9, <3>12 DEF Takes, Signed
      <4>2. QED
        BY <3>11, <4>1 DEF Takes
    <3>13. CASE r # "NONE"
      <4>1. e[j].result = "unknown" /\ SameBelow(e, i, j, c) /\ e[j].calls[c] = Take(G, r)
        BY <2>4, <3>5, <3>7, <3>9, <3>13 DEF Takes
      <4>2. PICK w : w = Not(r)
        OBVIOUS
      <4>3. Signed(s, i, r) = w /\ w # "NONE"
        BY <1>4, <3>13, <4>2 DEF Signed, Not, Bool
      <4>4. Take(G, r) = Take(F, w)
        <5>1. G.neg = TRUE /\ F.neg = FALSE /\ G.lhs = F.lhs /\ G.rhs = F.rhs /\ G.op = F.op
          BY <2>11, <3>2, <3>3 DEF Frame
        <5>2. Take(G, r) = IF G.lhs = "NONE" THEN [G EXCEPT !.lhs = w, !.neg = FALSE]
                           ELSE [G EXCEPT !.rhs = IF @ = "NONE" THEN w ELSE @, !.neg = FALSE]
          BY <4>2, <5>1 DEF Take
        <5>3. Take(F, w) = IF F.lhs = "NONE" THEN [F EXCEPT !.lhs = w, !.neg = FALSE]
                           ELSE [F EXCEPT !.rhs = IF @ = "NONE" THEN w ELSE @, !.neg = FALSE]
          BY <5>1 DEF Take
        <5>4. QED
          BY <3>3, <5>1, <5>2, <5>3 DEF Frame
      <4>5. SameBelow(e, i - 1, j, c)
        BY <3>4, <4>1 DEF SameBelow
      <4>6. QED
        BY <3>1, <3>2, <3>11, <4>1, <4>3, <4>4, <4>5 DEF Takes
    <3>14. QED
      BY <3>12, <3>13
  <2>12. QED
    BY <2>7, <2>10, <2>11 DEF Operands
<1>5. QED
  BY <1>3, <1>4

(* Calls are the same when their parts are.                                   *)
LEMMA SameFrame ==
    ASSUME NEW f \in Frame, NEW g \in Frame, f.lhs = g.lhs, f.rhs = g.rhs, f.op = g.op, f.neg = g.neg
    PROVE  f = g
BY DEF Frame

(* A call that has got one operand                                            *)
LEMMA NewFrameWith ==
    ASSUME NEW r \in Value
    PROVE  /\ [NewFrame EXCEPT !.lhs = r] \in Frame
           /\ [NewFrame EXCEPT !.lhs = r].lhs = r /\ [NewFrame EXCEPT !.lhs = r].rhs = "NONE"
           /\ [NewFrame EXCEPT !.lhs = r].op = "T_NONE" /\ [NewFrame EXCEPT !.lhs = r].neg = FALSE
BY NewFrameOK DEF Frame

(* What reading an expression does to the call that starts with it is what    *)
(* the expression means, if that is so of shorter ones: parser_execute, whose *)
(* calls keep no more than two operands and an operator, agrees with Meaning. *)
LEMMA SegmentAgrees ==
    ASSUME NEW s, Readable(s), NEW v \in Value, NEW e, Runs(e, s, v), NEW m, Means(m, s, v),
           NEW n \in 1 .. Len(s), \A q \in 0 .. n - 1 : AgreesUpto(e, m, s, v, q),
           NEW i, NEW j, Segment(s, i, j), j - i < n
    PROVE  Agrees(e, m, s, v, n, i, j)
<1>1. PICK N \in Nat : N = Len(s)
  BY DEF Readable
<1>2. i \in 1 .. N /\ j \in 1 .. N /\ i <= j /\ Depth(s, i - 1) \in Nat /\ Depth(s, j) = Depth(s, i - 1)
  BY <1>1, SegmentBounds
<1>3. n - 1 \in 0 .. n - 1 /\ n \in 1 .. N
  BY <1>1
<1>4. AgreesUpto(e, m, s, v, n - 1)
  BY <1>3
<1>5. PICK r : r = m[n][<<i, j>>]
  OBVIOUS
<1>9. r \in Value /\ \A a \in 1 .. N, b \in 1 .. N, p \in 0 .. N : m[p][<<a, b>>] \in Value
  <2>1. \A a \in 1 .. N, b \in 1 .. N : <<a, b>> \in Segments(s)
    BY <1>1 DEF Segments
  <2>2. \A p \in 0 .. N : m[p] \in [Segments(s) -> Value]
    BY <1>1 DEF Means
  <2>3. \A a \in 1 .. N, b \in 1 .. N, p \in 0 .. N : m[p][<<a, b>>] \in Value
    BY <2>1, <2>2
  <2>4. n \in 0 .. N
    BY <1>3
  <2>5. QED
    BY <1>2, <1>5, <2>3, <2>4
<1>6. CASE Splits(s, i, j) = {}
  <2>1. /\ v # "NONE" => r # "NONE"
        /\ IsFunction(s, i, j) => r = Signed(s, i, v)
        /\ e[i - 1].result = "unknown" /\ ~Ready(e, s, i).neg /\ "NONE" \in {Ready(e, s, i).lhs, Ready(e, s, i).rhs} =>
               Takes(e, s, i, j, OperandValue(e, s, v, r, i, j))
    <3>1. Operands(e, m, s, v, n, i, j)
      BY <1>4, <1>6, OperandAgrees
    <3>2. QED
      BY <1>5, <3>1 DEF Operands
  <2>2. ASSUME e[i - 1].result = "unknown", e[i - 1].calls[At(s, i)] = NewFrame PROVE Gives(e, s, i, j, r)
    <3>1. parser_eval_binary(NewFrame) = NewFrame
      BY NewFrameOK DEF parser_eval_binary
    <3>2. Ready(e, s, i) = NewFrame
      BY <2>2, <3>1 DEF Ready
    <3>3. Called(NewFrame, v) = v
      BY NewFrameOK DEF Called
    <3>4. OperandValue(e, s, v, r, i, j) = r
      BY <2>1, <3>2, <3>3 DEF OperandValue
    <3>5. Takes(e, s, i, j, r)
      BY <2>1, <2>2, <3>2, <3>4, NewFrameOK
    <3>6. CASE r = "NONE"
      BY <3>5, <3>6 DEF Takes, Gives
    <3>7. CASE r # "NONE"
      <4>1. Take(NewFrame, r) = [NewFrame EXCEPT !.lhs = r]
        <5>1. Take(NewFrame, r) = [NewFrame EXCEPT !.lhs = r, !.neg = FALSE]
          BY NewFrameOK DEF Take
        <5>2. PICK g \in Frame : g = [NewFrame EXCEPT !.lhs = r, !.neg = FALSE]
          BY <1>9, NewFrameOK DEF Frame
        <5>3. g.lhs = r /\ g.rhs = "NONE" /\ g.op = "T_NONE" /\ g.neg = FALSE
          BY <5>2, NewFrameOK DEF Frame
        <5>4. g = [NewFrame EXCEPT !.lhs = r]
          <6>1. PICK f \in Frame : f = [NewFrame EXCEPT !.lhs = r]
            BY <1>9, NewFrameWith
          <6>2. f.lhs = r /\ f.rhs = "NONE" /\ f.op = "T_NONE" /\ f.neg = FALSE
            BY <1>9, <6>1, NewFrameWith
          <6>3. f = g
            BY <5>3, <6>2, SameFrame
          <6>4. QED
            BY <6>1, <6>3
        <5>5. QED
          BY <5>1, <5>2, <5>4
      <4>2. parser_eval_binary([NewFrame EXCEPT !.lhs = r]) = [NewFrame EXCEPT !.lhs = r]
        BY <1>9, NewFrameWith DEF parser_eval_binary
      <4>3. QED
        BY <3>2, <3>5, <3>7, <4>1, <4>2 DEF Takes, Gives
    <3>8. QED
      BY <3>6, <3>7
  <2>3. ASSUME e[i - 1].result = "unknown", s[i] # "!" PROVE Takes(e, s, i, j, BareValue(e, s, v, r, i))
    <3>1. BareOperand(e, m, s, v, n, i, j)
      BY <1>4, <1>6, <2>3, BareAgrees
    <3>2. QED
      BY <1>5, <2>3, <3>1 DEF BareOperand
  <2>4. QED
    BY <1>5, <2>1, <2>2, <2>3 DEF Agrees
<1>7. CASE Splits(s, i, j) # {}
  <2>1. PICK k : k = Rightmost(Splits(s, i, j))
    OBVIOUS
  <2>2. k \in i + 1 .. j - 1 /\ s[k] \in {"&&", "||"} /\ Segment(s, i, k - 1) /\ Segment(s, k + 1, j) /\ Splits(s, k + 1, j) = {}
    BY <1>7, <2>1, SplitSegment
  <2>3. /\ k \in 1 .. N /\ k - 1 \in 1 .. N /\ k + 1 \in 1 .. N /\ (k + 1) - 1 = k
        /\ (k - 1) - i < n - 1 /\ j - (k + 1) < n - 1 /\ n - 1 \in 1 .. N /\ n - 2 \in 0 .. n - 1 /\ (n - 1) - 1 = n - 2
        /\ k - 1 \in 0 .. N /\ j \in k - 1 .. N
    BY <1>1, <1>2, <1>3, <2>2
  <2>4. PICK l : l = m[n - 1][<<i, k - 1>>]
    OBVIOUS
  <2>5. PICK q : q = m[n - 1][<<k + 1, j>>]
    OBVIOUS
  <2>14. l \in Value /\ q \in Value
    <3>1. n - 1 \in 0 .. N
      BY <2>3
    <3>2. QED
      BY <1>2, <1>9, <2>3, <2>4, <2>5, <3>1
  <2>6. PICK x : x = (IF l = Bool(s[k] = "||") /\ IsFunction(s, k + 1, j) THEN "FALSE" ELSE q)
    OBVIOUS
  <2>7. r = IF "NONE" \in {l, x} THEN "NONE"
            ELSE IF s[k] = "&&" THEN Bool(l = "TRUE" /\ x = "TRUE") ELSE Bool("TRUE" \in {l, x})
    <3>1. r = Expression(s, v, m[n - 1], i, j)
      <4>1. i \in 1 .. Len(s) + 1 /\ j \in 0 .. Len(s)
        BY <1>1, <1>2
      <4>2. QED
        BY <1>5, <4>1, MeansStep
    <3>2. r = Operation(s, m[n - 1], i, k, j)
      BY <1>2, <1>7, <2>1, <3>1 DEF Expression
    <3>3. IsFunction(s, k + 1, j) <=> (s[j] = "f" /\ (k + 1 = j \/ (k + 2 = j /\ s[k + 1] = "!")))
      <4>1. (k + 1) + 1 = k + 2
        BY <2>3
      <4>2. QED
        BY <4>1 DEF IsFunction
    <3>4. QED
      BY <2>4, <2>5, <2>6, <3>2, <3>3 DEF Operation
  <2>8. Agrees(e, m, s, v, n - 1, i, k - 1)
    BY <1>1, <1>2, <1>4, <2>2, <2>3 DEF AgreesUpto
  <2>9. AgreesUpto(e, m, s, v, (n - 1) - 1)
    BY <2>3
  <2>10. /\ v # "NONE" => q # "NONE"
         /\ IsFunction(s, k + 1, j) => q = Signed(s, k + 1, v)
         /\ e[k].result = "unknown" /\ ~Ready(e, s, k + 1).neg /\ "NONE" \in {Ready(e, s, k + 1).lhs, Ready(e, s, k + 1).rhs} =>
                Takes(e, s, k + 1, j, OperandValue(e, s, v, q, k + 1, j))
    <3>1. n - 1 \in 1 .. Len(s)
      BY <1>1, <2>3
    <3>2. PICK p \in 1 .. Len(s) : p = n - 1
      BY <3>1
    <3>3. AgreesUpto(e, m, s, v, p - 1) /\ j - (k + 1) < p
      BY <2>3, <2>9, <3>2
    <3>4. q = m[p][<<k + 1, j>>]
      BY <2>5, <3>2
    <3>5. /\ v # "NONE" => q # "NONE"
          /\ IsFunction(s, k + 1, j) => q = Signed(s, k + 1, v)
          /\ e[(k + 1) - 1].result = "unknown" /\ ~Ready(e, s, k + 1).neg /\ "NONE" \in {Ready(e, s, k + 1).lhs, Ready(e, s, k + 1).rhs} =>
                 Takes(e, s, k + 1, j, OperandValue(e, s, v, q, k + 1, j))
      <4>1. Segment(s, k + 1, j) /\ Splits(s, k + 1, j) = {}
        BY <2>2
      <4>2. Operands(e, m, s, v, p, k + 1, j)
        BY <3>3, <4>1, OperandAgrees
      <4>3. QED
        BY <3>4, <4>2 DEF Operands
    <3>6. QED
      BY <2>3, <3>5
  <2>11. v # "NONE" => r # "NONE"
    <3>1. v # "NONE" => l # "NONE" /\ q # "NONE"
      BY <2>4, <2>8, <2>10 DEF Agrees
    <3>2. QED
      BY <2>6, <2>7, <3>1 DEF Bool
  <2>12. ASSUME e[i - 1].result = "unknown", e[i - 1].calls[At(s, i)] = NewFrame PROVE Gives(e, s, i, j, r)
    <3>1. Gives(e, s, i, k - 1, l)
      BY <2>4, <2>8, <2>12 DEF Agrees
    <3>2. CASE l = "NONE"
      <4>1. e[k - 1].result = "NONE"
        BY <3>1, <3>2 DEF Gives
      <4>2. e[j].result = "NONE"
        BY <1>1, <2>3, <4>1, ResultStays
      <4>3. QED
        BY <2>7, <3>2, <4>2 DEF Gives
    <3>3. CASE l # "NONE"
      <4>1. PICK c \in 1 .. N + 1 : c = At(s, i)
        BY <1>1, <1>2, <2>12, RunningOK
      <4>2. /\ e[k - 1].result = "unknown" /\ SameBelow(e, i - 1, k - 1, c)
            /\ parser_eval_binary(e[k - 1].calls[c]) = [NewFrame EXCEPT !.lhs = l]
        BY <3>1, <3>3, <4>1 DEF Gives
      <4>3. At(s, k) = c /\ At(s, k + 1) = c
        <5>1. Depth(s, k - 1) = Depth(s, i - 1)
          BY <2>2 DEF Segment
        <5>2. Depth(s, k) = Depth(s, k - 1)
          BY <1>1, <2>2, <2>3, Reading
        <5>3. QED
          BY <2>3, <4>1, <5>1, <5>2 DEF At
      <4>4. Ready(e, s, k) = [NewFrame EXCEPT !.lhs = l]
        BY <4>2, <4>3 DEF Ready
      <4>5. PICK F \in Frame : F = [lhs |-> l, rhs |-> "NONE", op |-> s[k], neg |-> FALSE]
        BY <2>2, <2>14 DEF Frame, Value
      <4>6. e[k].result = "unknown" /\ SameBelow(e, k - 1, k, c) /\ e[k].calls[c] = F
        <5>1. k \in 1 .. Len(s) /\ s[k] \in {"!", "&&", "||"} /\ s[k] # "!"
          BY <1>1, <2>2, <2>3
        <5>2. /\ e[k].result = "unknown" /\ SameBelow(e, k - 1, k, At(s, k))
              /\ e[k].calls[At(s, k)] = IF s[k] = "!" THEN [Ready(e, s, k) EXCEPT !.neg = ~@] ELSE [Ready(e, s, k) EXCEPT !.op = s[k]]
          <6>1. e[k - 1].result = "unknown" /\ k \in 1 .. Len(s) /\ s[k] \in {"!", "&&", "||"}
            BY <4>2, <5>1
          <6>2. QED
            BY <6>1, OperatorStep
        <5>3. [[NewFrame EXCEPT !.lhs = l] EXCEPT !.op = s[k]] = F
          <6>1. PICK f \in Frame : f = [NewFrame EXCEPT !.lhs = l]
            BY <2>14, NewFrameWith
          <6>2. f.lhs = l /\ f.rhs = "NONE" /\ f.neg = FALSE
            BY <2>14, <6>1, NewFrameWith
          <6>3. PICK g \in Frame : g = [f EXCEPT !.op = s[k]]
            BY <2>2 DEF Frame
          <6>4. g.lhs = l /\ g.rhs = "NONE" /\ g.op = s[k] /\ g.neg = FALSE
            BY <6>2, <6>3 DEF Frame
          <6>5. F.lhs = l /\ F.rhs = "NONE" /\ F.op = s[k] /\ F.neg = FALSE
            BY <4>5
          <6>6. g = F
            BY <6>4, <6>5, SameFrame
          <6>7. QED
            BY <6>1, <6>3, <6>6
        <5>4. QED
          BY <4>3, <4>4, <5>1, <5>2, <5>3
      <4>7. parser_eval_binary(F) = F
        BY <4>5 DEF parser_eval_binary
      <4>8. Ready(e, s, k + 1) = F
        BY <2>3, <4>3, <4>6, <4>7 DEF Ready
      <4>9. PICK w : w = OperandValue(e, s, v, q, k + 1, j)
        OBVIOUS
      <4>10. F.neg = FALSE /\ F.rhs = "NONE" /\ F.lhs = l /\ F.op = s[k]
        BY <4>5
      <4>11. Takes(e, s, k + 1, j, w)
        BY <2>10, <4>6, <4>8, <4>9, <4>10
      <4>12. w = "NONE" => r = "NONE"
        <5>1. CASE IsFunction(s, k + 1, j)
          <6>1. w = Signed(s, k + 1, Called(F, v))
            BY <4>8, <4>9, <5>1 DEF OperandValue
          <6>2. CASE l = Bool(s[k] = "||")
            <7>1. Called(F, v) # "NONE"
              BY <2>2, <4>10, <6>2 DEF Called, Bool
            <7>2. QED
              BY <6>1, <7>1 DEF Signed, Not, Bool
          <6>3. CASE l # Bool(s[k] = "||")
            <7>1. Called(F, v) = v
              BY <2>2, <4>10, <6>3 DEF Called, Bool
            <7>2. QED
              BY <2>6, <2>7, <2>10, <5>1, <6>1, <6>3, <7>1
          <6>4. QED
            BY <6>2, <6>3
        <5>2. CASE ~IsFunction(s, k + 1, j)
          BY <2>6, <2>7, <4>9, <5>2 DEF OperandValue
        <5>3. QED
          BY <5>1, <5>2
      <4>13. w # "NONE" => r = IF s[k] = "&&" THEN Bool(l = "TRUE" /\ w = "TRUE") ELSE Bool("TRUE" \in {l, w})
        <5>1. CASE IsFunction(s, k + 1, j) /\ l = Bool(s[k] = "||")
          <6>1. x = "FALSE"
            BY <2>6, <5>1
          <6>2. CASE s[k] = "&&"
            <7>1. l = "FALSE"
              BY <5>1, <6>2 DEF Bool
            <7>2. QED
              BY <2>7, <6>1, <6>2, <7>1 DEF Bool
          <6>3. CASE s[k] = "||"
            <7>1. l = "TRUE"
              BY <5>1, <6>3 DEF Bool
            <7>2. QED
              BY <2>7, <6>1, <6>3, <7>1 DEF Bool
          <6>4. QED
            BY <2>2, <6>2, <6>3
        <5>2. CASE IsFunction(s, k + 1, j) /\ l # Bool(s[k] = "||")
          <6>1. w = Signed(s, k + 1, Called(F, v))
            BY <4>8, <4>9, <5>2 DEF OperandValue
          <6>2. Called(F, v) = v \/ l \notin {"TRUE", "FALSE"}
            BY <2>2, <4>10, <5>2 DEF Called, Bool
          <6>3. Called(F, v) = v
            BY <2>2, <4>10, <5>2 DEF Called, Bool
          <6>4. w = q /\ x = q
            BY <2>6, <2>10, <5>2, <6>1, <6>3
          <6>5. QED
            BY <2>7, <3>3, <6>4
        <5>3. CASE ~IsFunction(s, k + 1, j)
          <6>1. w = q /\ x = q
            BY <2>6, <4>9, <5>3 DEF OperandValue
          <6>2. QED
            BY <2>7, <3>3, <6>1
        <5>4. QED
          BY <5>1, <5>2, <5>3
      <4>14. CASE w = "NONE"
        <5>1. e[j].result = "NONE" /\ r = "NONE"
          BY <4>11, <4>12, <4>14 DEF Takes
        <5>2. QED
          BY <5>1 DEF Gives
      <4>15. CASE w # "NONE"
        <5>1. e[j].result = "unknown" /\ SameBelow(e, k, j, c) /\ e[j].calls[c] = Take(F, w)
          BY <2>3, <4>3, <4>8, <4>11, <4>15 DEF Takes
        <5>2. Take(F, w) = [lhs |-> l, rhs |-> w, op |-> s[k], neg |-> FALSE]
          BY <3>3, <4>5 DEF Take
        <5>3. parser_eval_binary(Take(F, w)) = [NewFrame EXCEPT !.lhs = r]
          <6>8. w \in Value
            <7>1. \A a \in Value : Signed(s, k + 1, a) \in Value
              BY DEF Signed, Not, Bool, Value
            <7>2. QED
              BY <2>14, <4>9, <7>1, CalledOK DEF OperandValue
          <6>1. PICK T \in Frame : T = [lhs |-> l, rhs |-> w, op |-> s[k], neg |-> FALSE]
            BY <2>2, <2>14, <6>8 DEF Frame
          <6>2. T.lhs = l /\ T.rhs = w /\ T.op = s[k]
            BY <6>1
          <6>3. s[k] # "T_NONE" /\ ~("NONE" \in {l, w})
            BY <2>2, <3>3, <4>15
          <6>4. Bool(IF T.op = "&&" THEN T.lhs = "TRUE" /\ T.rhs = "TRUE" ELSE "TRUE" \in {T.lhs, T.rhs}) = r
            <7>1. CASE s[k] = "&&"
              BY <4>13, <4>15, <6>2, <7>1 DEF Bool
            <7>2. CASE s[k] # "&&"
              BY <4>13, <4>15, <6>2, <7>2 DEF Bool
            <7>3. QED
              BY <7>1, <7>2
          <6>5. parser_eval_binary(T) = [T EXCEPT !.rhs = "NONE", !.op = "T_NONE", !.lhs = r]
            BY <6>2, <6>3, <6>4 DEF parser_eval_binary
          <6>6. [T EXCEPT !.rhs = "NONE", !.op = "T_NONE", !.lhs = r] = [NewFrame EXCEPT !.lhs = r]
            <7>1. PICK f \in Frame : f = [NewFrame EXCEPT !.lhs = r]
              BY <1>9, NewFrameWith
            <7>2. f.lhs = r /\ f.rhs = "NONE" /\ f.op = "T_NONE" /\ f.neg = FALSE
              BY <1>9, <7>1, NewFrameWith
            <7>3. PICK g \in Frame : g = [T EXCEPT !.rhs = "NONE", !.op = "T_NONE", !.lhs = r]
              BY <1>9 DEF Frame, Value
            <7>4. g.lhs = r /\ g.rhs = "NONE" /\ g.op = "T_NONE" /\ g.neg = FALSE
              BY <6>1, <7>3 DEF Frame
            <7>5. f = g
              BY <7>2, <7>4, SameFrame
            <7>6. QED
              BY <7>1, <7>3, <7>5
          <6>7. QED
            BY <5>2, <6>1, <6>5, <6>6
        <5>4. r # "NONE"
          BY <4>13, <4>15 DEF Bool
        <5>5. SameBelow(e, i - 1, j, c)
          BY <4>2, <4>6, <5>1 DEF SameBelow
        <5>6. QED
          BY <4>1, <5>1, <5>3, <5>4, <5>5 DEF Gives
      <4>16. QED
        BY <4>14, <4>15
    <3>4. QED
      BY <3>2, <3>3
  <2>13. QED
    BY <1>5, <1>7, <2>11, <2>12 DEF Agrees
<1>8. QED
  BY <1>6, <1>7

(* So it is of any expression of a rule.                                      *)
LEMMA AllAgree ==
    ASSUME NEW s, Readable(s), NEW v \in Value, NEW e, Runs(e, s, v), NEW m, Means(m, s, v)
    PROVE  \A n \in 0 .. Len(s) : AgreesUpto(e, m, s, v, n)
<1>1. PICK N \in Nat : N = Len(s)
  BY DEF Readable
<1> DEFINE R == {n \in Nat : \A q \in 0 .. n : q <= N => AgreesUpto(e, m, s, v, q)}
<1>2. 0 \in R
  <2>1. ASSUME NEW i \in 1 .. N, NEW j \in 1 .. N, Segment(s, i, j) PROVE ~(j - i < 0)
    BY <1>1, <2>1, SegmentBounds
  <2>2. AgreesUpto(e, m, s, v, 0)
    BY <1>1, <2>1 DEF AgreesUpto
  <2>3. \A q \in 0 .. 0 : q = 0
    OBVIOUS
  <2>4. QED
    BY <2>2, <2>3
<1>3. ASSUME NEW k \in R PROVE k + 1 \in R
  <2>1. SUFFICES ASSUME k + 1 <= N PROVE AgreesUpto(e, m, s, v, k + 1)
    <3>1. k \in Nat /\ \A q \in 0 .. k : q <= N => AgreesUpto(e, m, s, v, q)
      OBVIOUS
    <3>2. \A q \in 0 .. k + 1 : q \in 0 .. k \/ q = k + 1
      BY <3>1
    <3>3. QED
      BY <3>1, <3>2
  <2>2. PICK n \in 1 .. Len(s) : n = k + 1
    BY <1>1, <2>1
  <2>3. \A q \in 0 .. n - 1 : AgreesUpto(e, m, s, v, q)
    BY <2>1, <2>2
  <2> HIDE DEF R
  <2>4. ASSUME NEW i \in 1 .. Len(s), NEW j \in 1 .. Len(s), Segment(s, i, j), j - i < n
        PROVE  Agrees(e, m, s, v, n, i, j)
    BY <2>3, <2>4, SegmentAgrees
  <2>5. QED
    BY <2>2, <2>4 DEF AgreesUpto
<1>4. R \in SUBSET Nat
  OBVIOUS
<1> HIDE DEF R
<1>5. R = Nat
  BY <1>2, <1>3, <1>4, Induction
<1>6. \A n \in 0 .. N : n \in R
  BY <1>5
<1>7. QED
  BY <1>1, <1>6 DEF R

(* A whole rule is an expression.                                             *)
LEMMA WholeSegment ==
    ASSUME NEW s, Complete(s), s # <<>>
    PROVE  Segment(s, 1, Len(s)) /\ 1 \in 1 .. Len(s) /\ Depth(s, 0) = 0
<1>1. s \in Seq(Token) /\ Readable(s)
  BY DEF Complete, Readable
<1>2. PICK n \in Nat : n = Len(s)
  BY <1>1
<1>3. n > 0
  BY <1>1, <1>2, EmptySeq
<1>4. 1 \in 1 .. n /\ n \in 1 .. n
  BY <1>2, <1>3
<1>5. Depth(s, 0) = 0
  BY DepthStep
<1>6. Depth(s, n) = 0 /\ s[n] \in Operand
  BY <1>2 DEF Complete
<1>7. \A k \in 1 .. n : Depth(s, k) >= Depth(s, 0)
  <2> TAKE k \in 1 .. n
  <2>1. Depth(s, k) \in Nat
    BY <1>1, <1>2, Reading
  <2>2. QED
    BY <1>5, <2>1
<1>8. s[1] \notin {"&&", "||", ")"}
  <2>1. s[1] # ")"
    <3>1. Depth(s, 1) \in Nat /\ Depth(s, 1) = IF s[1] = "(" THEN Depth(s, 1 - 1) + 1
                            ELSE IF s[1] = ")" THEN Depth(s, 1 - 1) - 1 ELSE Depth(s, 1 - 1)
      BY <1>1, <1>2, <1>4, Reading
    <3>2. 1 - 1 = 0
      OBVIOUS
    <3>3. QED
      BY <1>5, <3>1, <3>2
  <2>2. Fits("T_NONE", s[1])
    BY <1>1, <1>2, <1>4 DEF Readable, Before
  <2>3. QED
    BY <2>1, <2>2 DEF Fits, Operand
<1>9. Segment(s, 1, n)
  <2>1. 1 - 1 = 0 /\ n \in 1 .. n
    BY <1>4
  <2>2. QED
    BY <1>2, <1>4, <1>5, <1>6, <1>7, <1>8, <2>1 DEF Segment
<1>10. QED
  BY <1>2, <1>4, <1>5, <1>9

(* parser_execute computes what a rule means.                                 *)
LEMMA ExecuteMeans ==
    ASSUME NEW s, Complete(s), NEW v \in Value
    PROVE  parser_execute(s, v) = Meaning(s, v) /\ (s # <<>> /\ v # "NONE" => Meaning(s, v) # "NONE")
<1>1. s \in Seq(Token) /\ Readable(s)
  BY DEF Complete, Readable
<1>2. PICK n \in Nat : n = Len(s)
  BY <1>1
<1>3. PICK e : e = Executing(s, v)
  OBVIOUS
<1>4. PICK m : m = Meanings(s, v)
  OBVIOUS
<1>5. Runs(e, s, v)
  BY <1>1, <1>3, ExecutingRuns
<1>6. Means(m, s, v)
  BY <1>1, <1>4, MeaningsMean
<1>7. PICK r : r = m[n][<<1, n>>]
  OBVIOUS
<1>8. Meaning(s, v) = r
  BY <1>2, <1>4, <1>7 DEF Meaning
<1>9. CASE s = <<>>
  <2>1. n = 0 /\ <<1, 0>> \in Segments(s)
    BY <1>2, <1>9 DEF Segments
  <2>2. r = "NONE"
    BY <1>6, <1>7, <2>1 DEF Means
  <2>3. QED
    BY <1>8, <1>9, <2>2 DEF parser_execute
<1>10. CASE s # <<>>
  <2>1. Segment(s, 1, n) /\ 1 \in 1 .. n /\ n \in 1 .. n /\ Depth(s, 0) = 0 /\ 1 - 1 = 0 /\ n - 1 < n
    BY <1>2, <1>10, WholeSegment
  <2>2. AgreesUpto(e, m, s, v, n)
    <3>1. n \in 0 .. Len(s)
      BY <1>2
    <3>2. QED
      BY <1>1, <1>5, <1>6, <3>1, AllAgree
  <2>3. Agrees(e, m, s, v, n, 1, n)
    BY <1>2, <2>1, <2>2 DEF AgreesUpto
  <2>4. At(s, 1) = 1
    BY <2>1 DEF At
  <2>5. e[0].result = "unknown" /\ e[0].calls[1] = NewFrame
    <3>1. e[0] = Begin(s)
      BY <1>5 DEF Runs
    <3>2. 1 \in 1 .. n + 1
      BY <2>1
    <3>3. QED
      BY <1>2, <3>1, <3>2 DEF Begin
  <2>6. Gives(e, s, 1, n, r)
    BY <1>7, <2>1, <2>3, <2>4, <2>5 DEF Agrees
  <2>7. v # "NONE" => r # "NONE"
    BY <1>7, <2>3 DEF Agrees
  <2>8. r \in Value
    <3>1. <<1, n>> \in Segments(s)
      BY <1>2, <2>1 DEF Segments
    <3>2. n \in 0 .. Len(s)
      BY <1>2
    <3>3. QED
      BY <1>6, <1>7, <3>1, <3>2 DEF Means
  <2>9. parser_execute(s, v) = IF e[n].result = "unknown" THEN parser_eval_binary(e[n].calls[1]).lhs ELSE e[n].result
    BY <1>2, <1>3, <1>10 DEF parser_execute
  <2>10. CASE r = "NONE"
    BY <1>8, <2>6, <2>7, <2>9, <2>10 DEF Gives
  <2>11. CASE r # "NONE"
    <3>1. e[n].result = "unknown" /\ parser_eval_binary(e[n].calls[1]) = [NewFrame EXCEPT !.lhs = r]
      BY <2>4, <2>6, <2>11 DEF Gives
    <3>2. [NewFrame EXCEPT !.lhs = r].lhs = r
      BY <2>8, NewFrameWith
    <3>3. QED
      BY <1>8, <2>9, <2>11, <3>1, <3>2
  <2>12. QED
    BY <2>10, <2>11
<1>11. QED
  BY <1>9, <1>10

(* ParserInv implies ParserSound.                                             *)
LEMMA ParserInvSound == ParserInv => ParserSound
<1>1. SUFFICES ASSUME ParserInv PROVE ParserSound
  OBVIOUS
<1>2. ParserTypeOK
  BY <1>1 DEF ParserInv
<1>3. ASSUME parsed = "tokens"
      PROVE  /\ \A v \in Value : parser_execute(tokens, v) = Meaning(tokens, v)
             /\ tokens # <<>> => Meaning(tokens, "TRUE") # "NONE"
  <2>1. Complete(tokens)
    BY <1>1, <1>3, TokensComplete
  <2>2. \A v \in Value : parser_execute(tokens, v) = Meaning(tokens, v) /\ (tokens # <<>> /\ v # "NONE" => Meaning(tokens, v) # "NONE")
    BY <2>1, ExecuteMeans
  <2>3. "TRUE" \in Value /\ "TRUE" # "NONE"
    BY DEF Value
  <2>4. QED
    BY <2>2, <2>3
<1>4. QED
  BY <1>2, <1>3 DEF ParserSound
-----------------------------------------------------------------------------
(* The commands, the rules and the lookups, whichever a behaviour is about.   *)

(* The bindings of commands.c are sound, whatever modules with commands are   *)
(* loaded, reloaded and unloaded and whatever is bound and unbound: a binding *)
(* never names a command that is gone, and one that must not lose its last    *)
(* binding keeps one unless it came with none.                                *)
THEOREM SpecCommandsSound == AllSpec => []CommandsSound
<1>1. AllInit => CommandsInv
  BY InitCommandsInv DEF AllInit
<1>2. CommandsInv /\ [AllNext]_allVars => CommandsInv'
  <2> SUFFICES ASSUME CommandsInv, [AllNext]_allVars PROVE CommandsInv'
    OBVIOUS
  <2>1. [commandsNext]_cmdVars
    BY DEF AllNext, allVars
  <2>2. QED
    BY <2>1, StepCommandsInv
<1>3. CommandsInv => CommandsSound
  BY CommandsInvSound
<1>4. QED
  BY <1>1, <1>2, <1>3, PTL DEF AllSpec

(* Whoever asks the web is told of what he asked, and whoever waits has a     *)
(* request of his own that is under way, until the first of the errors that   *)
(* Lookups names; bitly calls back once, in time, and is not called any more  *)
(* when it is unloaded.                                                       *)
THEOREM SpecLookupsSound == AllSpec => []LookupsSound
<1>1. AllInit => LookupsInv
  BY InitLookupsInv DEF AllInit
<1>2. LookupsInv /\ [AllNext]_allVars => LookupsInv'
  <2> SUFFICES ASSUME LookupsInv, [AllNext]_allVars PROVE LookupsInv'
    OBVIOUS
  <2>1. [lookupsNext]_lookupVars
    BY DEF AllNext, allVars
  <2>2. QED
    BY <2>1, StepLookupsInv
<1>3. LookupsInv => LookupsSound
  BY LookupsInvSound
<1>4. QED
  BY <1>1, <1>2, <1>3, PTL DEF AllSpec

(* A rule of any length that parser_tokenize takes is an expression, and      *)
(* parser_execute gives it its meaning, whatever its functions say.           *)
THEOREM SpecParserSound == AllSpec => []ParserSound
<1>1. AllInit => ParserInv
  BY InitParserInv DEF AllInit
<1>2. ParserInv /\ [AllNext]_allVars => ParserInv'
  <2> SUFFICES ASSUME ParserInv, [AllNext]_allVars PROVE ParserInv'
    OBVIOUS
  <2>1. [parserNext]_parserVars
    BY DEF AllNext, allVars
  <2>2. QED
    BY <2>1, StepParserInv
<1>3. ParserInv => ParserSound
  BY ParserInvSound
<1>4. QED
  BY <1>1, <1>2, <1>3, PTL DEF AllSpec

(* The three together.                                                        *)
THEOREM SpecCommandsAndLookupsSound == AllSpec => []CommandsAndLookupsSound
  BY SpecCommandsSound, SpecParserSound, SpecLookupsSound, PTL DEF CommandsAndLookupsSound
==============================================================================
