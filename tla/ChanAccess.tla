------------------------------- MODULE ChanAccess -------------------------------
(* The user lists of registered channels (chanreg.c) over the accounts: who    *)
(* has which access to a channel, who may change it, and how the lists stand   *)
(* up to accounts that go and to a restart, with a third file.  What chanreg   *)
(* does with channels themselves and with channel modules is not here.         *)
EXTENDS Accounts

CONSTANTS Chan

UL_MASTER == 300
UL_COOWNER == 400
UL_OWNER == 500
Level == 1..UL_OWNER
Access == [level : Level, suspended : BOOLEAN]

ASSUME ChanAccessAssumption ==
    \A w \in Worlds :
        /\ w.chan \subseteq Chan /\ w.staff \subseteq BOOLEAN
        /\ w.level \subseteq Nat     \* numbers given as a level, beyond unsigned short too
        /\ \A c \in DOMAIN w.chanregs :
              /\ c \in Chan /\ DOMAIN w.chanregs[c] \subseteq DOMAIN w.accounts
              /\ \A n \in DOMAIN w.chanregs[c] : w.chanregs[c][n] \in Access

VARIABLES
    staff_rule,  \* chanreg/staff_rule is group(admins), else it is not set
    chanregs,    \* the dict; chanregs[c][a]: a's level and suspension
    chanreg_db   \* the file; by name

chanVars == <<staff_rule, chanregs, chanreg_db>>
allVars == <<vars, chanVars>>

\* unsigned short level = strtoul(...)
Narrow(n) == n % 65536

chanreg_user_find(c, u) == Authed(u) /\ account[u] \in DOMAIN chanregs[c]
level(c, u) == chanregs[c][account[u]].level

IsStaff(u) == staff_rule /\ Admin(u)
\* The access rule "chanuser(min) || group(admins)" of a command on channel c.
Allowed(u, c, min) ==
    \/ /\ chanreg_user_find(c, u)
       /\ level(c, u) >= min
       /\ ~chanregs[c][account[u]].suspended
    \/ Admin(u)

\* Mutant: equal rank is enough.
Below_orEqual(u, c, l) == chanreg_user_find(c, u) => level(c, u) >= l \/ IsStaff(u)

\* "outranks you", and "greater than or equal to your own": asked only of those
\* who are on the list themselves and are not staff.
Below(u, c, l) == chanreg_user_find(c, u) => level(c, u) > l \/ IsStaff(u)

\* Mutant: the flags are not read.
chanreg_db_read_noFlags(db, accts) ==
    [c \in DOMAIN db |->
       [a \in {x \in DOMAIN accts : accts[x].name \in DOMAIN db[c]} |->
          [level |-> db[c][accts[a].name].level, suspended |-> FALSE]]]

\* The module is loaded when the accounts have been; a name without an account
\* is passed over.
chanreg_db_read(db, accts) ==
    [c \in DOMAIN db |->
       [a \in {x \in DOMAIN accts : accts[x].name \in DOMAIN db[c]} |-> db[c][accts[a].name]]]

chanInit ==
    /\ Init
    /\ staff_rule \in world.staff
    /\ chanreg_db = world.chanregs
    /\ chanregs = chanreg_db_read(chanreg_db, accounts)
-----------------------------------------------------------------------------
(* The commands.                                                               *)

OnChannel(u, c) ==
    /\ Command /\ Authed(u)
    /\ c \in DOMAIN chanregs
    /\ UNCHANGED <<dicts, account, files, history, staff_rule, chanreg_db>>

List(c, list) == chanregs' = [chanregs EXCEPT ![c] = list]
With(c, a, access) == [x \in DOMAIN chanregs[c] \cup {a} |-> IF x = a THEN access ELSE chanregs[c][x]]
Without(c, a) == [x \in DOMAIN chanregs[c] \ {a} |-> chanregs[c][x]]

cregister(u, c, a) ==
    /\ Command /\ Admin(u)
    /\ c \notin DOMAIN chanregs
    /\ chanregs' = [x \in DOMAIN chanregs \cup {c} |->
                      IF x = c THEN [y \in {a} |-> [level |-> UL_OWNER, suspended |-> FALSE]] ELSE chanregs[x]]
    /\ UNCHANGED <<dicts, account, files, history, staff_rule, chanreg_db>>

cunregister(u, c) ==
    /\ OnChannel(u, c) /\ Allowed(u, c, UL_OWNER)
    /\ chanregs' = [x \in DOMAIN chanregs \ {c} |-> chanregs[x]]

adduser(u, c, a, n) ==
    /\ OnChannel(u, c) /\ Allowed(u, c, UL_MASTER)
    /\ Narrow(n) \in Level
    /\ Below(u, c, Narrow(n))
    /\ a \notin DOMAIN chanregs[c]
    /\ List(c, With(c, a, [level |-> Narrow(n), suspended |-> FALSE]))

deluser(u, c, a) ==
    /\ OnChannel(u, c) /\ Allowed(u, c, UL_MASTER)
    /\ a = account[u] => IsStaff(u)
    /\ a \in DOMAIN chanregs[c]
    /\ Below(u, c, chanregs[c][a].level)
    /\ List(c, Without(c, a))

clvl(u, c, a, n) ==
    /\ OnChannel(u, c) /\ Allowed(u, c, UL_MASTER)
    /\ Narrow(n) \in Level
    /\ a = account[u] => IsStaff(u)
    /\ a \in DOMAIN chanregs[c]
    /\ Below(u, c, Narrow(n)) /\ Below(u, c, chanregs[c][a].level)
    /\ List(c, [chanregs[c] EXCEPT ![a].level = Narrow(n)])

\* The owner becomes coowner, or what the new owner was if that is more; a
\* suspension of the new owner stays.
giveownership(u, c, a, force) ==
    LET owners == {x \in DOMAIN chanregs[c] : chanregs[c][x].level = UL_OWNER}
        listed == IF a \in DOMAIN chanregs[c] THEN chanregs[c]
                  ELSE With(c, a, [level |-> UL_COOWNER, suspended |-> FALSE])
        was == IF listed[a].level > UL_COOWNER THEN listed[a].level ELSE UL_COOWNER IN
    /\ OnChannel(u, c) /\ Allowed(u, c, UL_OWNER)
    /\ a # account[u]
    /\ Cardinality(owners) <= 1
    /\ a \in DOMAIN chanregs[c] \/ (force /\ IsStaff(u))
    /\ List(c, [x \in DOMAIN listed |->
                  IF x = a THEN [listed[x] EXCEPT !.level = UL_OWNER]
                  ELSE IF x \in owners THEN [listed[x] EXCEPT !.level = was] ELSE listed[x]])

deleteme(u, c) ==
    /\ OnChannel(u, c)
    /\ chanreg_user_find(c, u)
    /\ level(c, u) # UL_OWNER
    /\ List(c, Without(c, account[u]))

suspend(u, c, a) ==
    /\ OnChannel(u, c) /\ Allowed(u, c, UL_MASTER)
    /\ a = account[u] => IsStaff(u)
    /\ a \in DOMAIN chanregs[c]
    /\ Below(u, c, chanregs[c][a].level)
    /\ ~chanregs[c][a].suspended
    /\ List(c, [chanregs[c] EXCEPT ![a].suspended = TRUE])

unsuspend(u, c, a) ==
    /\ OnChannel(u, c) /\ Allowed(u, c, UL_MASTER)
    /\ a \in DOMAIN chanregs[c]
    /\ Below(u, c, chanregs[c][a].level)
    /\ chanregs[c][a].suspended
    /\ List(c, [chanregs[c] EXCEPT ![a].suspended = FALSE])
-----------------------------------------------------------------------------
(* What comes from elsewhere.                                                  *)

\* chanreg's hook is called before the account is freed.
chanreg_account_del(u) ==
    /\ unregister(u)
    /\ chanregs' = [c \in DOMAIN chanregs |-> Without(c, account[u])]
    /\ UNCHANGED <<staff_rule, chanreg_db>>

\* An entry is written under the name its account has by then.
ChanImage == [c \in DOMAIN chanregs |->
                [n \in {accounts[a].name : a \in DOMAIN chanregs[c]} |-> chanregs[c][Named(n)]]]

AllFiles == {"accounts", "groups", "chanreg"}

write(W) ==
    /\ database_write(W, AllFiles)
    /\ chanreg_db' = IF "chanreg" \in W THEN ChanImage ELSE chanreg_db
    /\ UNCHANGED <<staff_rule, chanregs>>

start ==
    /\ restart
    /\ chanregs' = chanreg_db_read(chanreg_db, accounts')
    /\ UNCHANGED <<staff_rule, chanreg_db>>
-----------------------------------------------------------------------------
OnUser(u, c, a) ==
    \/ cregister(u, c, a)
    \/ deluser(u, c, a)
    \/ \E n \in world.level : adduser(u, c, a, n) \/ clvl(u, c, a, n)
    \/ \E force \in BOOLEAN : giveownership(u, c, a, force)
    \/ suspend(u, c, a)
    \/ unsuspend(u, c, a)

chanNext ==
    \/ Keep /\ UNCHANGED chanVars
    \/ \E u \in world.user : chanreg_account_del(u)
    \/ \E u \in world.user, c \in world.chan :
          \/ cunregister(u, c)
          \/ deleteme(u, c)
          \/ \E a \in DOMAIN accounts : OnUser(u, c, a)
    \/ \E W \in SUBSET AllFiles : write(W)
    \/ start

chanSpec == chanInit /\ [][chanNext]_allVars
-----------------------------------------------------------------------------
(* Properties.                                                                 *)

\* The lists are well formed and hold no pointer to an account that was freed
\* (chanreg_account_del, chanreg_user_add).
ListsLive ==
    /\ DOMAIN chanregs \subseteq Chan
    /\ \A c \in DOMAIN chanregs :
          /\ DOMAIN chanregs[c] \subseteq DOMAIN accounts
          /\ \A a \in DOMAIN chanregs[c] : chanregs[c][a] \in Access

\* What every account, group and list must satisfy between two commands.
AccessSound == TypeOK /\ NamesDiffer /\ MembersMirrored /\ MembersGranted /\ WayIn /\ ListsLive
Rank(c, a) == IF c \in DOMAIN chanregs /\ a \in DOMAIN chanregs[c] THEN chanregs[c][a].level ELSE 0
Entry(c, a) == IF Rank(c, a) = 0 THEN NONE ELSE chanregs[c][a]
Owners(c) == {a \in Id : Rank(c, a) = UL_OWNER}

\* u is on c's list, not suspended and not below l.
Stands(u, c, l) ==
    /\ Authed(u) /\ Rank(c, account[u]) >= l
    /\ ~chanregs[c][account[u]].suspended

\* While the bot runs, what is on record about somebody changes only if he goes;
\* he or an admin does it; somebody who outranks both what was and what comes;
\* or an owner, who leaves no second owner behind.  And a channel that has an
\* owner loses the last one only by an admin or with the owner's account.
RanksHold == [][boots' = boots =>
    \A c \in Chan :
      /\ \A a \in Id : Entry(c, a)' # Entry(c, a) =>
            \/ a \notin DOMAIN accounts'
            \/ \E u \in User :
                  \/ Admin(u)
                  \/ account[u] = a /\ Rank(c, a) # UL_OWNER /\ Rank(c, a)' = 0
                  \/ /\ Stands(u, c, UL_MASTER)
                     /\ Rank(c, account[u]) > Rank(c, a)
                     /\ Rank(c, account[u]) > Rank(c, a)'
                  \/ Stands(u, c, UL_OWNER) /\ Cardinality(Owners(c)') <= 1
      /\ c \in DOMAIN chanregs \cap (DOMAIN chanregs)' /\ Owners(c) # {} /\ Owners(c)' = {} =>
            (\E u \in User : Admin(u)) \/ ~(Owners(c) \subseteq (DOMAIN accounts)')]_allVars

\* A restart from files that are up to date brings back every account, group,
\* membership and user list (three files, three readers, names for pointers).
RestartPreserves == [][
    boots' # boots /\ account_db = AccountImage /\ group_db = GroupImage /\ chanreg_db = ChanImage
        /\ mishaps = {} =>
    UNCHANGED <<dicts, chanregs>>]_allVars
=============================================================================
