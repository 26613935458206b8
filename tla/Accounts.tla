-------------------------------- MODULE Accounts --------------------------------
(* account.c, group.c and the module `account': who is logged in to what, and  *)
(* who is in which group.  Accounts and groups point at each other in two      *)
(* ways: an account holds pointers to its groups, a group holds the names of   *)
(* its members; both are saved by name, each in a file of its own, and put     *)
(* together again by name after a restart.                                     *)
(*                                                                             *)
(* An account is a number, given once: the pointer, and across a restart the   *)
(* registration that is meant.  A password is the user who knows it.  A        *)
(* handler runs to its end, so a command is one step.                          *)
EXTENDS Naturals, FiniteSets

CONSTANTS User,        \* people on IRC
          Name,        \* account names
          Group,       \* group names
          ADMINS,      \* "admins"
          Mask,        \* login masks
          Matches,     \* Matches[m]: whose ident@host matches m
          NONE,        \* no account
          NOPASS,      \* the password "*"
          MaxAccount,  \* bound: registrations
          Worlds       \* bound: the files a behaviour starts from, the users, names,
                       \* groups and masks in it, its commands and its restarts

ASSUME AccountsAssumption ==
    /\ ADMINS \in Group
    /\ NOPASS \notin User
    /\ Matches \in [Mask -> SUBSET User]
    /\ MaxAccount \in Nat
    /\ NONE \notin 1..MaxAccount
    /\ \A w \in Worlds :
          /\ w.user \subseteq User /\ w.name \subseteq Name /\ w.group \subseteq Group /\ w.mask \subseteq Mask
          /\ w.room \in Nat /\ w.boots \in Nat
          /\ \A n \in DOMAIN w.accounts :
                /\ n \in Name
                /\ w.accounts[n] \in [id : 1..MaxAccount, pass : User \cup {NOPASS}, login_masks : SUBSET Mask]
                /\ w.accounts[n].id <= Cardinality(DOMAIN w.accounts)  \* they are numbered as they were registered
                /\ w.accounts[n].pass = NOPASS => w.accounts[n].login_masks # {}
                /\ \A m \in DOMAIN w.accounts : w.accounts[n].id = w.accounts[m].id => n = m
          /\ \A g \in DOMAIN w.groups : g \in Group /\ w.groups[g] \subseteq DOMAIN w.accounts

VARIABLES
    world,       \* of Worlds
    accounts,    \* account_list, with the accounts: a function on those that live
    group_list,  \* keys of the dict group_list
    members,     \* members[g][n]: how often the string n is in group->members
    account,     \* account[u]: user->account
    account_db,  \* the file "accounts": account_db[n] is what is saved under n
    group_db,    \* the file "groups": the groups and their lists of members
    torn,        \* the files were written at different times
    \* history
    registered,  \* registrations so far
    granted,     \* <<g, a>>: a was put into g by the rule on the first account or an admin
    mishaps,     \* what the properties except
    room,        \* commands left
    boots        \* restarts so far

bounds == <<world, room, boots>>
history == <<registered, granted, mishaps>>
files == <<account_db, group_db, torn>>
dicts == <<accounts, group_list, members>>
vars == <<dicts, account, files, history, bounds>>

Id == 1..MaxAccount
Account == [name : Name, pass : User \cup {NOPASS}, login_masks : SUBSET Mask,
            groups : [Group -> Nat]]
Record == [id : Id, pass : User \cup {NOPASS}, login_masks : SUBSET Mask]
NoMembers == [n \in Name |-> 0]
Empty == [x \in {} |-> 0]

account_find(n) == {a \in DOMAIN accounts : accounts[a].name = n}
group_has_member(g, a) == accounts[a].groups[g] > 0
Authed(u) == account[u] # NONE
\* The access rule group(admins).
Admin(u) == Authed(u) /\ group_has_member(ADMINS, account[u])

\* What the bot does from here on is defined: no account points at a freed group.
Sane == "dangling" \notin mishaps
Command == Sane /\ room > 0 /\ room' = room - 1 /\ UNCHANGED <<world, boots>>

Members(db) == [g \in Group |-> [n \in Name |-> IF g \in DOMAIN db /\ n \in db[g] THEN 1 ELSE 0]]

(* The two readers: accounts first, then the groups, whose members are looked  *)
(* up by name; a name that is no account's is passed over.                     *)
SavedAs(adb, a) == CHOOSE n \in DOMAIN adb : adb[n].id = a
\* Mutant: names are taken as they come.
Found_unchecked(adb, gdb, g, n) == gdb[g][n]
Found(adb, gdb, g, n) == IF n \in DOMAIN adb THEN gdb[g][n] ELSE 0

account_db_read(adb, gdb) ==
    [a \in {adb[n].id : n \in DOMAIN adb} |->
       [name |-> SavedAs(adb, a), pass |-> adb[SavedAs(adb, a)].pass,
        login_masks |-> adb[SavedAs(adb, a)].login_masks,
        groups |-> [g \in Group |-> Found(adb, gdb, g, SavedAs(adb, a))]]]

group_db_read(adb, gdb) == [g \in Group |-> [n \in Name |-> Found(adb, gdb, g, n)]]

Init ==
    /\ world \in Worlds
    /\ account_db = world.accounts
    /\ group_db = [list |-> DOMAIN world.groups, members |-> Members(world.groups)]
    /\ torn = FALSE
    /\ accounts = account_db_read(account_db, group_db.members)
    /\ group_list = group_db.list \cup {ADMINS}
    /\ members = group_db_read(account_db, group_db.members)
    /\ account = [u \in User |-> NONE]
    /\ registered = Cardinality(DOMAIN world.accounts)
    /\ granted = {m \in Group \X (DOMAIN accounts) : group_has_member(m[1], m[2])}
    /\ mishaps = {}
    /\ room = world.room
    /\ boots = 0
-----------------------------------------------------------------------------
(* account.c: logging in and out.                                              *)

account_user_add(a, u) == account' = [account EXCEPT ![u] = a]

\* The command logout, and a user who quits (user_del).
account_user_del(u) ==
    /\ Sane /\ Authed(u)
    /\ account' = [account EXCEPT ![u] = NONE]
    /\ UNCHANGED <<dicts, files, history, bounds>>

\* The command auth.
auth(u) ==
    /\ Sane /\ ~Authed(u)
    /\ \E a \in DOMAIN accounts : accounts[a].pass = u /\ account_user_add(a, u)
    /\ UNCHANGED <<dicts, files, history, bounds>>

\* binding_check_access logs a user in whose host matches a login mask, before
\* it looks at the command's rule: the rest of the command is a step of its own,
\* as if he had given another command first.  If several masks match, the order
\* of the dict decides, which is not kept here.
login_by_mask(u) ==
    /\ Sane /\ ~Authed(u)
    /\ \E a \in DOMAIN accounts :
          /\ \E m \in accounts[a].login_masks : u \in Matches[m]
          /\ account_user_add(a, u)
    /\ UNCHANGED <<dicts, files, history, bounds>>

\* The command register.  The first account becomes a member of the admins.
register(u, n) ==
    LET a == registered + 1
        first == DOMAIN accounts = {}
        new == [name |-> n, pass |-> u, login_masks |-> {},
                groups |-> [g \in Group |-> IF first /\ g = ADMINS THEN 1 ELSE 0]] IN
    /\ Command /\ ~Authed(u)
    /\ registered < MaxAccount
    /\ account_find(n) = {}
    /\ accounts' = [x \in DOMAIN accounts \cup {a} |-> IF x = a THEN new ELSE accounts[x]]
    /\ members' = IF first THEN [members EXCEPT ![ADMINS][n] = @ + 1] ELSE members
    /\ granted' = IF first THEN granted \cup {<<ADMINS, a>>} ELSE granted
    /\ account_user_add(a, u)
    /\ registered' = a
    /\ UNCHANGED <<group_list, files, mishaps>>

\* group_member_del logs a failed assertion and does nothing else when the
\* group does not list the account's name.
Removable(g, a, k) == IF members[g][accounts[a].name] < k THEN members[g][accounts[a].name] ELSE k

\* The command unregister: account_del takes the account out of its groups and
\* logs everybody out who is logged in to it.
unregister(u) ==
    LET a == account[u] IN
    /\ Command /\ Authed(u)
    /\ accounts[a].pass = u
    /\ accounts' = [x \in DOMAIN accounts \ {a} |-> accounts[x]]
    /\ members' = [g \in Group |->
                    [members[g] EXCEPT ![accounts[a].name] = @ - Removable(g, a, accounts[a].groups[g])]]
    /\ account' = [x \in User |-> IF account[x] = a THEN NONE ELSE account[x]]
    /\ UNCHANGED <<group_list, files, history>>
-----------------------------------------------------------------------------
(* Passwords and login masks, changed by their owner or, with oset, by an      *)
(* admin.                                                                      *)

Change(a, field) ==
    /\ accounts' = [accounts EXCEPT ![a] = field]
    /\ UNCHANGED <<group_list, members, account, files, history>>

\* The command pass: whoever has no password need not give the old one.  (A new
\* password instead of one he knew makes no difference here.)
pass(u) ==
    /\ Command /\ Authed(u)
    /\ accounts[account[u]].pass = NOPASS
    /\ Change(account[u], [accounts[account[u]] EXCEPT !.pass = u])

oset_password(u, a, p) ==
    /\ Command /\ Admin(u)
    /\ p = NOPASS => accounts[a].login_masks # {}
    /\ Change(a, [accounts[a] EXCEPT !.pass = p])

MayEdit(u, a) == Authed(u) /\ (account[u] = a \/ Admin(u))

oset_loginmask_add(u, a, m) ==
    /\ Command /\ MayEdit(u, a)
    /\ m \notin accounts[a].login_masks
    /\ Change(a, [accounts[a] EXCEPT !.login_masks = @ \cup {m}])

oset_loginmask_del(u, a, m) ==
    /\ Command /\ MayEdit(u, a)
    /\ m \in accounts[a].login_masks
    /\ ~(accounts[a].pass = NOPASS /\ Cardinality(accounts[a].login_masks) = 1)
    /\ Change(a, [accounts[a] EXCEPT !.login_masks = @ \ {m}])

\* The command rename moves the account in the dict and nothing else: groups
\* keep its old name.
rename(u, a, n) ==
    /\ Command /\ Admin(u)
    /\ account_find(n) = {}
    /\ accounts' = [accounts EXCEPT ![a].name = n]
    /\ mishaps' = IF \E g \in Group : group_has_member(g, a) THEN mishaps \cup {"renamed"} ELSE mishaps
    /\ UNCHANGED <<group_list, members, account, files, registered, granted>>
-----------------------------------------------------------------------------
(* group.c: the commands on groups.                                            *)

group_add(u, g) ==
    /\ Command /\ Admin(u)
    /\ g \notin group_list
    /\ group_list' = group_list \cup {g}
    /\ members' = [members EXCEPT ![g] = NoMembers]
    /\ UNCHANGED <<accounts, account, files, history>>

\* Every name of the list is looked up; what is no account's name is passed over
\* and then the group is freed, whoever still points at it.
group_del(u, g) ==
    LET left(a) == accounts[a].groups[g] - Removable(g, a, accounts[a].groups[g]) IN
    /\ Command /\ Admin(u)
    /\ g \in group_list \ {ADMINS}
    /\ ~group_has_member(g, account[u])
    /\ group_list' = group_list \ {g}
    /\ accounts' = [a \in DOMAIN accounts |-> [accounts[a] EXCEPT !.groups[g] = left(a)]]
    /\ members' = [members EXCEPT ![g] = NoMembers]
    /\ mishaps' = IF \E a \in DOMAIN accounts : left(a) > 0 THEN mishaps \cup {"dangling"} ELSE mishaps
    /\ UNCHANGED <<account, files, registered, granted>>

group_member_add(u, g, a) ==
    /\ Command /\ Admin(u)
    /\ g \in group_list
    /\ ~group_has_member(g, a)
    /\ accounts' = [accounts EXCEPT ![a].groups[g] = @ + 1]
    /\ members' = [members EXCEPT ![g][accounts[a].name] = @ + 1]
    /\ granted' = granted \cup {<<g, a>>}
    /\ UNCHANGED <<group_list, account, files, registered, mishaps>>

group_member_del(u, g, a) ==
    LET k == Removable(g, a, 1) IN
    /\ Command /\ Admin(u)
    /\ g \in group_list
    /\ group_has_member(g, a)
    /\ accounts' = [accounts EXCEPT ![a].groups[g] = @ - k]
    /\ members' = [members EXCEPT ![g][accounts[a].name] = @ - k]
    /\ UNCHANGED <<group_list, account, files, history>>
-----------------------------------------------------------------------------
(* The files, written every five minutes and on the way down, and read on the  *)
(* way up.                                                                     *)

Named(n) == CHOOSE a \in DOMAIN accounts : accounts[a].name = n

AccountImage == [n \in {accounts[a].name : a \in DOMAIN accounts} |->
                   [id |-> Named(n), pass |-> accounts[Named(n)].pass,
                    login_masks |-> accounts[Named(n)].login_masks]]
GroupImage == [list |-> group_list, members |-> members]

account_db_write == account_db' = AccountImage
group_db_write == group_db' = GroupImage

\* Those of the databases `all' that W names are written; a crash may come, or a
\* write fail, between two of them.
database_write(W, all) ==
    /\ Sane /\ boots < world.boots /\ W # {}
    /\ IF "accounts" \in W THEN account_db_write ELSE UNCHANGED account_db
    /\ IF "groups" \in W THEN group_db_write ELSE UNCHANGED group_db
    /\ torn' = (W # all)
    /\ UNCHANGED <<dicts, account, history, bounds>>

\* The bot goes down, with or without a word, and comes up again.
restart ==
    /\ Sane /\ boots < world.boots
    /\ boots' = boots + 1
    /\ accounts' = account_db_read(account_db, group_db.members)
    /\ group_list' = group_db.list \cup {ADMINS}
    /\ members' = group_db_read(account_db, group_db.members)
    /\ account' = [u \in User |-> NONE]
    /\ mishaps' = IF torn THEN mishaps \cup {"torn"} ELSE mishaps
    /\ UNCHANGED <<files, registered, granted, world, room>>
-----------------------------------------------------------------------------
Quiet(u) ==
    \/ account_user_del(u)
    \/ auth(u)
    \/ login_by_mask(u)
    \/ \E n \in world.name : register(u, n)
    \/ pass(u)

OnAccount(u, a) ==
    \/ \E p \in world.user \cup {NOPASS} : oset_password(u, a, p)
    \/ \E m \in world.mask : oset_loginmask_add(u, a, m) \/ oset_loginmask_del(u, a, m)
    \/ \E n \in world.name : rename(u, a, n)

OnGroup(u, g) ==
    \/ group_add(u, g)
    \/ group_del(u, g)
    \/ \E a \in DOMAIN accounts : group_member_add(u, g, a) \/ group_member_del(u, g, a)

\* What leaves every account that there was.
Keep == \E u \in world.user :
    \/ Quiet(u)
    \/ \E a \in DOMAIN accounts : OnAccount(u, a)
    \/ \E g \in world.group : OnGroup(u, g)

Next ==
    \/ Keep
    \/ \E u \in world.user : unregister(u)
    \/ \E W \in SUBSET {"accounts", "groups"} : database_write(W, {"accounts", "groups"})
    \/ restart

Spec == Init /\ [][Next]_vars
-----------------------------------------------------------------------------
(* Properties.                                                                 *)

TypeOK ==
    /\ DOMAIN accounts \subseteq 1..registered
    /\ \A a \in DOMAIN accounts : accounts[a] \in Account
    /\ group_list \subseteq Group /\ ADMINS \in group_list
    /\ members \in [Group -> [Name -> Nat]]
    /\ account \in [User -> DOMAIN accounts \cup {NONE}]
    /\ DOMAIN account_db \subseteq Name
    /\ \A n \in DOMAIN account_db : account_db[n] \in Record
    /\ group_db \in [list : SUBSET Group, members : [Group -> [Name -> Nat]]]
    /\ torn \in BOOLEAN
    /\ registered \in 0..MaxAccount
    /\ granted \subseteq Group \X Id
    /\ mishaps \subseteq {"renamed", "dangling", "torn"}
    /\ world \in Worlds
    /\ room \in Nat /\ boots \in Nat

\* No two accounts have one name (account_find would see only one of them).
NamesDiffer == \A a, b \in DOMAIN accounts : accounts[a].name = accounts[b].name => a = b

\* As long as no member of a group was renamed: an account points at a group
\* exactly if the group lists its name, once; every name listed is an account's;
\* and no account points at a group that was freed (group_member_add,
\* group_member_del, group_del, account_del and the two readers keep it).
MembersMirrored == "renamed" \notin mishaps =>
    /\ \A g \in Group, a \in DOMAIN accounts :
          /\ accounts[a].groups[g] = members[g][accounts[a].name]
          /\ accounts[a].groups[g] \in {0, 1}
    /\ \A g \in Group, n \in Name : members[g][n] > 0 => account_find(n) # {} /\ g \in group_list
    /\ "dangling" \notin mishaps

\* Who is in a group was put there, he and not an earlier holder of his name,
\* whatever was unregistered, registered anew, removed and reloaded in between
\* (members are saved and found again by name).
MembersGranted == mishaps = {} =>
    \A a \in DOMAIN accounts, g \in Group : group_has_member(g, a) => <<g, a>> \in granted

\* An account without a password has a login mask: the two commands that could
\* take its last way in look at each other's half (oset_password, oset_loginmask).
WayIn == \A a \in DOMAIN accounts : accounts[a].pass = NOPASS => accounts[a].login_masks # {}
=============================================================================
