--------------------------- MODULE ChanAccessProofs ---------------------------
(* Proofs about accounts, groups and channels' lists of users, and about the    *)
(* three services that are checked with them: for any set of users, names,      *)
(* groups and channels, and any files to begin with that the commands could     *)
(* have written.                                                                *)
EXTENDS MCChanAccess, FiniteSetTheorems, TLAPS

(* The accounts and the lists: what the six parts of AccessSound need to be      *)
(* kept.                                                                         *)
IsFunction(f) == f = [x \in DOMAIN f |-> f[x]]

DictsOK ==
    /\ IsFunction(accounts) /\ IsFunction(chanregs)
    /\ \A c \in DOMAIN chanregs : IsFunction(chanregs[c])

\* The saved accounts are one to a number, given before, and have a way in.
AccountFileOK ==
    /\ \A n \in DOMAIN account_db :
          /\ account_db[n].id <= registered
          /\ account_db[n].pass = NOPASS => account_db[n].login_masks # {}
    /\ \A m, n \in DOMAIN account_db : account_db[m].id = account_db[n].id => m = n

\* The saved lists of members are as good as the lists were.
GroupFileOK ==
    /\ "renamed" \notin mishaps =>
          \A g \in Group, n \in Name :
             /\ group_db.members[g][n] \in {0, 1}
             /\ group_db.members[g][n] > 0 => g \in group_db.list
    /\ mishaps = {} /\ ~torn =>
          \A n \in DOMAIN account_db, g \in Group :
             group_db.members[g][n] > 0 => <<g, account_db[n].id>> \in granted

ChanFileOK ==
    /\ DOMAIN chanreg_db \subseteq Chan
    /\ \A c \in DOMAIN chanreg_db : \A n \in DOMAIN chanreg_db[c] : chanreg_db[c][n] \in Access

AccessInv == AccessSound /\ DictsOK /\ AccountFileOK /\ GroupFileOK /\ ChanFileOK

-----------------------------------------------------------------------------
(* Logging in and out, passwords and masks.                                    *)

\* The bounds of a world are within the constants.
LEMMA WorldIn ==
    ASSUME TypeOK
    PROVE  world.user \subseteq User /\ world.name \subseteq Name /\ world.group \subseteq Group /\ world.mask \subseteq Mask
BY AccountsAssumption DEF TypeOK

\* Who is logged in is nobody's concern but TypeOK's.
LEMMA LoginKeeps ==
    ASSUME AccessInv, NEW u \in User, NEW a \in DOMAIN accounts \cup {NONE},
           account_user_add(a, u), UNCHANGED <<dicts, files, history, bounds, chanVars>>
    PROVE  AccessInv'
<1> USE DEF dicts, files, history, bounds, chanVars
<1>1. TypeOK'
  BY DEF AccessInv, AccessSound, TypeOK, account_user_add
<1>2. (NamesDiffer /\ MembersMirrored /\ MembersGranted /\ WayIn /\ ListsLive)'
  BY DEF AccessInv, AccessSound, NamesDiffer, MembersMirrored, MembersGranted, WayIn, ListsLive, account_find, group_has_member
<1>3. (DictsOK /\ AccountFileOK /\ GroupFileOK /\ ChanFileOK)'
  BY DEF AccessInv, DictsOK, IsFunction, AccountFileOK, GroupFileOK, ChanFileOK
<1>4. QED
  BY <1>1, <1>2, <1>3 DEF AccessInv, AccessSound

\* Parts that an action on accounts and groups leaves alone when files and lists stay.
LEMMA FilesKept ==
    ASSUME AccessInv, UNCHANGED <<files, chanVars>>, registered' \in Nat, registered' >= registered,
           granted \subseteq granted', mishaps \subseteq mishaps'
    PROVE  (AccountFileOK /\ GroupFileOK /\ ChanFileOK)'
<1> USE DEF files, chanVars
<1>1. /\ \A n \in DOMAIN account_db : account_db[n].id \in Nat
      /\ registered \in Nat
  BY DEF AccessInv, AccessSound, TypeOK, Record, Id
<1>2. AccountFileOK'
  BY <1>1 DEF AccessInv, AccountFileOK
<1>3. GroupFileOK'
  BY DEF AccessInv, GroupFileOK
<1>4. QED
  BY <1>2, <1>3 DEF AccessInv, ChanFileOK

\* The lists stay good as long as no account goes.
LEMMA ListsKept ==
    ASSUME AccessInv, UNCHANGED chanVars, DOMAIN accounts \subseteq DOMAIN accounts'
    PROVE  ListsLive' /\ IsFunction(chanregs') /\ (\A c \in DOMAIN chanregs' : IsFunction(chanregs'[c]))
BY DEF AccessInv, AccessSound, ListsLive, DictsOK, chanVars

\* A password or the masks of one account change.
LEMMA ChangeKeeps ==
    ASSUME AccessInv, NEW a \in DOMAIN accounts, NEW field \in Account,
           field.name = accounts[a].name, field.groups = accounts[a].groups,
           field.pass = NOPASS => field.login_masks # {},
           Change(a, field), room' \in Nat, UNCHANGED <<world, boots, chanVars>>
    PROVE  AccessInv'
<1>1. accounts' = [accounts EXCEPT ![a] = field] /\ UNCHANGED <<group_list, members, account, files, history>>
  BY DEF Change
<1>2. /\ DOMAIN accounts' = DOMAIN accounts
      /\ \A b \in DOMAIN accounts : accounts'[b].name = accounts[b].name /\ accounts'[b].groups = accounts[b].groups
  BY <1>1
<1>3. TypeOK'
  BY <1>1 DEF AccessInv, AccessSound, TypeOK, files, history
<1>4. NamesDiffer'
  BY <1>2 DEF AccessInv, AccessSound, NamesDiffer
<1>5. MembersMirrored'
  <2>1. \A n \in Name : account_find(n)' = account_find(n)
    BY <1>2 DEF account_find
  <2>2. QED
    BY <2>1, <1>1, <1>2 DEF AccessInv, AccessSound, MembersMirrored, history
<1>6. MembersGranted'
  BY <1>1, <1>2 DEF AccessInv, AccessSound, MembersGranted, history, group_has_member
<1>7. WayIn'
  BY <1>1 DEF AccessInv, AccessSound, WayIn
<1>8. IsFunction(accounts')
  BY <1>1 DEF IsFunction
<1>9. (AccountFileOK /\ GroupFileOK /\ ChanFileOK)'
  BY <1>1, FilesKept DEF history, AccessInv, AccessSound, TypeOK
<1>10. QED
  BY <1>2, <1>3, <1>4, <1>5, <1>6, <1>7, <1>8, <1>9, ListsKept DEF AccessInv, AccessSound, DictsOK

-----------------------------------------------------------------------------
(* Accounts come, are renamed and go.                                          *)

\* register: a new number, and the first account becomes an admin.
LEMMA register_Keeps ==
    ASSUME AccessInv, NEW u \in User, NEW n \in Name, register(u, n), UNCHANGED chanVars
    PROVE  AccessInv'
<1> DEFINE a == registered + 1
           first == DOMAIN accounts = {}
           new == [name |-> n, pass |-> u, login_masks |-> {},
                   groups |-> [g \in Group |-> IF first /\ g = ADMINS THEN 1 ELSE 0]]
<1>0. /\ registered \in Nat /\ registered < MaxAccount /\ MaxAccount \in Nat
      /\ DOMAIN accounts \subseteq 1..registered
      /\ ADMINS \in Group /\ NOPASS \notin User /\ NONE \notin Id
  BY AccountsAssumption DEF AccessInv, AccessSound, TypeOK, register, Id
<1>1. /\ room' \in Nat /\ UNCHANGED <<world, boots>>
      /\ account_find(n) = {}
      /\ accounts' = [x \in DOMAIN accounts \cup {a} |-> IF x = a THEN new ELSE accounts[x]]
      /\ members' = IF first THEN [members EXCEPT ![ADMINS][n] = @ + 1] ELSE members
      /\ granted' = IF first THEN granted \cup {<<ADMINS, a>>} ELSE granted
      /\ account' = [account EXCEPT ![u] = a]
      /\ registered' = a
      /\ UNCHANGED <<group_list, files, mishaps>>
  BY DEF register, Command, account_user_add, AccessInv, AccessSound, TypeOK
<1>2. new \in Account /\ new.name = n /\ new.pass = u
  BY DEF Account
<1>3. /\ DOMAIN accounts' = DOMAIN accounts \cup {a}
      /\ a \notin DOMAIN accounts
      /\ accounts'[a] = new
      /\ \A b \in DOMAIN accounts : accounts'[b] = accounts[b]
  BY <1>0, <1>1
<1>4. a \in Id
  BY <1>0 DEF Id
<1> HIDE DEF new
<1>5. TypeOK'
  <2>1. DOMAIN accounts' \subseteq 1..registered'
    BY <1>0, <1>1, <1>3
  <2>2. \A b \in DOMAIN accounts' : accounts'[b] \in Account
    BY <1>2, <1>3 DEF AccessInv, AccessSound, TypeOK
  <2>3. members' \in [Group -> [Name -> Nat]]
    BY <1>0, <1>1 DEF AccessInv, AccessSound, TypeOK
  <2>4. account' \in [User -> DOMAIN accounts' \cup {NONE}]
    BY <1>1, <1>3 DEF AccessInv, AccessSound, TypeOK
  <2>5. granted' \subseteq Group \X Id
    BY <1>0, <1>1, <1>4 DEF AccessInv, AccessSound, TypeOK
  <2>6. registered' \in 0..MaxAccount
    BY <1>0, <1>1
  <2>7. QED
    BY <1>1, <2>1, <2>2, <2>3, <2>4, <2>5, <2>6 DEF AccessInv, AccessSound, TypeOK, files
<1>6. NamesDiffer'
  BY <1>1, <1>2, <1>3 DEF AccessInv, AccessSound, NamesDiffer, account_find
<1>7. ASSUME first PROVE MembersMirrored'
  <2>1. SUFFICES ASSUME "renamed" \notin mishaps PROVE MembersMirrored'
    BY <1>1 DEF MembersMirrored
  <2>2. \A g \in Group, b \in DOMAIN accounts' :
           accounts'[b].groups[g] = (IF g = ADMINS THEN 1 ELSE 0) /\ accounts'[b].name = n
    BY <1>2, <1>3, <1>7 DEF new
  <2>3. \A g \in Group, m \in Name : members'[g][m] = IF g = ADMINS /\ m = n THEN 1 ELSE 0
    <3>1. \A g \in Group, m \in Name : members[g][m] = 0
      BY <1>7, <2>1 DEF AccessInv, AccessSound, TypeOK, MembersMirrored, account_find
    <3>2. QED
      BY <3>1, <1>0, <1>1, <1>7 DEF AccessInv, AccessSound, TypeOK
  <2>4. account_find(n)' # {} /\ ADMINS \in group_list'
    BY <1>1, <1>2, <1>3 DEF account_find, AccessInv, AccessSound, TypeOK
  <2>5. \A g \in Group, m \in Name : members'[g][m] > 0 => account_find(m)' # {} /\ g \in group_list'
    BY <2>3, <2>4
  <2>6. \A g \in Group, b \in DOMAIN accounts' :
           accounts'[b].groups[g] = members'[g][accounts'[b].name] /\ accounts'[b].groups[g] \in {0, 1}
    BY <2>2, <2>3
  <2>7. "dangling" \notin mishaps'
    BY <1>1, <2>1 DEF AccessInv, AccessSound, MembersMirrored
  <2>8. QED
    BY <2>5, <2>6, <2>7 DEF MembersMirrored
<1>8. ASSUME ~first PROVE MembersMirrored'
  <2>1. SUFFICES ASSUME "renamed" \notin mishaps PROVE MembersMirrored'
    BY <1>1 DEF MembersMirrored
  <2>2. members' = members
    BY <1>1, <1>8
  <2>3. \A g \in Group : members[g][n] = 0
    <3>1. \A g \in Group, m \in Name : members[g][m] \in Nat /\ (members[g][m] > 0 => account_find(m) # {})
      BY <2>1 DEF AccessInv, AccessSound, TypeOK, MembersMirrored
    <3>2. QED
      BY <1>1, <3>1
  <2>4. \A g \in Group : accounts'[a].groups[g] = 0 /\ accounts'[a].name = n
    BY <1>2, <1>3, <1>8 DEF new
  <2>5. \A m \in Name : account_find(m) \subseteq account_find(m)'
    BY <1>3 DEF account_find
  <2>6. QED
    BY <1>1, <1>3, <2>1, <2>2, <2>3, <2>4, <2>5 DEF AccessInv, AccessSound, MembersMirrored
<1>9. MembersGranted'
  <2>1. \A g \in Group : accounts'[a].groups[g] > 0 => first /\ g = ADMINS
    BY <1>3 DEF new
  <2>2. first => <<ADMINS, a>> \in granted'
    BY <1>1
  <2>3. QED
    BY <1>1, <1>3, <2>1, <2>2 DEF AccessInv, AccessSound, MembersGranted, group_has_member
<1>10. WayIn'
  BY <1>0, <1>2, <1>3 DEF AccessInv, AccessSound, WayIn
<1>11. IsFunction(accounts')
  BY <1>1 DEF IsFunction
<1>12. (AccountFileOK /\ GroupFileOK /\ ChanFileOK)'
  BY <1>0, <1>1, FilesKept
<1>13. QED
  BY <1>3, <1>5, <1>6, <1>7, <1>8, <1>9, <1>10, <1>11, <1>12, ListsKept DEF AccessInv, AccessSound, DictsOK

\* A name that is free is given to an account.
LEMMA rename_Keeps ==
    ASSUME AccessInv, NEW u \in User, NEW a \in DOMAIN accounts, NEW n \in Name,
           rename(u, a, n), UNCHANGED chanVars
    PROVE  AccessInv'
<1>1. /\ room' \in Nat /\ UNCHANGED <<world, boots>>
      /\ account_find(n) = {}
      /\ accounts' = [accounts EXCEPT ![a].name = n]
      /\ mishaps' = IF \E g \in Group : group_has_member(g, a) THEN mishaps \cup {"renamed"} ELSE mishaps
      /\ UNCHANGED <<group_list, members, account, files, registered, granted>>
  BY DEF rename, Command, AccessInv, AccessSound, TypeOK
<1>2. \A b \in DOMAIN accounts : accounts[b] \in Account
  BY DEF AccessInv, AccessSound, TypeOK
<1>3. /\ DOMAIN accounts' = DOMAIN accounts
      /\ \A b \in DOMAIN accounts :
            /\ accounts'[b] \in Account
            /\ accounts'[b].name = IF b = a THEN n ELSE accounts[b].name
            /\ accounts'[b].pass = accounts[b].pass /\ accounts'[b].login_masks = accounts[b].login_masks
            /\ accounts'[b].groups = accounts[b].groups
  BY <1>1, <1>2 DEF Account
<1>4. TypeOK'
  BY <1>1, <1>3 DEF AccessInv, AccessSound, TypeOK, files
<1>5. NamesDiffer'
  BY <1>1, <1>3 DEF AccessInv, AccessSound, NamesDiffer, account_find
<1>6. MembersMirrored'
  <2>1. SUFFICES ASSUME "renamed" \notin mishaps' PROVE MembersMirrored'
    BY DEF MembersMirrored
  <2>2. mishaps' = mishaps /\ \A g \in Group : accounts[a].groups[g] = 0
    BY <1>1, <1>2, <2>1 DEF group_has_member, Account
  <2>3. \A g \in Group : members[g][n] = 0 /\ members[g][accounts[a].name] = 0
    BY <1>1, <2>1, <2>2 DEF AccessInv, AccessSound, TypeOK, MembersMirrored
  <2>4. \A m \in Name : m # accounts[a].name => account_find(m) \subseteq account_find(m)'
    BY <1>3 DEF account_find
  <2>5. QED
    BY <1>1, <1>3, <2>1, <2>2, <2>3, <2>4 DEF AccessInv, AccessSound, MembersMirrored
<1>7. MembersGranted'
  BY <1>1, <1>3 DEF AccessInv, AccessSound, MembersGranted, group_has_member
<1>8. WayIn'
  BY <1>3 DEF AccessInv, AccessSound, WayIn
<1>9. IsFunction(accounts')
  BY <1>1 DEF IsFunction
<1>10. (AccountFileOK /\ GroupFileOK /\ ChanFileOK)'
  BY <1>1, FilesKept DEF AccessInv, AccessSound, TypeOK
<1>11. QED
  BY <1>3, <1>4, <1>5, <1>6, <1>7, <1>8, <1>9, <1>10, ListsKept DEF AccessInv, AccessSound, DictsOK

\* The account goes, with its names in groups and on lists.
LEMMA chanreg_account_del_Keeps ==
    ASSUME AccessInv, NEW u \in User, chanreg_account_del(u)
    PROVE  AccessInv'
<1> DEFINE a == account[u]
<1>1. /\ room' \in Nat /\ UNCHANGED <<world, boots>>
      /\ Authed(u)
      /\ accounts' = [x \in DOMAIN accounts \ {a} |-> accounts[x]]
      /\ members' = [g \in Group |->
                      [members[g] EXCEPT ![accounts[a].name] = @ - Removable(g, a, accounts[a].groups[g])]]
      /\ account' = [x \in User |-> IF account[x] = a THEN NONE ELSE account[x]]
      /\ UNCHANGED <<group_list, files, registered, granted, mishaps, staff_rule, chanreg_db>>
      /\ chanregs' = [c \in DOMAIN chanregs |-> Without(c, a)]
  BY DEF chanreg_account_del, unregister, Command, AccessInv, AccessSound, TypeOK, history
<1>2. a \in DOMAIN accounts /\ accounts[a] \in Account
  BY <1>1 DEF AccessInv, AccessSound, TypeOK, Authed
<1>3. PICK n \in Name : n = accounts[a].name
  BY <1>2 DEF Account
<1>4. \A g \in Group : /\ Removable(g, a, accounts[a].groups[g]) \in Nat
                       /\ Removable(g, a, accounts[a].groups[g]) <= members[g][n]
                       /\ accounts[a].groups[g] = members[g][n] => Removable(g, a, accounts[a].groups[g]) = members[g][n]
  BY <1>2, <1>3 DEF AccessInv, AccessSound, TypeOK, Removable, Account
<1>5. \A g \in Group, m \in Name :
         members'[g][m] = IF m = n THEN members[g][m] - Removable(g, a, accounts[a].groups[g]) ELSE members[g][m]
  BY <1>1, <1>3 DEF AccessInv, AccessSound, TypeOK
<1>6. members' \in [Group -> [Name -> Nat]]
  <2>1. \A g \in Group : members'[g] \in [Name -> Nat]
    <3> TAKE g \in Group
    <3>1. members[g] \in [Name -> Nat]
      BY DEF AccessInv, AccessSound, TypeOK
    <3>2. PICK k \in Nat : k = Removable(g, a, accounts[a].groups[g]) /\ k <= members[g][n]
      BY <1>4
    <3>3. members'[g] = [members[g] EXCEPT ![n] = @ - k]
      BY <1>1, <1>3, <3>2
    <3>4. QED
      BY <3>1, <3>2, <3>3
  <2>2. QED
    BY <1>1, <2>1
<1>7. TypeOK'
  BY <1>1, <1>6 DEF AccessInv, AccessSound, TypeOK, files
<1>8. NamesDiffer'
  BY <1>1 DEF AccessInv, AccessSound, NamesDiffer
<1>9. MembersMirrored'
  <2>1. SUFFICES ASSUME "renamed" \notin mishaps PROVE MembersMirrored'
    BY <1>1 DEF MembersMirrored
  <2>2. \A g \in Group : members'[g][n] = 0
    BY <1>2, <1>3, <1>4, <1>5, <2>1 DEF AccessInv, AccessSound, TypeOK, MembersMirrored
  <2>3. \A m \in Name : m # n => account_find(m) \subseteq account_find(m)' /\ \A g \in Group : members'[g][m] = members[g][m]
    BY <1>1, <1>3, <1>5 DEF account_find
  <2>4. \A b \in DOMAIN accounts' : b \in DOMAIN accounts /\ accounts'[b] = accounts[b] /\ accounts[b].name # n
                                    /\ accounts[b].name \in Name
    BY <1>1, <1>2, <1>3 DEF AccessInv, AccessSound, NamesDiffer, TypeOK, Account
  <2>5. \A g \in Group, m \in Name : members'[g][m] > 0 => account_find(m)' # {} /\ g \in group_list'
    BY <1>1, <2>1, <2>2, <2>3 DEF AccessInv, AccessSound, MembersMirrored
  <2>6. \A g \in Group, b \in DOMAIN accounts' :
           accounts'[b].groups[g] = members'[g][accounts'[b].name] /\ accounts'[b].groups[g] \in {0, 1}
    BY <2>1, <2>3, <2>4 DEF AccessInv, AccessSound, MembersMirrored
  <2>7. QED
    BY <1>1, <2>1, <2>5, <2>6 DEF AccessInv, AccessSound, MembersMirrored
<1>10. MembersGranted'
  BY <1>1 DEF AccessInv, AccessSound, MembersGranted, group_has_member
<1>11. WayIn'
  BY <1>1 DEF AccessInv, AccessSound, WayIn
<1>12. ListsLive'
  BY <1>1 DEF AccessInv, AccessSound, ListsLive, Without
<1>13. DictsOK'
  BY <1>1 DEF DictsOK, IsFunction, Without
<1>14. (AccountFileOK /\ GroupFileOK /\ ChanFileOK)'
  BY <1>1 DEF AccessInv, AccountFileOK, GroupFileOK, ChanFileOK, files
<1>15. QED
  BY <1>7, <1>8, <1>9, <1>10, <1>11, <1>12, <1>13, <1>14 DEF AccessInv, AccessSound

-----------------------------------------------------------------------------
(* Groups.                                                                     *)

\* group add: a new list without members.
LEMMA group_add_Keeps ==
    ASSUME AccessInv, NEW u \in User, NEW g \in Group, group_add(u, g), UNCHANGED chanVars
    PROVE  AccessInv'
<1>1. /\ room' \in Nat /\ UNCHANGED <<world, boots>>
      /\ g \notin group_list /\ group_list' = group_list \cup {g}
      /\ members' = [members EXCEPT ![g] = NoMembers]
      /\ UNCHANGED <<accounts, account, files, registered, granted, mishaps>>
  BY DEF group_add, Command, AccessInv, AccessSound, TypeOK, history
<1>2. TypeOK'
  BY <1>1 DEF AccessInv, AccessSound, TypeOK, files, NoMembers
<1>3. MembersMirrored'
  <2>1. SUFFICES ASSUME "renamed" \notin mishaps PROVE MembersMirrored'
    BY <1>1 DEF MembersMirrored
  <2>2. \A n \in Name : members[g][n] = 0
    <3>1. \A n \in Name : members[g][n] \in Nat /\ (members[g][n] > 0 => g \in group_list)
      BY <2>1 DEF AccessInv, AccessSound, TypeOK, MembersMirrored
    <3>2. QED
      BY <1>1, <3>1
  <2>3. members' = members
    BY <1>1, <2>2 DEF AccessInv, AccessSound, TypeOK, NoMembers
  <2>4. QED
    BY <1>1, <2>3 DEF AccessInv, AccessSound, MembersMirrored, account_find
<1>4. (NamesDiffer /\ MembersGranted /\ WayIn)'
  BY <1>1 DEF AccessInv, AccessSound, NamesDiffer, MembersGranted, WayIn, group_has_member
<1>5. (AccountFileOK /\ GroupFileOK /\ ChanFileOK)'
  BY <1>1, FilesKept DEF AccessInv, AccessSound, TypeOK
<1>6. QED
  BY <1>1, <1>2, <1>3, <1>4, <1>5, ListsKept DEF AccessInv, AccessSound, DictsOK

\* Nobody points at a group that is freed, if no member was renamed.
LEMMA group_del_Keeps ==
    ASSUME AccessInv, NEW u \in User, NEW g \in Group, group_del(u, g), UNCHANGED chanVars
    PROVE  AccessInv'
<1> DEFINE left(a) == accounts[a].groups[g] - Removable(g, a, accounts[a].groups[g])
<1>1. /\ room' \in Nat /\ UNCHANGED <<world, boots>>
      /\ g \in group_list \ {ADMINS} /\ group_list' = group_list \ {g}
      /\ accounts' = [a \in DOMAIN accounts |-> [accounts[a] EXCEPT !.groups[g] = left(a)]]
      /\ members' = [members EXCEPT ![g] = NoMembers]
      /\ mishaps' = IF \E a \in DOMAIN accounts : left(a) > 0 THEN mishaps \cup {"dangling"} ELSE mishaps
      /\ UNCHANGED <<account, files, registered, granted>>
  BY DEF group_del, Command, AccessInv, AccessSound, TypeOK
<1>2. \A a \in DOMAIN accounts :
         /\ left(a) \in Nat /\ left(a) <= accounts[a].groups[g]
         /\ accounts[a].groups[g] = members[g][accounts[a].name] => left(a) = 0
  BY DEF AccessInv, AccessSound, TypeOK, Account, Removable
<1> HIDE DEF left
<1>3. \A a \in DOMAIN accounts : accounts[a] \in Account
  BY DEF AccessInv, AccessSound, TypeOK
<1>4. /\ DOMAIN accounts' = DOMAIN accounts
      /\ \A a \in DOMAIN accounts :
            /\ accounts'[a] \in Account
            /\ accounts'[a].name = accounts[a].name /\ accounts'[a].name \in Name /\ accounts'[a].pass = accounts[a].pass
            /\ accounts'[a].login_masks = accounts[a].login_masks
            /\ \A h \in Group : accounts'[a].groups[h] = IF h = g THEN left(a) ELSE accounts[a].groups[h]
  BY <1>1, <1>2, <1>3 DEF Account
<1>5. TypeOK'
  <2>1. mishaps' \subseteq {"renamed", "dangling", "torn"}
    BY <1>1 DEF AccessInv, AccessSound, TypeOK
  <2>2. members' \in [Group -> [Name -> Nat]]
    BY <1>1 DEF AccessInv, AccessSound, TypeOK, NoMembers
  <2>3. group_list' \subseteq Group /\ ADMINS \in group_list'
    BY <1>1 DEF AccessInv, AccessSound, TypeOK
  <2>4. QED
    BY <1>1, <1>4, <2>1, <2>2, <2>3 DEF AccessInv, AccessSound, TypeOK, files
<1>6. (NamesDiffer /\ WayIn)'
  BY <1>4 DEF AccessInv, AccessSound, NamesDiffer, WayIn
<1>7. MembersMirrored'
  <2>1. SUFFICES ASSUME "renamed" \notin mishaps PROVE MembersMirrored'
    BY <1>1 DEF MembersMirrored
  <2>2. \A a \in DOMAIN accounts : left(a) = 0
    BY <1>2, <2>1, <1>1 DEF AccessInv, AccessSound, TypeOK, MembersMirrored
  <2>3. "dangling" \notin mishaps'
    BY <1>1, <2>1, <2>2 DEF AccessInv, AccessSound, MembersMirrored
  <2>4. \A h \in Group, n \in Name : members'[h][n] = IF h = g THEN 0 ELSE members[h][n]
    BY <1>1 DEF AccessInv, AccessSound, TypeOK, NoMembers
  <2>5. \A h \in Group, a \in DOMAIN accounts :
           accounts'[a].groups[h] = members'[h][accounts'[a].name] /\ accounts'[a].groups[h] \in {0, 1}
    BY <1>4, <2>1, <2>2, <2>4 DEF AccessInv, AccessSound, MembersMirrored
  <2>6. \A n \in Name : account_find(n)' = account_find(n)
    BY <1>4 DEF account_find
  <2>7. \A h \in Group, n \in Name : members'[h][n] > 0 => account_find(n)' # {} /\ h \in group_list'
    BY <1>1, <2>1, <2>4, <2>6 DEF AccessInv, AccessSound, MembersMirrored
  <2>8. QED
    BY <1>4, <2>3, <2>5, <2>7 DEF MembersMirrored
<1>8. MembersGranted'
  <2>1. SUFFICES ASSUME mishaps' = {}, NEW a \in DOMAIN accounts, NEW h \in Group, accounts'[a].groups[h] > 0
                 PROVE  <<h, a>> \in granted
    BY <1>1, <1>4 DEF MembersGranted, group_has_member
  <2>2. mishaps = {}
    BY <1>1, <2>1
  <2>3. accounts[a].groups[h] > 0
    BY <1>2, <1>3, <1>4, <2>1 DEF Account
  <2>4. QED
    BY <2>2, <2>3 DEF AccessInv, AccessSound, MembersGranted, group_has_member
<1>9. IsFunction(accounts')
  BY <1>1 DEF IsFunction
<1>10. (AccountFileOK /\ GroupFileOK /\ ChanFileOK)'
  BY <1>1, FilesKept DEF AccessInv, AccessSound, TypeOK
<1>11. QED
  BY <1>4, <1>5, <1>6, <1>7, <1>8, <1>9, <1>10, ListsKept DEF AccessInv, AccessSound, DictsOK

\* group member add: one name on one list, granted.
LEMMA group_member_add_Keeps ==
    ASSUME AccessInv, NEW u \in User, NEW g \in Group, NEW a \in DOMAIN accounts,
           group_member_add(u, g, a), UNCHANGED chanVars
    PROVE  AccessInv'
<1>1. /\ room' \in Nat /\ UNCHANGED <<world, boots>>
      /\ g \in group_list /\ ~group_has_member(g, a)
      /\ accounts' = [accounts EXCEPT ![a].groups[g] = @ + 1]
      /\ members' = [members EXCEPT ![g][accounts[a].name] = @ + 1]
      /\ granted' = granted \cup {<<g, a>>}
      /\ UNCHANGED <<group_list, account, files, registered, mishaps>>
  BY DEF group_member_add, Command, AccessInv, AccessSound, TypeOK
<1>2. \A b \in DOMAIN accounts : accounts[b] \in Account
  BY DEF AccessInv, AccessSound, TypeOK
<1>3. PICK n \in Name : n = accounts[a].name
  BY <1>2 DEF Account
<1>4. /\ DOMAIN accounts' = DOMAIN accounts
      /\ \A b \in DOMAIN accounts :
            /\ accounts'[b] \in Account
            /\ accounts'[b].name = accounts[b].name /\ accounts'[b].name \in Name /\ accounts'[b].pass = accounts[b].pass
            /\ accounts'[b].login_masks = accounts[b].login_masks
            /\ \A h \in Group : accounts'[b].groups[h] = accounts[b].groups[h] + IF b = a /\ h = g THEN 1 ELSE 0
  BY <1>1, <1>2 DEF Account
<1>5. /\ members' \in [Group -> [Name -> Nat]]
      /\ \A h \in Group, m \in Name : members'[h][m] = members[h][m] + IF h = g /\ m = n THEN 1 ELSE 0
  BY <1>1, <1>3 DEF AccessInv, AccessSound, TypeOK
<1>6. TypeOK'
  <2>1. a \in Id
    BY AccountsAssumption DEF AccessInv, AccessSound, TypeOK, Id
  <2>2. granted' \subseteq Group \X Id
    BY <1>1, <2>1 DEF AccessInv, AccessSound, TypeOK
  <2>3. QED
    BY <1>1, <1>4, <1>5, <2>2 DEF AccessInv, AccessSound, TypeOK, files
<1>7. (NamesDiffer /\ WayIn)'
  BY <1>4 DEF AccessInv, AccessSound, NamesDiffer, WayIn
<1>8. MembersMirrored'
  <2>1. SUFFICES ASSUME "renamed" \notin mishaps PROVE MembersMirrored'
    BY <1>1 DEF MembersMirrored
  <2>2. accounts[a].groups[g] = 0
    BY <1>1, <1>2 DEF group_has_member, Account
  <2>3. \A b \in DOMAIN accounts : b # a => accounts[b].name # n
    BY <1>3 DEF AccessInv, AccessSound, NamesDiffer
  <2>4. \A h \in Group, b \in DOMAIN accounts :
           accounts'[b].groups[h] = members'[h][accounts'[b].name] /\ accounts'[b].groups[h] \in {0, 1}
    BY <1>3, <1>4, <1>5, <2>1, <2>2, <2>3 DEF AccessInv, AccessSound, MembersMirrored
  <2>5. a \in account_find(n)' /\ \A m \in Name : account_find(m)' = account_find(m)
    BY <1>3, <1>4 DEF account_find
  <2>6. \A h \in Group, m \in Name : members'[h][m] > 0 => account_find(m)' # {} /\ h \in group_list'
    <3> TAKE h \in Group, m \in Name
    <3>1. CASE h = g /\ m = n
      BY <1>1, <2>5, <3>1
    <3>2. CASE ~(h = g /\ m = n)
      <4>1. members'[h][m] = members[h][m]
        BY <1>5, <3>2 DEF AccessInv, AccessSound, TypeOK
      <4>2. QED
        BY <1>1, <2>1, <2>5, <4>1 DEF AccessInv, AccessSound, MembersMirrored
    <3>3. QED
      BY <3>1, <3>2
  <2>7. QED
    BY <1>1, <1>4, <2>1, <2>4, <2>6 DEF AccessInv, AccessSound, MembersMirrored
<1>9. MembersGranted'
  <2>1. SUFFICES ASSUME mishaps = {}, NEW b \in DOMAIN accounts, NEW h \in Group, accounts'[b].groups[h] > 0
                 PROVE  <<h, b>> \in granted'
    BY <1>1, <1>4 DEF MembersGranted, group_has_member
  <2>2. CASE b = a /\ h = g
    BY <1>1, <2>2
  <2>3. CASE ~(b = a /\ h = g)
    BY <1>1, <1>2, <1>4, <2>1, <2>3 DEF AccessInv, AccessSound, MembersGranted, group_has_member, Account
  <2>4. QED
    BY <2>2, <2>3
<1>10. IsFunction(accounts')
  BY <1>1 DEF IsFunction
<1>11. (AccountFileOK /\ GroupFileOK /\ ChanFileOK)'
  BY <1>1, FilesKept DEF AccessInv, AccessSound, TypeOK
<1>12. QED
  BY <1>4, <1>6, <1>7, <1>8, <1>9, <1>10, <1>11, ListsKept DEF AccessInv, AccessSound, DictsOK

\* group member del: the name is off the list, and what was granted is taken back.
LEMMA group_member_del_Keeps ==
    ASSUME AccessInv, NEW u \in User, NEW g \in Group, NEW a \in DOMAIN accounts,
           group_member_del(u, g, a), UNCHANGED chanVars
    PROVE  AccessInv'
<1>1. PICK k : k = Removable(g, a, 1)
  OBVIOUS
<1>2. /\ room' \in Nat /\ UNCHANGED <<world, boots>>
      /\ group_has_member(g, a)
      /\ accounts' = [accounts EXCEPT ![a].groups[g] = @ - k]
      /\ members' = [members EXCEPT ![g][accounts[a].name] = @ - k]
      /\ UNCHANGED <<group_list, account, files, registered, granted, mishaps>>
  BY <1>1 DEF group_member_del, Command, AccessInv, AccessSound, TypeOK, history
<1>3. \A b \in DOMAIN accounts : accounts[b] \in Account
  BY DEF AccessInv, AccessSound, TypeOK
<1>4. PICK n \in Name : n = accounts[a].name
  BY <1>3 DEF Account
<1>5. /\ k \in {0, 1} /\ k <= accounts[a].groups[g] /\ k <= members[g][n]
      /\ members[g][n] = 1 => k = 1
  BY <1>1, <1>2, <1>3, <1>4 DEF Removable, group_has_member, AccessInv, AccessSound, TypeOK, Account
<1>6. /\ DOMAIN accounts' = DOMAIN accounts
      /\ \A b \in DOMAIN accounts :
            /\ accounts'[b] \in Account
            /\ accounts'[b].name = accounts[b].name /\ accounts'[b].name \in Name /\ accounts'[b].pass = accounts[b].pass
            /\ accounts'[b].login_masks = accounts[b].login_masks
            /\ \A h \in Group : accounts'[b].groups[h] = accounts[b].groups[h] - IF b = a /\ h = g THEN k ELSE 0
  BY <1>2, <1>3, <1>5 DEF Account
<1>7. /\ members' \in [Group -> [Name -> Nat]]
      /\ \A h \in Group, m \in Name : members'[h][m] = members[h][m] - IF h = g /\ m = n THEN k ELSE 0
  BY <1>2, <1>4, <1>5 DEF AccessInv, AccessSound, TypeOK
<1>8. TypeOK'
  BY <1>2, <1>6, <1>7 DEF AccessInv, AccessSound, TypeOK, files
<1>9. (NamesDiffer /\ WayIn)'
  BY <1>6 DEF AccessInv, AccessSound, NamesDiffer, WayIn
<1>10. MembersMirrored'
  <2>1. SUFFICES ASSUME "renamed" \notin mishaps PROVE MembersMirrored'
    BY <1>2 DEF MembersMirrored
  <2>2. accounts[a].groups[g] = 1 /\ k = 1
    BY <1>2, <1>3, <1>4, <1>5, <2>1 DEF group_has_member, Account, AccessInv, AccessSound, MembersMirrored
  <2>3. \A b \in DOMAIN accounts : b # a => accounts[b].name # n
    BY <1>4 DEF AccessInv, AccessSound, NamesDiffer
  <2>4. \A h \in Group, b \in DOMAIN accounts :
           accounts'[b].groups[h] = members'[h][accounts'[b].name] /\ accounts'[b].groups[h] \in {0, 1}
    BY <1>4, <1>6, <1>7, <2>1, <2>2, <2>3 DEF AccessInv, AccessSound, MembersMirrored
  <2>5. \A m \in Name : account_find(m)' = account_find(m)
    BY <1>6 DEF account_find
  <2>6. \A h \in Group, m \in Name : members'[h][m] > 0 => members[h][m] > 0
    BY <1>5, <1>7 DEF AccessInv, AccessSound, TypeOK
  <2>7. QED
    BY <1>2, <1>6, <2>1, <2>4, <2>5, <2>6 DEF AccessInv, AccessSound, MembersMirrored
<1>11. MembersGranted'
  <2>1. \A b \in DOMAIN accounts, h \in Group : accounts'[b].groups[h] > 0 => accounts[b].groups[h] > 0
    BY <1>3, <1>5, <1>6 DEF Account
  <2>2. QED
    BY <1>2, <1>6, <2>1 DEF AccessInv, AccessSound, MembersGranted, group_has_member
<1>12. IsFunction(accounts')
  BY <1>2 DEF IsFunction
<1>13. (AccountFileOK /\ GroupFileOK /\ ChanFileOK)'
  BY <1>2, FilesKept DEF AccessInv, AccessSound, TypeOK
<1>14. QED
  BY <1>6, <1>8, <1>9, <1>10, <1>11, <1>12, <1>13, ListsKept DEF AccessInv, AccessSound, DictsOK

-----------------------------------------------------------------------------
(* Files.                                                                      *)

\* The name of a live account is found again.
LEMMA NamedIsIt ==
    ASSUME AccessInv, NEW a \in DOMAIN accounts
    PROVE  Named(accounts[a].name) = a
BY DEF Named, AccessInv, AccessSound, NamesDiffer

\* What is saved of an account.
LEMMA ImageOf ==
    ASSUME AccessInv
    PROVE  /\ DOMAIN AccountImage = {accounts[a].name : a \in DOMAIN accounts}
           /\ \A a \in DOMAIN accounts :
                 AccountImage[accounts[a].name] =
                    [id |-> a, pass |-> accounts[a].pass, login_masks |-> accounts[a].login_masks]
BY NamedIsIt DEF AccountImage

\* The image of the accounts is what AccountFileOK asks of a file.
LEMMA AccountImageOK ==
    ASSUME AccessInv
    PROVE  /\ DOMAIN AccountImage \subseteq Name
           /\ \A n \in DOMAIN AccountImage :
                 /\ AccountImage[n] \in Record
                 /\ AccountImage[n].id \in DOMAIN accounts /\ accounts[AccountImage[n].id].name = n
                 /\ AccountImage[n].id <= registered
                 /\ AccountImage[n].pass = NOPASS => AccountImage[n].login_masks # {}
           /\ \A m, n \in DOMAIN AccountImage : AccountImage[m].id = AccountImage[n].id => m = n
<1>1. \A a \in DOMAIN accounts : /\ accounts[a] \in Account /\ a \in Id /\ a <= registered
                                 /\ accounts[a].pass = NOPASS => accounts[a].login_masks # {}
  <2> TAKE a \in DOMAIN accounts
  <2>1. TypeOK /\ WayIn
    BY DEF AccessInv, AccessSound
  <2>2. registered \in 0..MaxAccount /\ DOMAIN accounts \subseteq 1..registered /\ accounts[a] \in Account
    BY <2>1 DEF TypeOK
  <2>3. a \in Id /\ a <= registered
    BY <2>2, AccountsAssumption DEF Id
  <2> QED
    BY <2>1, <2>2, <2>3 DEF WayIn
<1>2. ASSUME NEW n \in DOMAIN AccountImage
      PROVE  \E a \in DOMAIN accounts :
                /\ accounts[a].name = n
                /\ AccountImage[n] = [id |-> a, pass |-> accounts[a].pass, login_masks |-> accounts[a].login_masks]
  <2>1. PICK a \in DOMAIN accounts : accounts[a].name = n
    BY ImageOf
  <2>2. QED
    BY <2>1, ImageOf
<1>3. ASSUME NEW n \in DOMAIN AccountImage
      PROVE  /\ n \in Name /\ AccountImage[n] \in Record
             /\ AccountImage[n].id \in DOMAIN accounts /\ accounts[AccountImage[n].id].name = n
             /\ AccountImage[n].id <= registered
             /\ AccountImage[n].pass = NOPASS => AccountImage[n].login_masks # {}
  <2>1. PICK a \in DOMAIN accounts :
                /\ accounts[a].name = n
                /\ AccountImage[n] = [id |-> a, pass |-> accounts[a].pass, login_masks |-> accounts[a].login_masks]
    BY <1>2
  <2>2. QED
    BY <1>1, <2>1 DEF Record, Account
<1>4. QED
  BY <1>3

\* A write, of all files or of those that came before the crash: each has what is in memory or what it had.
LEMMA write_Keeps ==
    ASSUME AccessInv, NEW W \in SUBSET AllFiles, write(W)
    PROVE  AccessInv'
<1>1. /\ UNCHANGED <<dicts, account, history, bounds, staff_rule, chanregs>>
      /\ account_db' = AccountImage \/ account_db' = account_db
      /\ group_db' = [list |-> group_list, members |-> members] \/ group_db' = group_db
      /\ chanreg_db' = ChanImage \/ chanreg_db' = chanreg_db
      /\ torn' \in BOOLEAN
      /\ ~torn' => account_db' = AccountImage /\ group_db' = [list |-> group_list, members |-> members]
  BY DEF write, database_write, account_db_write, group_db_write, GroupImage, AllFiles
<1> USE DEF dicts, history, bounds
<1>2. /\ DOMAIN account_db' \subseteq Name
      /\ \A n \in DOMAIN account_db' :
            /\ account_db'[n] \in Record
            /\ account_db'[n].id <= registered
            /\ account_db'[n].pass = NOPASS => account_db'[n].login_masks # {}
      /\ \A m, n \in DOMAIN account_db' : account_db'[m].id = account_db'[n].id => m = n
  BY <1>1, AccountImageOK DEF AccessInv, AccessSound, TypeOK, AccountFileOK
<1>3. AccountFileOK'
  BY <1>1, <1>2 DEF AccountFileOK
<1>4. group_db' \in [list : SUBSET Group, members : [Group -> [Name -> Nat]]]
  BY <1>1 DEF AccessInv, AccessSound, TypeOK
<1>5. TypeOK'
  BY <1>1, <1>2, <1>4 DEF AccessInv, AccessSound, TypeOK
<1>6. (NamesDiffer /\ MembersMirrored /\ MembersGranted /\ WayIn /\ ListsLive /\ DictsOK)'
  BY <1>1 DEF AccessInv, AccessSound, NamesDiffer, MembersMirrored, MembersGranted, WayIn, ListsLive, DictsOK, account_find,
     group_has_member, IsFunction
<1>7. GroupFileOK'
  <2>1. ASSUME "renamed" \notin mishaps, NEW g \in Group, NEW n \in Name
        PROVE  group_db'.members[g][n] \in {0, 1} /\ (group_db'.members[g][n] > 0 => g \in group_db'.list)
    <3>1. CASE group_db' = group_db
      BY <2>1, <3>1 DEF AccessInv, GroupFileOK
    <3>2. CASE group_db' = [list |-> group_list, members |-> members]
      <4>1. members[g][n] \in Nat /\ (members[g][n] > 0 => g \in group_list /\ account_find(n) # {})
        BY <2>1 DEF AccessInv, AccessSound, TypeOK, MembersMirrored
      <4>2. account_find(n) # {} => members[g][n] \in {0, 1}
        BY <2>1 DEF AccessInv, AccessSound, MembersMirrored, account_find
      <4>3. QED
        BY <3>2, <4>1, <4>2
    <3>3. QED
      BY <1>1, <3>1, <3>2
  <2>2. ASSUME mishaps = {}, ~torn', NEW n \in DOMAIN account_db', NEW g \in Group, group_db'.members[g][n] > 0
        PROVE  <<g, account_db'[n].id>> \in granted
    <3>1. PICK a \in DOMAIN accounts : account_db'[n].id = a /\ accounts[a].name = n
      BY <1>1, <2>2, AccountImageOK
    <3>2. members[g][n] > 0
      BY <1>1, <2>2
    <3>3. group_has_member(g, a)
      BY <2>2, <3>1, <3>2 DEF AccessInv, AccessSound, MembersMirrored, group_has_member
    <3>4. QED
      BY <2>2, <3>1, <3>3 DEF AccessInv, AccessSound, MembersGranted
  <2>3. QED
    BY <1>1, <2>1, <2>2 DEF GroupFileOK
<1>8. ChanFileOK'
  <2>1. CASE chanreg_db' = chanreg_db
    BY <2>1 DEF AccessInv, ChanFileOK
  <2>2. CASE chanreg_db' = ChanImage
    <3>1. \A c \in DOMAIN chanregs : \A a \in DOMAIN chanregs[c] : a \in DOMAIN accounts /\ chanregs[c][a] \in Access
      BY DEF AccessInv, AccessSound, ListsLive
    <3>2. QED
      BY <2>2, <3>1, NamedIsIt DEF ChanImage, ChanFileOK, AccessInv, AccessSound, ListsLive
  <2>3. QED
    BY <1>1, <2>1, <2>2
<1>9. QED
  BY <1>3, <1>5, <1>6, <1>7, <1>8 DEF AccessInv, AccessSound

\* What the readers make of files that are one to a number.
LEMMA ReadsBack ==
    ASSUME NEW adb, NEW gdb, \A m, n \in DOMAIN adb : adb[m].id = adb[n].id => m = n
    PROVE  \A n \in DOMAIN adb :
              /\ adb[n].id \in DOMAIN account_db_read(adb, gdb)
              /\ account_db_read(adb, gdb)[adb[n].id] =
                   [name |-> n, pass |-> adb[n].pass, login_masks |-> adb[n].login_masks,
                    groups |-> [g \in Group |-> gdb[g][n]]]
<1>1. \A n \in DOMAIN adb : SavedAs(adb, adb[n].id) = n
  BY DEF SavedAs
<1>2. QED
  BY <1>1 DEF account_db_read, Found

\* Nobody is known that was not saved.
LEMMA ReadsNoOther ==
    ASSUME NEW adb, NEW gdb, NEW a \in DOMAIN account_db_read(adb, gdb)
    PROVE  \E n \in DOMAIN adb : a = adb[n].id
BY DEF account_db_read

\* What comes up from files is sound, with the first start as with a restart.
LEMMA ReadSound ==
    ASSUME DOMAIN account_db \subseteq Name, \A n \in DOMAIN account_db : account_db[n] \in Record,
           group_db \in [list : SUBSET Group, members : [Group -> [Name -> Nat]]],
           registered \in 0..MaxAccount, AccountFileOK, GroupFileOK, ChanFileOK,
           NEW accts, accts = account_db_read(account_db, group_db.members),
           NEW mem, mem = group_db_read(account_db, group_db.members),
           NEW lists, lists = chanreg_db_read(chanreg_db, accts)
    PROVE  /\ DOMAIN accts \subseteq 1..registered
           /\ \A a \in DOMAIN accts : accts[a] \in Account /\ (accts[a].pass = NOPASS => accts[a].login_masks # {})
           /\ mem \in [Group -> [Name -> Nat]]
           /\ \A a, b \in DOMAIN accts : accts[a].name = accts[b].name => a = b
           /\ "renamed" \notin mishaps =>
                 /\ \A g \in Group, a \in DOMAIN accts :
                       accts[a].groups[g] = mem[g][accts[a].name] /\ accts[a].groups[g] \in {0, 1}
                 /\ \A g \in Group, n \in Name :
                       mem[g][n] > 0 => {a \in DOMAIN accts : accts[a].name = n} # {} /\ g \in group_db.list
           /\ mishaps = {} /\ ~torn => \A a \in DOMAIN accts, g \in Group : accts[a].groups[g] > 0 => <<g, a>> \in granted
           /\ DOMAIN lists \subseteq Chan
           /\ \A c \in DOMAIN lists : /\ DOMAIN lists[c] \subseteq DOMAIN accts
                                      /\ \A a \in DOMAIN lists[c] : lists[c][a] \in Access
                                      /\ IsFunction(lists[c])
           /\ IsFunction(accts) /\ IsFunction(lists)
<1>1. \A n \in DOMAIN account_db :
         /\ account_db[n].id \in DOMAIN accts
         /\ accts[account_db[n].id] =
              [name |-> n, pass |-> account_db[n].pass, login_masks |-> account_db[n].login_masks,
               groups |-> [g \in Group |-> group_db.members[g][n]]]
  BY ReadsBack DEF AccountFileOK
<1>2. \A a \in DOMAIN accts : \E n \in DOMAIN account_db : a = account_db[n].id
  BY ReadsNoOther
<1>3. ASSUME NEW a \in DOMAIN accts
      PROVE  \E n \in DOMAIN account_db :
                /\ n \in Name /\ a = account_db[n].id /\ account_db[n] \in Record
                /\ accts[a] = [name |-> n, pass |-> account_db[n].pass, login_masks |-> account_db[n].login_masks,
                               groups |-> [g \in Group |-> group_db.members[g][n]]]
  <2>1. PICK n \in DOMAIN account_db : a = account_db[n].id
    BY <1>2
  <2>2. QED
    BY <1>1, <2>1
<1>4. \A g \in Group, n \in Name : mem[g][n] = IF n \in DOMAIN account_db THEN group_db.members[g][n] ELSE 0
  BY DEF group_db_read, Found
<1>5. DOMAIN accts \subseteq 1..registered
  BY <1>3 DEF AccountFileOK, Record, Id
<1>6. \A a \in DOMAIN accts : accts[a] \in Account
  <2>1. \A n \in Name : [g \in Group |-> group_db.members[g][n]] \in [Group -> Nat]
    OBVIOUS
  <2>2. QED
    BY <1>3, <2>1 DEF Record, Account
<1>7. \A a \in DOMAIN accts : accts[a].pass = NOPASS => accts[a].login_masks # {}
  BY <1>3 DEF AccountFileOK
<1>8. mem \in [Group -> [Name -> Nat]]
  <2>1. \A g \in Group, n \in Name : Found(account_db, group_db.members, g, n) \in Nat
    BY DEF Found
  <2>2. QED
    BY <2>1 DEF group_db_read
<1>9. \A a, b \in DOMAIN accts : accts[a].name = accts[b].name => a = b
  BY <1>3
<1>10. ASSUME "renamed" \notin mishaps
       PROVE  /\ \A g \in Group, a \in DOMAIN accts :
                    accts[a].groups[g] = mem[g][accts[a].name] /\ accts[a].groups[g] \in {0, 1}
              /\ \A g \in Group, n \in Name :
                    mem[g][n] > 0 => {a \in DOMAIN accts : accts[a].name = n} # {} /\ g \in group_db.list
  <2>1. \A g \in Group, a \in DOMAIN accts :
           accts[a].groups[g] = mem[g][accts[a].name] /\ accts[a].groups[g] \in {0, 1}
    BY <1>3, <1>4, <1>10 DEF GroupFileOK
  <2>2. \A g \in Group, n \in Name :
           mem[g][n] > 0 => {a \in DOMAIN accts : accts[a].name = n} # {} /\ g \in group_db.list
    <3> SUFFICES ASSUME NEW g \in Group, NEW n \in Name, mem[g][n] > 0
                 PROVE  {a \in DOMAIN accts : accts[a].name = n} # {} /\ g \in group_db.list
      OBVIOUS
    <3>1. n \in DOMAIN account_db /\ group_db.members[g][n] > 0
      BY <1>4
    <3>2. account_db[n].id \in {a \in DOMAIN accts : accts[a].name = n}
      <4>1. account_db[n].id \in DOMAIN accts
        BY <1>1, <3>1
      <4>2. accts[account_db[n].id].name = n
        <5>1. accts[account_db[n].id] =
                [name |-> n, pass |-> account_db[n].pass, login_masks |-> account_db[n].login_masks,
                 groups |-> [h \in Group |-> group_db.members[h][n]]]
          BY <1>1, <3>1
        <5>2. QED
          BY <5>1
      <4>3. QED
        BY <4>1, <4>2
    <3>3. QED
      BY <1>10, <3>1, <3>2 DEF GroupFileOK
  <2>3. QED
    BY <2>1, <2>2
<1>11. mishaps = {} /\ ~torn => \A a \in DOMAIN accts, g \in Group : accts[a].groups[g] > 0 => <<g, a>> \in granted
  BY <1>3 DEF GroupFileOK
<1>12. /\ DOMAIN lists \subseteq Chan
       /\ \A c \in DOMAIN lists : /\ DOMAIN lists[c] \subseteq DOMAIN accts
                                  /\ IsFunction(lists[c])
       /\ IsFunction(accts) /\ IsFunction(lists)
  BY DEF chanreg_db_read, ChanFileOK, IsFunction, account_db_read
<1>13. \A c \in DOMAIN lists : \A a \in DOMAIN lists[c] : lists[c][a] \in Access
  BY DEF chanreg_db_read, ChanFileOK
<1>14. QED
  BY <1>5, <1>6, <1>7, <1>8, <1>9, <1>10, <1>11, <1>12, <1>13

\* A start reads the three files, the lists by the names of accounts that were read before.
LEMMA start_Keeps ==
    ASSUME AccessInv, start
    PROVE  AccessInv'
<1>1. /\ boots' = boots + 1
      /\ accounts' = account_db_read(account_db, group_db.members)
      /\ group_list' = group_db.list \cup {ADMINS}
      /\ members' = group_db_read(account_db, group_db.members)
      /\ account' = [u \in User |-> NONE]
      /\ mishaps' = IF torn THEN mishaps \cup {"torn"} ELSE mishaps
      /\ chanregs' = chanreg_db_read(chanreg_db, accounts')
      /\ UNCHANGED <<account_db, group_db, torn, registered, granted, world, room, staff_rule, chanreg_db>>
  BY DEF start, restart, files
<1>2. /\ DOMAIN account_db \subseteq Name /\ \A n \in DOMAIN account_db : account_db[n] \in Record
      /\ group_db \in [list : SUBSET Group, members : [Group -> [Name -> Nat]]]
      /\ registered \in 0..MaxAccount /\ AccountFileOK /\ GroupFileOK /\ ChanFileOK
  BY DEF AccessInv, AccessSound, TypeOK
<1>3. PICK accts : accts = accounts'
  OBVIOUS
<1>4. PICK mem : mem = members'
  OBVIOUS
<1>5. PICK lists : lists = chanregs'
  OBVIOUS
<1>6. /\ DOMAIN accts \subseteq 1..registered
      /\ \A a \in DOMAIN accts : accts[a] \in Account /\ (accts[a].pass = NOPASS => accts[a].login_masks # {})
      /\ mem \in [Group -> [Name -> Nat]]
      /\ \A a, b \in DOMAIN accts : accts[a].name = accts[b].name => a = b
      /\ "renamed" \notin mishaps =>
            /\ \A g \in Group, a \in DOMAIN accts :
                  accts[a].groups[g] = mem[g][accts[a].name] /\ accts[a].groups[g] \in {0, 1}
            /\ \A g \in Group, n \in Name :
                  mem[g][n] > 0 => {a \in DOMAIN accts : accts[a].name = n} # {} /\ g \in group_db.list
      /\ mishaps = {} /\ ~torn => \A a \in DOMAIN accts, g \in Group : accts[a].groups[g] > 0 => <<g, a>> \in granted
      /\ DOMAIN lists \subseteq Chan
      /\ \A c \in DOMAIN lists : /\ DOMAIN lists[c] \subseteq DOMAIN accts
                                 /\ \A a \in DOMAIN lists[c] : lists[c][a] \in Access
                                 /\ IsFunction(lists[c])
      /\ IsFunction(accts) /\ IsFunction(lists)
  BY <1>1, <1>2, <1>3, <1>4, <1>5, ReadSound
<1>7. mishaps' \subseteq {"renamed", "dangling", "torn"} /\ ("renamed" \in mishaps' => "renamed" \in mishaps)
      /\ ("dangling" \in mishaps' => "dangling" \in mishaps) /\ (mishaps' = {} => mishaps = {} /\ ~torn)
  BY <1>1 DEF AccessInv, AccessSound, TypeOK
<1>8. TypeOK'
  <2>1. group_list' \subseteq Group /\ ADMINS \in group_list'
    BY <1>1, <1>2, AccountsAssumption
  <2>2. account' \in [User -> DOMAIN accounts' \cup {NONE}]
    BY <1>1
  <2>3. boots' \in Nat
    BY <1>1 DEF AccessInv, AccessSound, TypeOK
  <2>4. QED
    BY <1>1, <1>3, <1>4, <1>6, <1>7, <2>1, <2>2, <2>3 DEF AccessInv, AccessSound, TypeOK
<1>9. (NamesDiffer /\ WayIn)'
  BY <1>3, <1>6 DEF NamesDiffer, WayIn
<1>10. MembersMirrored'
  BY <1>1, <1>3, <1>4, <1>6, <1>7 DEF AccessInv, AccessSound, MembersMirrored, account_find
<1>11. MembersGranted'
  BY <1>1, <1>3, <1>6, <1>7 DEF MembersGranted, group_has_member
<1>12. (ListsLive /\ DictsOK)'
  BY <1>3, <1>5, <1>6 DEF ListsLive, DictsOK
<1>13. AccountFileOK' /\ ChanFileOK'
  BY <1>1 DEF AccessInv, AccountFileOK, ChanFileOK
<1>14. GroupFileOK'
  BY <1>1, <1>7 DEF AccessInv, GroupFileOK
<1>15. QED
  BY <1>8, <1>9, <1>10, <1>11, <1>12, <1>13, <1>14 DEF AccessInv, AccessSound

\* The files of a world are in order, and registered counts what is in them.
LEMMA WorldFiles ==
    ASSUME chanInit
    PROVE  /\ DOMAIN account_db \subseteq Name /\ \A n \in DOMAIN account_db : account_db[n] \in Record
           /\ registered \in 0..MaxAccount /\ AccountFileOK
<1>1. /\ world \in Worlds /\ account_db = world.accounts /\ registered = Cardinality(DOMAIN world.accounts)
  BY Zenon DEF chanInit, Init
<1>2. PICK w \in Worlds : w = world /\ account_db = w.accounts
  BY <1>1
<1>3. /\ MaxAccount \in Nat
      /\ \A n \in DOMAIN account_db :
            /\ n \in Name
            /\ account_db[n] \in [id : 1..MaxAccount, pass : User \cup {NOPASS}, login_masks : SUBSET Mask]
            /\ account_db[n].id <= Cardinality(DOMAIN account_db)
            /\ account_db[n].pass = NOPASS => account_db[n].login_masks # {}
            /\ \A m \in DOMAIN account_db : account_db[n].id = account_db[m].id => n = m
  BY <1>2, AccountsAssumption
<1>4. Cardinality(DOMAIN account_db) \in 0..MaxAccount
  <2> DEFINE f == [n \in DOMAIN account_db |-> account_db[n].id]
  <2>1. IsFiniteSet(Id) /\ Cardinality(Id) = MaxAccount
    BY <1>3, FS_Interval DEF Id
  <2>2. f \in Injection(DOMAIN account_db, Id)
    BY <1>3 DEF Injection, IsInjective, Id
  <2>3. IsFiniteSet(DOMAIN account_db) /\ Cardinality(DOMAIN account_db) <= Cardinality(Id)
    BY <2>1, <2>2, FS_Injection
  <2>4. QED
    BY <1>3, <2>1, <2>3, FS_CardinalityType
<1>5. QED
  BY <1>1, <1>3, <1>4 DEF AccountFileOK, Record, Id

\* Every beginning was numbered and listed by the commands.
LEMMA chanInit_AccessInv ==
    ASSUME chanInit
    PROVE  AccessInv
<1>1. /\ world \in Worlds /\ account_db = world.accounts
      /\ group_db = [list |-> DOMAIN world.groups, members |-> Members(world.groups)]
      /\ torn = FALSE
      /\ accounts = account_db_read(account_db, group_db.members)
      /\ group_list = group_db.list \cup {ADMINS}
      /\ members = group_db_read(account_db, group_db.members)
      /\ account = [u \in User |-> NONE]
      /\ granted = {m \in Group \X (DOMAIN accounts) : group_has_member(m[1], m[2])}
      /\ mishaps = {} /\ room = world.room /\ boots = 0
      /\ chanreg_db = world.chanregs /\ chanregs = chanreg_db_read(chanreg_db, accounts)
  BY DEF chanInit, Init
<1>2. /\ DOMAIN account_db \subseteq Name /\ \A n \in DOMAIN account_db : account_db[n] \in Record
      /\ registered \in 0..MaxAccount /\ AccountFileOK
  BY WorldFiles
<1>3. \A g \in DOMAIN world.groups : g \in Group /\ world.groups[g] \subseteq DOMAIN account_db
  BY <1>1, AccountsAssumption
<1>4. group_db \in [list : SUBSET Group, members : [Group -> [Name -> Nat]]]
  BY <1>1, <1>3 DEF Members
<1>5. \A g \in Group, n \in Name : /\ group_db.members[g][n] \in {0, 1}
                                   /\ group_db.members[g][n] > 0 => g \in group_db.list
  BY <1>1 DEF Members
<1>6. ASSUME NEW n \in DOMAIN account_db, NEW g \in Group, group_db.members[g][n] > 0
      PROVE  <<g, account_db[n].id>> \in granted
  <2>1. /\ account_db[n].id \in DOMAIN accounts
        /\ accounts[account_db[n].id].groups[g] = group_db.members[g][n]
    <3>1. accounts[account_db[n].id] =
            [name |-> n, pass |-> account_db[n].pass, login_masks |-> account_db[n].login_masks,
             groups |-> [h \in Group |-> group_db.members[h][n]]]
      BY <1>1, <1>2, ReadsBack DEF AccountFileOK
    <3>2. account_db[n].id \in DOMAIN accounts
      BY <1>1, <1>2, ReadsBack DEF AccountFileOK
    <3>3. QED
      BY <3>1, <3>2
  <2>2. QED
    BY <1>1, <1>6, <2>1 DEF group_has_member
<1>7. GroupFileOK
  BY <1>1, <1>5, <1>6 DEF GroupFileOK
<1>8. ChanFileOK
  BY <1>1, ChanAccessAssumption DEF ChanFileOK
<1>9. /\ DOMAIN accounts \subseteq 1..registered
      /\ \A a \in DOMAIN accounts : accounts[a] \in Account /\ (accounts[a].pass = NOPASS => accounts[a].login_masks # {})
      /\ members \in [Group -> [Name -> Nat]]
      /\ \A a, b \in DOMAIN accounts : accounts[a].name = accounts[b].name => a = b
      /\ "renamed" \notin mishaps =>
            /\ \A g \in Group, a \in DOMAIN accounts :
                  accounts[a].groups[g] = members[g][accounts[a].name] /\ accounts[a].groups[g] \in {0, 1}
            /\ \A g \in Group, n \in Name :
                  members[g][n] > 0 => {a \in DOMAIN accounts : accounts[a].name = n} # {} /\ g \in group_db.list
      /\ mishaps = {} /\ ~torn =>
            \A a \in DOMAIN accounts, g \in Group : accounts[a].groups[g] > 0 => <<g, a>> \in granted
      /\ DOMAIN chanregs \subseteq Chan
      /\ \A c \in DOMAIN chanregs : /\ DOMAIN chanregs[c] \subseteq DOMAIN accounts
                                    /\ \A a \in DOMAIN chanregs[c] : chanregs[c][a] \in Access
                                    /\ IsFunction(chanregs[c])
      /\ IsFunction(accounts) /\ IsFunction(chanregs)
  BY <1>1, <1>2, <1>4, <1>7, <1>8, ReadSound
<1>10. TypeOK
  <2>1. group_list \subseteq Group /\ ADMINS \in group_list
    BY <1>1, <1>4, AccountsAssumption
  <2>2. granted \subseteq Group \X Id
    BY <1>1, <1>2, <1>9, AccountsAssumption DEF Id
  <2>3. room \in Nat /\ boots \in Nat
    BY <1>1, AccountsAssumption
  <2>4. account \in [User -> DOMAIN accounts \cup {NONE}]
    BY <1>1
  <2>5. QED
    BY <1>1, <1>2, <1>4, <1>9, <2>1, <2>2, <2>3, <2>4 DEF TypeOK
<1>11. NamesDiffer /\ WayIn /\ ListsLive /\ DictsOK
  BY <1>9 DEF NamesDiffer, WayIn, ListsLive, DictsOK
<1>12. MembersMirrored /\ MembersGranted
  BY <1>1, <1>9 DEF MembersMirrored, MembersGranted, account_find, group_has_member
<1>13. QED
  BY <1>2, <1>7, <1>8, <1>10, <1>11, <1>12 DEF AccessInv, AccessSound

-----------------------------------------------------------------------------
(* A channel's list.                                                           *)

\* A command that sets the lists and nothing of accounts and files.
LEMMA ListsSet ==
    ASSUME AccessInv, room' \in Nat,
           UNCHANGED <<dicts, account, files, history, world, boots, staff_rule, chanreg_db>>,
           ListsLive', IsFunction(chanregs'), \A c \in DOMAIN chanregs' : IsFunction(chanregs'[c])
    PROVE  AccessInv'
<1> USE DEF dicts, files, history
<1>1. TypeOK'
  BY DEF AccessInv, AccessSound, TypeOK
<1>2. (NamesDiffer /\ MembersMirrored /\ MembersGranted /\ WayIn)'
  BY DEF AccessInv, AccessSound, NamesDiffer, MembersMirrored, MembersGranted, WayIn, account_find, group_has_member
<1>3. (DictsOK /\ AccountFileOK /\ GroupFileOK /\ ChanFileOK)'
  BY DEF AccessInv, DictsOK, AccountFileOK, GroupFileOK, ChanFileOK
<1>4. QED
  BY <1>1, <1>2, <1>3 DEF AccessInv, AccessSound

\* One list changes.
LEMMA ListSet ==
    ASSUME AccessInv, NEW u, NEW c, OnChannel(u, c), NEW list, List(c, list),
           DOMAIN list \subseteq DOMAIN accounts, \A a \in DOMAIN list : list[a] \in Access, IsFunction(list)
    PROVE  AccessInv'
<1>1. /\ room' \in Nat /\ UNCHANGED <<dicts, account, files, history, world, boots, staff_rule, chanreg_db>>
      /\ c \in DOMAIN chanregs /\ chanregs' = [chanregs EXCEPT ![c] = list]
  BY DEF OnChannel, Command, List, AccessInv, AccessSound, TypeOK
<1>2. ListsLive'
  BY <1>1 DEF AccessInv, AccessSound, ListsLive, dicts
<1>3. IsFunction(chanregs') /\ \A d \in DOMAIN chanregs' : IsFunction(chanregs'[d])
  BY <1>1 DEF AccessInv, DictsOK, IsFunction
<1>4. QED
  BY <1>1, <1>2, <1>3, ListsSet

\* cregister: an owner's list.
LEMMA cregister_Keeps ==
    ASSUME AccessInv, NEW u, NEW c \in Chan, NEW a \in DOMAIN accounts, cregister(u, c, a)
    PROVE  AccessInv'
<1>1. /\ room' \in Nat /\ UNCHANGED <<dicts, account, files, history, world, boots, staff_rule, chanreg_db>>
      /\ chanregs' = [x \in DOMAIN chanregs \cup {c} |->
                        IF x = c THEN [y \in {a} |-> [level |-> UL_OWNER, suspended |-> FALSE]] ELSE chanregs[x]]
  BY DEF cregister, Command, AccessInv, AccessSound, TypeOK
<1>2. [level |-> UL_OWNER, suspended |-> FALSE] \in Access
  BY DEF Access, Level, UL_OWNER
<1>3. ListsLive'
  BY <1>1, <1>2 DEF AccessInv, AccessSound, ListsLive, dicts
<1>4. IsFunction(chanregs') /\ \A d \in DOMAIN chanregs' : IsFunction(chanregs'[d])
  BY <1>1 DEF AccessInv, DictsOK, IsFunction
<1>5. QED
  BY <1>1, <1>3, <1>4, ListsSet

\* cunregister: the list goes.
LEMMA cunregister_Keeps ==
    ASSUME AccessInv, NEW u, NEW c, cunregister(u, c)
    PROVE  AccessInv'
<1>1. /\ room' \in Nat /\ UNCHANGED <<dicts, account, files, history, world, boots, staff_rule, chanreg_db>>
      /\ chanregs' = [x \in DOMAIN chanregs \ {c} |-> chanregs[x]]
  BY DEF cunregister, OnChannel, Command, AccessInv, AccessSound, TypeOK
<1>2. ListsLive'
  BY <1>1 DEF AccessInv, AccessSound, ListsLive, dicts
<1>3. IsFunction(chanregs') /\ \A d \in DOMAIN chanregs' : IsFunction(chanregs'[d])
  BY <1>1 DEF AccessInv, DictsOK, IsFunction
<1>4. QED
  BY <1>1, <1>2, <1>3, ListsSet

\* The lists that the commands make of a list.
LEMMA MadeLists ==
    ASSUME AccessInv, NEW c \in DOMAIN chanregs
    PROVE  /\ \A a \in DOMAIN accounts, x \in Access :
                /\ DOMAIN With(c, a, x) = DOMAIN chanregs[c] \cup {a}
                /\ \A b \in DOMAIN With(c, a, x) : With(c, a, x)[b] = IF b = a THEN x ELSE chanregs[c][b]
                /\ \A b \in DOMAIN With(c, a, x) : With(c, a, x)[b] \in Access
                /\ IsFunction(With(c, a, x))
           /\ \A a : /\ DOMAIN Without(c, a) \subseteq DOMAIN accounts
                     /\ \A b \in DOMAIN Without(c, a) : Without(c, a)[b] \in Access
                     /\ IsFunction(Without(c, a))
           /\ \A a \in DOMAIN chanregs[c], x \in Access :
                /\ DOMAIN [chanregs[c] EXCEPT ![a] = x] \subseteq DOMAIN accounts
                /\ \A b \in DOMAIN chanregs[c] : [chanregs[c] EXCEPT ![a] = x][b] \in Access
                /\ IsFunction([chanregs[c] EXCEPT ![a] = x])
           /\ DOMAIN chanregs[c] \subseteq DOMAIN accounts /\ \A b \in DOMAIN chanregs[c] : chanregs[c][b] \in Access
<1>1. DOMAIN chanregs[c] \subseteq DOMAIN accounts /\ \A b \in DOMAIN chanregs[c] : chanregs[c][b] \in Access
  BY DEF AccessInv, AccessSound, ListsLive
<1>2. \A a : /\ DOMAIN Without(c, a) \subseteq DOMAIN accounts
             /\ \A b \in DOMAIN Without(c, a) : Without(c, a)[b] \in Access
             /\ IsFunction(Without(c, a))
  BY <1>1 DEF Without, IsFunction
<1>3. \A a \in DOMAIN accounts, x \in Access :
                /\ DOMAIN With(c, a, x) = DOMAIN chanregs[c] \cup {a}
                /\ \A b \in DOMAIN With(c, a, x) : With(c, a, x)[b] = IF b = a THEN x ELSE chanregs[c][b]
                /\ \A b \in DOMAIN With(c, a, x) : With(c, a, x)[b] \in Access
                /\ IsFunction(With(c, a, x))
  BY <1>1 DEF With, IsFunction
<1>4. \A a \in DOMAIN chanregs[c], x \in Access :
                /\ DOMAIN [chanregs[c] EXCEPT ![a] = x] \subseteq DOMAIN accounts
                /\ \A b \in DOMAIN chanregs[c] : [chanregs[c] EXCEPT ![a] = x][b] \in Access
                /\ IsFunction([chanregs[c] EXCEPT ![a] = x])
  BY <1>1 DEF IsFunction
<1>5. QED
  BY <1>1, <1>2, <1>3, <1>4

\* adduser: an entry for an account that is there, with a level as narrow as it is stored.
LEMMA adduser_Keeps ==
    ASSUME AccessInv, NEW u, NEW c, NEW a \in DOMAIN accounts, NEW n, adduser(u, c, a, n)
    PROVE  AccessInv'
<1>1. /\ OnChannel(u, c) /\ c \in DOMAIN chanregs
      /\ List(c, With(c, a, [level |-> Narrow(n), suspended |-> FALSE]))
  BY DEF adduser, OnChannel
<1>2. [level |-> Narrow(n), suspended |-> FALSE] \in Access
  BY DEF adduser, Access
<1>3. PICK x \in Access : x = [level |-> Narrow(n), suspended |-> FALSE]
  BY <1>2
<1>4. PICK list : list = With(c, a, x)
  OBVIOUS
<1>5. /\ DOMAIN list \subseteq DOMAIN accounts /\ \A b \in DOMAIN list : list[b] \in Access
      /\ IsFunction(list)
  <2>1. DOMAIN list = DOMAIN chanregs[c] \cup {a} /\ DOMAIN chanregs[c] \subseteq DOMAIN accounts
    BY <1>1, <1>4, MadeLists
  <2>2. (\A b \in DOMAIN list : list[b] \in Access) /\ IsFunction(list)
    BY <1>1, <1>4, MadeLists
  <2>3. QED
    BY <2>1, <2>2
<1>6. QED
  BY <1>1, <1>3, <1>4, <1>5, ListSet

\* deluser and deleteme: one entry goes.
LEMMA Leaving_Keeps ==
    ASSUME AccessInv, NEW u, NEW c, NEW a, OnChannel(u, c), List(c, Without(c, a))
    PROVE  AccessInv'
<1>1. c \in DOMAIN chanregs
  BY DEF OnChannel
<1>2. PICK list : list = Without(c, a)
  OBVIOUS
<1>3. /\ DOMAIN list \subseteq DOMAIN accounts /\ \A b \in DOMAIN list : list[b] \in Access
      /\ IsFunction(list)
  BY <1>1, <1>2, MadeLists
<1>4. QED
  BY <1>2, <1>3, ListSet

\* clvl, suspend and unsuspend put another entry in the place of one.
LEMMA Replacing_Keeps ==
    ASSUME AccessInv, NEW u, NEW c, NEW a \in DOMAIN chanregs[c], NEW x \in Access,
           OnChannel(u, c), List(c, [chanregs[c] EXCEPT ![a] = x])
    PROVE  AccessInv'
<1>1. c \in DOMAIN chanregs
  BY DEF OnChannel
<1>2. PICK list : list = [chanregs[c] EXCEPT ![a] = x]
  OBVIOUS
<1>3. DOMAIN list = DOMAIN chanregs[c]
  BY <1>2
<1>4. /\ DOMAIN list \subseteq DOMAIN accounts /\ \A b \in DOMAIN list : list[b] \in Access
      /\ IsFunction(list)
  BY <1>1, <1>2, <1>3, MadeLists
<1>5. QED
  BY <1>2, <1>4, ListSet

\* clvl, suspend and unsuspend: one entry changes.
LEMMA Entry_Keeps ==
    ASSUME AccessInv, NEW u, NEW c, NEW a, NEW n,
           clvl(u, c, a, n) \/ suspend(u, c, a) \/ unsuspend(u, c, a)
    PROVE  AccessInv'
<1>1. OnChannel(u, c) /\ c \in DOMAIN chanregs /\ a \in DOMAIN chanregs[c]
  BY DEF OnChannel, clvl, suspend, unsuspend
<1>2. chanregs[c][a] \in Access
  BY <1>1, MadeLists
<1>3. CASE clvl(u, c, a, n)
  <2>1. PICK x : x = [chanregs[c][a] EXCEPT !.level = Narrow(n)]
    OBVIOUS
  <2>2. x \in Access /\ List(c, [chanregs[c] EXCEPT ![a] = x])
    BY <1>2, <1>3, <2>1 DEF clvl, Access
  <2>3. QED
    BY <1>1, <2>2, Replacing_Keeps
<1>4. ASSUME NEW s \in BOOLEAN, List(c, [chanregs[c] EXCEPT ![a].suspended = s]) PROVE AccessInv'
  <2>1. PICK x : x = [chanregs[c][a] EXCEPT !.suspended = s]
    OBVIOUS
  <2>2. x \in Access /\ List(c, [chanregs[c] EXCEPT ![a] = x])
    BY <1>2, <1>4, <2>1 DEF Access
  <2>3. QED
    BY <1>1, <2>2, Replacing_Keeps
<1>5. QED
  BY <1>3, <1>4 DEF suspend, unsuspend

\* The list after a channel was given away.
LEMMA giveownership_Keeps ==
    ASSUME AccessInv, NEW u, NEW c, NEW a \in DOMAIN accounts, NEW force, giveownership(u, c, a, force)
    PROVE  AccessInv'
<1> DEFINE owns == {x \in DOMAIN chanregs[c] : chanregs[c][x].level = UL_OWNER}
           listed == IF a \in DOMAIN chanregs[c] THEN chanregs[c]
                     ELSE With(c, a, [level |-> UL_COOWNER, suspended |-> FALSE])
           was == IF listed[a].level > UL_COOWNER THEN listed[a].level ELSE UL_COOWNER
           list == [x \in DOMAIN listed |->
                      IF x = a THEN [listed[x] EXCEPT !.level = UL_OWNER]
                      ELSE IF x \in owns THEN [listed[x] EXCEPT !.level = was] ELSE listed[x]]
<1>1. OnChannel(u, c) /\ c \in DOMAIN chanregs /\ List(c, list)
  BY DEF giveownership, OnChannel
<1>2. [level |-> UL_COOWNER, suspended |-> FALSE] \in Access
  BY DEF Access, Level, UL_OWNER, UL_COOWNER
<1>3. /\ DOMAIN listed \subseteq DOMAIN accounts /\ a \in DOMAIN listed
      /\ \A b \in DOMAIN listed : listed[b] \in Access
  <2>1. CASE a \in DOMAIN chanregs[c]
    BY <1>1, <2>1, MadeLists
  <2>2. CASE a \notin DOMAIN chanregs[c]
    <3>1. PICK x \in Access : x = [level |-> UL_COOWNER, suspended |-> FALSE]
      BY <1>2
    <3>2. PICK l : l = With(c, a, x)
      OBVIOUS
    <3>3. DOMAIN l = DOMAIN chanregs[c] \cup {a} /\ DOMAIN chanregs[c] \subseteq DOMAIN accounts
      BY <1>1, <3>2, MadeLists
    <3>4. \A b \in DOMAIN l : l[b] \in Access
      BY <1>1, <3>2, MadeLists
    <3>5. listed = l
      BY <2>2, <3>1, <3>2
    <3>6. QED
      BY <3>3, <3>4, <3>5
  <2>3. QED
    BY <2>1, <2>2
<1> HIDE DEF listed, owns
<1>4. was \in Level
  BY <1>3 DEF Access, Level, UL_OWNER, UL_COOWNER
<1> HIDE DEF was
<1>5. \A b \in DOMAIN list : list[b] \in Access
  BY <1>3, <1>4 DEF Access, Level, UL_OWNER
<1>6. DOMAIN list \subseteq DOMAIN accounts /\ IsFunction(list)
  BY <1>3 DEF IsFunction
<1>7. QED
  BY <1>1, <1>5, <1>6, ListSet

-----------------------------------------------------------------------------
(* All commands together.                                                      *)

\* What a user does with his own account.
LEMMA Quiet_Keeps ==
    ASSUME AccessInv, NEW u \in User, Quiet(u), UNCHANGED chanVars
    PROVE  AccessInv'
<1>1. CASE account_user_del(u)
  BY <1>1, LoginKeeps DEF account_user_del, account_user_add
<1>2. CASE auth(u)
  BY <1>2, LoginKeeps DEF auth
<1>3. CASE login_by_mask(u)
  BY <1>3, LoginKeeps DEF login_by_mask
<1>4. ASSUME NEW n \in world.name, register(u, n) PROVE AccessInv'
  BY <1>4, register_Keeps, WorldIn DEF AccessInv, AccessSound
<1>5. CASE pass(u)
  <2>1. PICK a : a = account[u]
    OBVIOUS
  <2>2. PICK field : field = [accounts[a] EXCEPT !.pass = u]
    OBVIOUS
  <2>3. a \in DOMAIN accounts /\ accounts[a] \in Account /\ u # NOPASS
    BY <1>5, <2>1, AccountsAssumption DEF pass, Authed, AccessInv, AccessSound, TypeOK
  <2>4. /\ field \in Account /\ field.name = accounts[a].name /\ field.groups = accounts[a].groups
        /\ field.pass # NOPASS
    BY <2>2, <2>3 DEF Account
  <2>5. Change(a, field) /\ room' \in Nat /\ UNCHANGED <<world, boots>>
    BY <1>5, <2>1, <2>2 DEF pass, Command, AccessInv, AccessSound, TypeOK
  <2>6. QED
    BY <2>3, <2>4, <2>5, ChangeKeeps
<1>6. QED
  BY <1>1, <1>2, <1>3, <1>4, <1>5 DEF Quiet

\* The staff's commands about an account.
LEMMA OnAccount_Keeps ==
    ASSUME AccessInv, NEW u \in User, NEW a \in DOMAIN accounts, OnAccount(u, a), UNCHANGED chanVars
    PROVE  AccessInv'
<1>1. accounts[a] \in Account /\ (accounts[a].pass = NOPASS => accounts[a].login_masks # {})
  BY DEF AccessInv, AccessSound, TypeOK, WayIn
<1>2. world.user \subseteq User /\ world.name \subseteq Name /\ world.mask \subseteq Mask
  BY WorldIn DEF AccessInv, AccessSound
<1>3. ASSUME NEW p \in world.user \cup {NOPASS}, oset_password(u, a, p) PROVE AccessInv'
  <2>1. PICK field : field = [accounts[a] EXCEPT !.pass = p]
    OBVIOUS
  <2>2. Change(a, field) /\ room' \in Nat /\ UNCHANGED <<world, boots>>
    BY <1>3, <2>1 DEF oset_password, Command, AccessInv, AccessSound, TypeOK
  <2>3. /\ field \in Account /\ field.name = accounts[a].name /\ field.groups = accounts[a].groups
        /\ field.pass = NOPASS => field.login_masks # {}
    BY <1>1, <1>2, <1>3, <2>1 DEF oset_password, Account
  <2>4. QED
    BY <2>2, <2>3, ChangeKeeps
<1>4. ASSUME NEW m \in world.mask, oset_loginmask_add(u, a, m) PROVE AccessInv'
  <2>1. PICK field : field = [accounts[a] EXCEPT !.login_masks = @ \cup {m}]
    OBVIOUS
  <2>2. Change(a, field) /\ room' \in Nat /\ UNCHANGED <<world, boots>>
    BY <1>4, <2>1 DEF oset_loginmask_add, Command, AccessInv, AccessSound, TypeOK
  <2>3. /\ field \in Account /\ field.name = accounts[a].name /\ field.groups = accounts[a].groups
        /\ field.login_masks # {}
    BY <1>1, <1>2, <1>4, <2>1 DEF Account
  <2>4. QED
    BY <2>2, <2>3, ChangeKeeps
<1>5. ASSUME NEW m \in world.mask, oset_loginmask_del(u, a, m) PROVE AccessInv'
  <2>1. PICK field : field = [accounts[a] EXCEPT !.login_masks = @ \ {m}]
    OBVIOUS
  <2>2. Change(a, field) /\ room' \in Nat /\ UNCHANGED <<world, boots>>
    BY <1>5, <2>1 DEF oset_loginmask_del, Command, AccessInv, AccessSound, TypeOK
  <2>3. /\ m \in accounts[a].login_masks
        /\ accounts[a].pass = NOPASS => Cardinality(accounts[a].login_masks) # 1
    BY <1>5 DEF oset_loginmask_del
  <2>4. accounts[a].pass = NOPASS => accounts[a].login_masks # {m}
    BY <2>3, FS_Singleton
  <2>5. /\ field \in Account /\ field.name = accounts[a].name /\ field.groups = accounts[a].groups
        /\ field.pass = NOPASS => field.login_masks # {}
    BY <1>1, <1>2, <2>1, <2>3, <2>4 DEF Account
  <2>6. QED
    BY <2>2, <2>5, ChangeKeeps
<1>6. ASSUME NEW n \in world.name, rename(u, a, n) PROVE AccessInv'
  BY <1>2, <1>6, rename_Keeps
<1>7. QED
  BY <1>3, <1>4, <1>5, <1>6 DEF OnAccount

\* The staff's commands about a group.
LEMMA OnGroup_Keeps ==
    ASSUME AccessInv, NEW u \in User, NEW g \in Group, OnGroup(u, g), UNCHANGED chanVars
    PROVE  AccessInv'
BY group_add_Keeps, group_del_Keeps, group_member_add_Keeps, group_member_del_Keeps DEF OnGroup

\* Every step that leaves the lists of channels alone.
LEMMA Keep_Keeps ==
    ASSUME AccessInv, Keep, UNCHANGED chanVars
    PROVE  AccessInv'
<1>1. PICK u \in world.user : \/ Quiet(u)
                              \/ \E a \in DOMAIN accounts : OnAccount(u, a)
                              \/ \E g \in world.group : OnGroup(u, g)
  BY DEF Keep
<1>2. u \in User /\ world.group \subseteq Group
  BY <1>1, WorldIn DEF AccessInv, AccessSound
<1>3. QED
  BY <1>1, <1>2, Quiet_Keeps, OnAccount_Keeps, OnGroup_Keeps

\* Every command about somebody on a channel's list.
LEMMA OnUser_Keeps ==
    ASSUME AccessInv, NEW u, NEW c \in Chan, NEW a \in DOMAIN accounts, OnUser(u, c, a)
    PROVE  AccessInv'
<1>1. CASE cregister(u, c, a)
  BY <1>1, cregister_Keeps
<1>2. CASE deluser(u, c, a)
  BY <1>2, Leaving_Keeps DEF deluser
<1>3. ASSUME NEW n, adduser(u, c, a, n) PROVE AccessInv'
  BY <1>3, adduser_Keeps
<1>4. ASSUME NEW n, clvl(u, c, a, n) \/ suspend(u, c, a) \/ unsuspend(u, c, a) PROVE AccessInv'
  BY <1>4, Entry_Keeps
<1>5. ASSUME NEW force, giveownership(u, c, a, force) PROVE AccessInv'
  BY <1>5, giveownership_Keeps
<1>6. QED
  BY <1>1, <1>2, <1>3, <1>4, <1>5 DEF OnUser

\* Every step keeps the invariant.
LEMMA chanNext_Keeps ==
    ASSUME AccessInv, chanNext
    PROVE  AccessInv'
<1>1. world.user \subseteq User /\ world.chan \subseteq Chan
  BY WorldIn, ChanAccessAssumption DEF AccessInv, AccessSound, TypeOK
<1>2. CASE Keep /\ UNCHANGED chanVars
  BY <1>2, Keep_Keeps
<1>3. ASSUME NEW u \in world.user, chanreg_account_del(u) PROVE AccessInv'
  BY <1>1, <1>3, chanreg_account_del_Keeps
<1>4. ASSUME NEW u \in world.user, NEW c \in world.chan, cunregister(u, c) PROVE AccessInv'
  BY <1>4, cunregister_Keeps
<1>5. ASSUME NEW u \in world.user, NEW c \in world.chan, deleteme(u, c) PROVE AccessInv'
  BY <1>5, Leaving_Keeps DEF deleteme
<1>6. ASSUME NEW u \in world.user, NEW c \in world.chan, NEW a \in DOMAIN accounts, OnUser(u, c, a) PROVE AccessInv'
  BY <1>1, <1>6, OnUser_Keeps
<1>7. ASSUME NEW W \in SUBSET AllFiles, write(W) PROVE AccessInv'
  BY <1>7, write_Keeps
<1>8. CASE start
  BY <1>8, start_Keeps
<1>9. QED
  BY <1>2, <1>3, <1>4, <1>5, <1>6, <1>7, <1>8 DEF chanNext

\* So does a step that changes nothing.
LEMMA Stutter_Keeps ==
    ASSUME AccessInv, UNCHANGED allVars
    PROVE  AccessInv'
<1> USE DEF allVars, vars, chanVars, dicts, files, history, bounds
<1>1. TypeOK'
  BY DEF AccessInv, AccessSound, TypeOK
<1>2. (NamesDiffer /\ MembersMirrored /\ MembersGranted /\ WayIn /\ ListsLive)'
  BY DEF AccessInv, AccessSound, NamesDiffer, MembersMirrored, MembersGranted, WayIn, ListsLive, account_find, group_has_member
<1>3. (DictsOK /\ AccountFileOK /\ GroupFileOK /\ ChanFileOK)'
  BY DEF AccessInv, DictsOK, IsFunction, AccountFileOK, GroupFileOK, ChanFileOK
<1>4. QED
  BY <1>1, <1>2, <1>3 DEF AccessInv, AccessSound

\* The invariant holds always: what files say and what is in memory agree in numbers, names and levels
\* (account.c, group.c, chanreg.c), for any number of users, accounts, groups and channels.
THEOREM SpecAccessInv == AllSpec => []AccessInv
<1>1. AllInit => AccessInv
  BY chanInit_AccessInv DEF AllInit
<1>2. AccessInv /\ [AllNext]_partVars => AccessInv'
  BY chanNext_Keeps, Stutter_Keeps DEF AllNext, partVars
<1>3. QED
  BY <1>1, <1>2, PTL DEF AllSpec

\* Accounts, groups and lists agree after every command, write, crash and
\* restart (account.c, group.c, chanreg.c and their databases).
THEOREM SpecAccessSound == AllSpec => []AccessSound
BY SpecAccessInv, PTL DEF AccessInv

-----------------------------------------------------------------------------
(* Ranks.  What a command does to one list, put as RanksHold puts it.          *)

\* The ranks of live lists.
LEMMA RankOf ==
    ASSUME AccessInv
    PROVE  \A c \in DOMAIN chanregs : \A a \in DOMAIN chanregs[c] :
              /\ a \in Id /\ a \in DOMAIN accounts /\ Rank(c, a) = chanregs[c][a].level /\ Rank(c, a) \in 1..UL_OWNER
              /\ Entry(c, a) = chanregs[c][a]
<1>1. \A c \in DOMAIN chanregs : \A a \in DOMAIN chanregs[c] : a \in DOMAIN accounts /\ chanregs[c][a] \in Access
  BY DEF AccessInv, AccessSound, ListsLive
<1>2. \A a \in DOMAIN accounts : a \in Id
  BY AccountsAssumption DEF AccessInv, AccessSound, TypeOK, Id
<1>3. \A c \in DOMAIN chanregs : \A a \in DOMAIN chanregs[c] : chanregs[c][a].level \in 1..UL_OWNER
  BY <1>1 DEF Access, Level
<1>4. QED
  BY <1>1, <1>2, <1>3 DEF Rank, Entry, UL_OWNER

\* Who is not on a list has no rank.
LEMMA RankOutside ==
    \A c, a : ~(c \in DOMAIN chanregs /\ a \in DOMAIN chanregs[c]) => Rank(c, a) = 0 /\ Entry(c, a) = NONE
BY DEF Rank, Entry

\* The ranks the code names are levels.
LEMMA UL_Levels == UL_MASTER \in Level /\ UL_COOWNER \in Level /\ UL_OWNER \in Level
BY DEF Level, UL_MASTER, UL_COOWNER, UL_OWNER

\* Somebody who may use a command of rank min is an admin or stands so high.
LEMMA AllowedStands ==
    ASSUME AccessInv, NEW u \in User, NEW c \in DOMAIN chanregs, NEW min \in Level, Allowed(u, c, min)
    PROVE  \/ Admin(u)
           \/ /\ Stands(u, c, min) /\ account[u] \in DOMAIN chanregs[c]
              /\ Rank(c, account[u]) = level(c, u) /\ level(c, u) \in Level
BY RankOf DEF Allowed, Stands, chanreg_user_find, level, Level

\* What RanksHold says of one channel.
Held(c) ==
      /\ \A a \in Id : Entry(c, a)' # Entry(c, a) =>
            \/ a \notin DOMAIN accounts'
            \/ \E u \in User :
                  \/ Admin(u)
                  \/ account[u] = a /\ Rank(c, a) # UL_OWNER /\ Rank(c, a)' = 0
                  \/ /\ Stands(u, c, UL_MASTER)
                     /\ Rank(c, account[u]) > Rank(c, a)
                     /\ Rank(c, account[u]) > Rank(c, a)'
                  \/ Stands(u, c, UL_OWNER) /\ Cardinality(Owners(c)') <= 1
      /\ c \in DOMAIN chanregs \cap (DOMAIN chanregs)' /\ Owners(c) # {} /\ Owners(c)' = {} =>
            (\E u \in User : Admin(u)) \/ ~(Owners(c) \subseteq (DOMAIN accounts)')

\* An admin may do everything.
LEMMA AdminHolds ==
    ASSUME NEW u \in User, Admin(u)
    PROVE  \A c : Held(c)
BY DEF Held

\* A list that stays says nothing of this step.
LEMMA OthersHold ==
    ASSUME NEW c, c \in DOMAIN chanregs <=> c \in DOMAIN chanregs', c \in DOMAIN chanregs => chanregs'[c] = chanregs[c]
    PROVE  Held(c)
<1>1. \A a : Rank(c, a)' = Rank(c, a)
  BY DEF Rank
<1>2. \A a : Entry(c, a)' = Entry(c, a)
  BY <1>1 DEF Entry, Rank
<1>3. Owners(c)' = Owners(c)
  BY <1>1 DEF Owners
<1>4. QED
  BY <1>2, <1>3 DEF Held

\* A command on c's list holds if what it does to one entry is held and nothing else changes.
LEMMA OneEntryHolds ==
    ASSUME AccessInv, NEW c \in DOMAIN chanregs, NEW list, List(c, list),
           NEW u \in User, NEW a \in Id,
           \A b \in Id \ {a} : /\ b \in DOMAIN list <=> b \in DOMAIN chanregs[c]
                               /\ b \in DOMAIN list => list[b] = chanregs[c][b],
           \/ account[u] = a /\ a \in DOMAIN chanregs[c] /\ chanregs[c][a].level # UL_OWNER /\ a \notin DOMAIN list
           \/ /\ Stands(u, c, UL_MASTER)
              /\ Rank(c, account[u]) > Rank(c, a)
              /\ a \in DOMAIN list => Rank(c, account[u]) > list[a].level
           \/ a \in DOMAIN chanregs[c] /\ a \in DOMAIN list /\ list[a] = chanregs[c][a]
    PROVE  \A d : Held(d)
<1>1. /\ DOMAIN chanregs' = DOMAIN chanregs /\ chanregs'[c] = list
      /\ \A d \in DOMAIN chanregs : d # c => chanregs'[d] = chanregs[d]
  BY DEF List, AccessInv, DictsOK, IsFunction
<1>2. \A d : d # c => Held(d)
  BY <1>1, OthersHold
<1>3. \A b \in Id : Rank(c, b)' = IF b \in DOMAIN list THEN list[b].level ELSE 0
  BY <1>1 DEF Rank
<1>4. \A b \in Id : Rank(c, b) = IF b \in DOMAIN chanregs[c] THEN chanregs[c][b].level ELSE 0
  BY DEF Rank
<1>5. \A b \in Id \ {a} : Rank(c, b)' = Rank(c, b) /\ Entry(c, b)' = Entry(c, b)
  BY <1>1, <1>3, <1>4 DEF Entry
<1>6. Rank(c, a) # UL_OWNER \/ Rank(c, a)' = Rank(c, a)
  <2>1. CASE Stands(u, c, UL_MASTER) /\ Rank(c, account[u]) > Rank(c, a)
    <3>1. Rank(c, account[u]) \in 1..UL_OWNER
      BY <2>1, RankOf, RankOutside DEF Stands, UL_MASTER, Rank
    <3>2. Rank(c, a) \in 0..UL_OWNER
      BY RankOf, RankOutside DEF UL_OWNER
    <3>3. QED
      BY <2>1, <3>1, <3>2 DEF UL_OWNER
  <2>2. CASE ~(Stands(u, c, UL_MASTER) /\ Rank(c, account[u]) > Rank(c, a))
    BY <1>3, <1>4, <2>2
  <2>3. QED
    BY <2>1, <2>2
<1>7. Owners(c) \subseteq Owners(c)'
  BY <1>5, <1>6 DEF Owners
<1>8. Entry(c, a)' # Entry(c, a) =>
            \/ account[u] = a /\ Rank(c, a) # UL_OWNER /\ Rank(c, a)' = 0
            \/ /\ Stands(u, c, UL_MASTER)
               /\ Rank(c, account[u]) > Rank(c, a)
               /\ Rank(c, account[u]) > Rank(c, a)'
  <2>1. CASE account[u] = a /\ a \in DOMAIN chanregs[c] /\ chanregs[c][a].level # UL_OWNER /\ a \notin DOMAIN list
    BY <1>3, <1>4, <2>1
  <2>2. CASE /\ Stands(u, c, UL_MASTER)
             /\ Rank(c, account[u]) > Rank(c, a)
             /\ a \in DOMAIN list => Rank(c, account[u]) > list[a].level
    <3>1. Rank(c, account[u]) > 0
      BY <2>2, RankOf, RankOutside DEF Stands, UL_MASTER, Rank
    <3>2. QED
      BY <1>3, <2>2, <3>1
  <2>3. CASE a \in DOMAIN chanregs[c] /\ a \in DOMAIN list /\ list[a] = chanregs[c][a]
    BY <1>1, <1>3, <1>4, <2>3 DEF Entry
  <2>4. QED
    BY <2>1, <2>2, <2>3
<1>9. Held(c)
  BY <1>5, <1>7, <1>8 DEF Held
<1>10. QED
  BY <1>2, <1>9

\* adduser: nobody is put on a level that the one who does it is not above.
LEMMA adduser_Held ==
    ASSUME AccessInv, NEW u \in User, NEW c, NEW a \in DOMAIN accounts, NEW n, adduser(u, c, a, n)
    PROVE  \A d : Held(d)
<1>1. /\ c \in DOMAIN chanregs /\ Allowed(u, c, UL_MASTER) /\ Below(u, c, Narrow(n))
      /\ a \notin DOMAIN chanregs[c] /\ List(c, With(c, a, [level |-> Narrow(n), suspended |-> FALSE]))
      /\ UNCHANGED accounts
  BY DEF adduser, OnChannel, dicts
<1>2. CASE Admin(u)
  BY <1>2, AdminHolds
<1>3. CASE ~Admin(u)
  <2>1. Stands(u, c, UL_MASTER) /\ account[u] \in DOMAIN chanregs[c] /\ Rank(c, account[u]) = level(c, u)
    BY <1>1, <1>3, AllowedStands, UL_Levels
  <2>2. level(c, u) > Narrow(n)
    BY <1>1, <1>3, <2>1 DEF Below, chanreg_user_find, IsStaff, Stands
  <2>3. PICK list : list = With(c, a, [level |-> Narrow(n), suspended |-> FALSE])
    OBVIOUS
  <2>4. /\ \A b \in Id \ {a} : /\ b \in DOMAIN list <=> b \in DOMAIN chanregs[c]
                               /\ b \in DOMAIN list => list[b] = chanregs[c][b]
        /\ list[a].level = Narrow(n)
    BY <2>3 DEF With
  <2>5. Rank(c, a) = 0 /\ Rank(c, account[u]) > Rank(c, a)
    <3>1. Rank(c, a) = 0
      BY <1>1, RankOutside
    <3>2. Rank(c, account[u]) \in 1..UL_OWNER
      BY <1>1, <2>1, RankOf
    <3>3. QED
      BY <3>1, <3>2 DEF UL_OWNER
  <2>6. a \in Id
    BY AccountsAssumption DEF AccessInv, AccessSound, TypeOK, Id
  <2>7. List(c, list) /\ Rank(c, account[u]) > list[a].level
    BY <1>1, <2>1, <2>2, <2>3, <2>4
  <2>8. QED
    BY <1>1, <2>1, <2>4, <2>5, <2>6, <2>7, OneEntryHolds
<1>4. QED
  BY <1>2, <1>3

\* Whoever is not an admin and may change what is on record about a outranks a, and what he sets.
LEMMA MayChange ==
    ASSUME AccessInv, NEW u \in User, ~Admin(u), NEW c \in DOMAIN chanregs, NEW a \in DOMAIN chanregs[c],
           Allowed(u, c, UL_MASTER), Below(u, c, chanregs[c][a].level)
    PROVE  /\ a \in Id /\ Stands(u, c, UL_MASTER) /\ Rank(c, account[u]) > Rank(c, a) /\ Rank(c, a) = chanregs[c][a].level
           /\ \A l : Below(u, c, l) => Rank(c, account[u]) > l
<1>1. Stands(u, c, UL_MASTER) /\ account[u] \in DOMAIN chanregs[c] /\ Rank(c, account[u]) = level(c, u)
  BY AllowedStands, UL_Levels
<1>2. \A l : Below(u, c, l) => level(c, u) > l
  BY <1>1 DEF Below, chanreg_user_find, IsStaff, Stands
<1>3. QED
  BY <1>1, <1>2, RankOf

\* clvl, suspend, unsuspend and deluser: from above only.
LEMMA Entry_Held ==
    ASSUME AccessInv, NEW u \in User, NEW c, NEW a, NEW n,
           clvl(u, c, a, n) \/ suspend(u, c, a) \/ unsuspend(u, c, a) \/ deluser(u, c, a)
    PROVE  \A d : Held(d)
<1>1. /\ c \in DOMAIN chanregs /\ Allowed(u, c, UL_MASTER) /\ a \in DOMAIN chanregs[c]
      /\ Below(u, c, chanregs[c][a].level) /\ UNCHANGED accounts
  BY DEF clvl, suspend, unsuspend, deluser, OnChannel, dicts
<1>2. CASE Admin(u)
  BY <1>2, AdminHolds
<1>3. CASE ~Admin(u)
  <2>1. /\ a \in Id /\ Stands(u, c, UL_MASTER) /\ Rank(c, account[u]) > Rank(c, a) /\ Rank(c, a) = chanregs[c][a].level
        /\ \A l : Below(u, c, l) => Rank(c, account[u]) > l
    BY <1>1, <1>3, MayChange
  <2>2. chanregs[c][a] \in Access
    BY <1>1, MadeLists
  <2>3. CASE clvl(u, c, a, n)
    <3>1. PICK list : list = [chanregs[c] EXCEPT ![a].level = Narrow(n)]
      OBVIOUS
    <3>2. List(c, list) /\ Below(u, c, Narrow(n))
      BY <2>3, <3>1 DEF clvl
    <3>3. /\ list[a].level = Narrow(n)
          /\ DOMAIN list = DOMAIN chanregs[c] /\ \A b \in DOMAIN list : b # a => list[b] = chanregs[c][b]
      BY <1>1, <2>2, <3>1 DEF Access
    <3>4. QED
      BY <1>1, <2>1, <3>2, <3>3, OneEntryHolds
  <2>4. ASSUME NEW s \in BOOLEAN, List(c, [chanregs[c] EXCEPT ![a].suspended = s]) PROVE \A d : Held(d)
    <3>1. PICK list : list = [chanregs[c] EXCEPT ![a].suspended = s]
      OBVIOUS
    <3>2. List(c, list)
      BY <2>4, <3>1
    <3>3. /\ list[a].level = chanregs[c][a].level
          /\ DOMAIN list = DOMAIN chanregs[c] /\ \A b \in DOMAIN list : b # a => list[b] = chanregs[c][b]
      BY <1>1, <2>2, <3>1 DEF Access
    <3>4. QED
      BY <1>1, <2>1, <3>2, <3>3, OneEntryHolds
  <2>5. CASE deluser(u, c, a)
    <3>1. PICK list : list = Without(c, a)
      OBVIOUS
    <3>2. List(c, list)
      BY <2>5, <3>1 DEF deluser
    <3>3. DOMAIN list = DOMAIN chanregs[c] \ {a} /\ \A b \in DOMAIN list : list[b] = chanregs[c][b]
      BY <3>1 DEF Without
    <3>4. QED
      BY <1>1, <2>1, <3>2, <3>3, OneEntryHolds
  <2>6. QED
    BY <2>3, <2>4, <2>5 DEF suspend, unsuspend
<1>4. QED
  BY <1>2, <1>3

\* deleteme: one's own entry, and never the owner's.
LEMMA deleteme_Held ==
    ASSUME AccessInv, NEW u \in User, NEW c, deleteme(u, c)
    PROVE  \A d : Held(d)
<1>1. PICK a : a = account[u]
  OBVIOUS
<1>2. PICK list : list = Without(c, a)
  OBVIOUS
<1>3. /\ c \in DOMAIN chanregs /\ a \in DOMAIN chanregs[c] /\ chanregs[c][a].level # UL_OWNER
      /\ List(c, list) /\ UNCHANGED accounts
  BY <1>1, <1>2 DEF deleteme, OnChannel, dicts, chanreg_user_find, level
<1>4. DOMAIN list = DOMAIN chanregs[c] \ {a} /\ \A b \in DOMAIN list : list[b] = chanregs[c][b]
  BY <1>2 DEF Without
<1>5. a \in Id
  BY <1>3, RankOf
<1>6. QED
  BY <1>1, <1>3, <1>4, <1>5, OneEntryHolds

\* A set of one at most.
LEMMA OnlyOne ==
    ASSUME NEW S, IsFiniteSet(S), Cardinality(S) <= 1, NEW x \in S, NEW y \in S
    PROVE  x = y
<1>1. SUFFICES ASSUME x # y PROVE FALSE
  OBVIOUS
<1>2. IsFiniteSet({x}) /\ Cardinality({x}) = 1
  BY FS_Singleton
<1>3. Cardinality({x}) <= Cardinality(S) /\ (Cardinality({x}) = Cardinality(S) => {x} = S)
  BY FS_Subset
<1>4. Cardinality(S) \in Nat
  BY FS_CardinalityType
<1>5. {x} = S
  BY <1>2, <1>3, <1>4
<1>6. QED
  BY <1>1, <1>5

\* giveownership: the one owner, or an admin, makes another one.
LEMMA giveownership_Held ==
    ASSUME AccessInv, NEW u \in User, NEW c, NEW a \in DOMAIN accounts, NEW force, giveownership(u, c, a, force)
    PROVE  \A d : Held(d)
<1> DEFINE owns == {x \in DOMAIN chanregs[c] : chanregs[c][x].level = UL_OWNER}
           listed == IF a \in DOMAIN chanregs[c] THEN chanregs[c]
                     ELSE With(c, a, [level |-> UL_COOWNER, suspended |-> FALSE])
           was == IF listed[a].level > UL_COOWNER THEN listed[a].level ELSE UL_COOWNER
           list == [x \in DOMAIN listed |->
                      IF x = a THEN [listed[x] EXCEPT !.level = UL_OWNER]
                      ELSE IF x \in owns THEN [listed[x] EXCEPT !.level = was] ELSE listed[x]]
<1>1. /\ c \in DOMAIN chanregs /\ Allowed(u, c, UL_OWNER) /\ a # account[u] /\ Cardinality(owns) <= 1
      /\ List(c, list) /\ UNCHANGED accounts
  BY DEF giveownership, OnChannel, dicts
<1>2. CASE Admin(u)
  BY <1>2, AdminHolds
<1>3. CASE ~Admin(u)
  <2>1. /\ Stands(u, c, UL_OWNER) /\ account[u] \in DOMAIN chanregs[c]
        /\ Rank(c, account[u]) = level(c, u) /\ level(c, u) \in Level
    BY <1>1, <1>3, AllowedStands, UL_Levels
  <2>2. account[u] \in owns
    BY <1>1, <2>1, RankOf DEF Stands, Level, UL_OWNER
  <2>3. IsFiniteSet(owns)
    <3>1. owns \subseteq Id
      BY <1>1, RankOf
    <3>2. IsFiniteSet(Id)
      BY AccountsAssumption, FS_Interval DEF Id
    <3>3. QED
      BY <3>1, <3>2, FS_Subset
  <2>4. \A x \in owns : x = account[u]
    BY <1>1, <2>2, <2>3, OnlyOne
  <2>5. /\ DOMAIN chanregs' = DOMAIN chanregs /\ chanregs'[c] = list
        /\ \A d \in DOMAIN chanregs : d # c => chanregs'[d] = chanregs[d]
    BY <1>1 DEF List, AccessInv, DictsOK, IsFunction
  <2>6. a \notin DOMAIN chanregs[c] \/ chanregs[c][a].level < UL_OWNER
    <3>1. a \in DOMAIN chanregs[c] => chanregs[c][a].level # UL_OWNER
      BY <1>1, <2>4
    <3>2. a \in DOMAIN chanregs[c] => chanregs[c][a].level \in 1..UL_OWNER
      BY <1>1, RankOf
    <3>3. QED
      BY <3>1, <3>2 DEF UL_OWNER
  <2> HIDE DEF list, was, listed
  <2>7. \A x \in DOMAIN chanregs[c] : chanregs[c][x] \in Access
    BY <1>1, MadeLists
  <2>8. /\ DOMAIN listed = DOMAIN chanregs[c] \cup {a}
        /\ \A x \in DOMAIN chanregs[c] : x # a => listed[x] = chanregs[c][x]
        /\ listed[a] \in Access /\ listed[a].level < UL_OWNER
    <3>1. CASE a \in DOMAIN chanregs[c]
      <4>1. listed = chanregs[c]
        BY <3>1 DEF listed
      <4>2. chanregs[c][a] \in Access /\ chanregs[c][a].level < UL_OWNER
        BY <2>6, <2>7, <3>1
      <4>3. DOMAIN chanregs[c] = DOMAIN chanregs[c] \cup {a}
        BY <3>1
      <4> QED
        BY <4>1, <4>2, <4>3
    <3>2. CASE a \notin DOMAIN chanregs[c]
      <4>1. listed = With(c, a, [level |-> UL_COOWNER, suspended |-> FALSE])
        BY <3>2 DEF listed
      <4>2. /\ DOMAIN listed = DOMAIN chanregs[c] \cup {a}
            /\ listed[a] = [level |-> UL_COOWNER, suspended |-> FALSE]
            /\ \A x \in DOMAIN chanregs[c] : x # a => listed[x] = chanregs[c][x]
        BY <4>1 DEF With
      <4>3. [level |-> UL_COOWNER, suspended |-> FALSE] \in Access
        BY DEF Access, Level, UL_OWNER, UL_COOWNER
      <4> QED
        BY <4>2, <4>3 DEF UL_OWNER, UL_COOWNER
    <3>3. QED
      BY <3>1, <3>2
  <2>9. was \in Level /\ was < UL_OWNER
    <3>1. listed[a].level \in Level /\ listed[a].level < UL_OWNER
      BY <2>8 DEF Access
    <3> QED
      BY <3>1 DEF was, Level, UL_OWNER, UL_COOWNER
  <2>10. /\ DOMAIN list = DOMAIN chanregs[c] \cup {a}
         /\ list[a].level = UL_OWNER
         /\ \A x \in DOMAIN list : x # a => list[x].level # UL_OWNER
    <3>1. DOMAIN list = DOMAIN listed
      BY DEF list
    <3>2. list[a].level = UL_OWNER
      <4>1. list[a] = [listed[a] EXCEPT !.level = UL_OWNER]
        BY <2>8 DEF list
      <4> QED
        BY <2>8, <4>1 DEF Access
    <3>3. ASSUME NEW x \in DOMAIN list, x # a
          PROVE  list[x].level # UL_OWNER
      <4>1. x \in DOMAIN chanregs[c] /\ listed[x] = chanregs[c][x] /\ listed[x] \in Access
        BY <2>7, <2>8, <3>1, <3>3
      <4>2. CASE x \in owns
        <5>1. list[x] = [listed[x] EXCEPT !.level = was]
          BY <3>1, <3>3, <4>2 DEF list
        <5>2. list[x].level = was
          BY <4>1, <5>1 DEF Access
        <5> QED
          BY <2>9, <5>2 DEF UL_OWNER
      <4>3. CASE x \notin owns
        <5>1. list[x] = listed[x]
          BY <3>1, <3>3, <4>3 DEF list
        <5> QED
          BY <4>1, <4>3, <5>1
      <4> QED
        BY <4>2, <4>3
    <3> QED
      BY <2>8, <3>1, <3>2, <3>3
  <2>11. a \in Id
    BY AccountsAssumption DEF AccessInv, AccessSound, TypeOK, Id
  <2>12. Owners(c)' = {a}
    BY <1>1, <2>5, <2>10, <2>11 DEF Owners, Rank, UL_OWNER
  <2>13. Cardinality(Owners(c)') <= 1
    BY <2>12, FS_Singleton
  <2>14. Held(c)
    BY <2>1, <2>12, <2>13 DEF Held
  <2>15. \A d : d # c => Held(d)
    BY <2>5, OthersHold
  <2>16. QED
    BY <2>14, <2>15
<1>4. QED
  BY <1>2, <1>3

\* cunregister: an owner may.
LEMMA cunregister_Held ==
    ASSUME AccessInv, NEW u \in User, NEW c, cunregister(u, c)
    PROVE  \A d : Held(d)
<1>1. /\ c \in DOMAIN chanregs /\ Allowed(u, c, UL_OWNER)
      /\ chanregs' = [x \in DOMAIN chanregs \ {c} |-> chanregs[x]]
  BY DEF cunregister, OnChannel
<1>2. CASE Admin(u)
  BY <1>2, AdminHolds
<1>3. CASE ~Admin(u)
  <2>1. Stands(u, c, UL_OWNER)
    BY <1>1, <1>3, AllowedStands, UL_Levels
  <2>2. Owners(c)' = {}
    BY <1>1 DEF Owners, Rank, UL_OWNER
  <2>3. Cardinality(Owners(c)') <= 1
    BY <2>2, FS_EmptySet
  <2>4. Held(c)
    BY <1>1, <2>1, <2>3 DEF Held
  <2>5. \A d : d # c => Held(d)
    BY <1>1, OthersHold
  <2>6. QED
    BY <2>4, <2>5
<1>4. QED
  BY <1>2, <1>3

\* unregister: the account is gone from every list.
LEMMA chanreg_account_del_Held ==
    ASSUME AccessInv, NEW u \in User, chanreg_account_del(u)
    PROVE  \A d : Held(d)
<1>1. PICK a : a = account[u]
  OBVIOUS
<1>2. /\ DOMAIN accounts' = DOMAIN accounts \ {a}
      /\ chanregs' = [c \in DOMAIN chanregs |-> Without(c, a)]
  BY <1>1 DEF chanreg_account_del, unregister
<1>3. \A c, b : b # a => Rank(c, b)' = Rank(c, b) /\ Entry(c, b)' = Entry(c, b)
  <2>1. \A c, b : b # a => Rank(c, b)' = Rank(c, b)
    BY <1>2 DEF Rank, Without
  <2>2. \A c, b : b # a => Entry(c, b)' = Entry(c, b)
    <3> SUFFICES ASSUME NEW c, NEW b, b # a PROVE Entry(c, b)' = Entry(c, b)
      OBVIOUS
    <3>1. CASE c \in DOMAIN chanregs /\ b \in DOMAIN chanregs[c]
      <4>1. chanregs'[c][b] = chanregs[c][b]
        BY <1>2, <3>1 DEF Without
      <4>2. QED
        BY <2>1, <4>1 DEF Entry
    <3>2. CASE ~(c \in DOMAIN chanregs /\ b \in DOMAIN chanregs[c])
      BY <2>1, <3>2, RankOutside DEF Entry
    <3>3. QED
      BY <3>1, <3>2
  <2>3. QED
    BY <2>1, <2>2
<1>4. SUFFICES ASSUME NEW c PROVE Held(c)
  OBVIOUS
<1>5. Owners(c)' = {} /\ Owners(c) # {} => a \in Owners(c)
  BY <1>3 DEF Owners
<1>6. QED
  BY <1>2, <1>3, <1>5 DEF Held

\* Every step but a start.
LEMMA ranks_chanNext ==
    ASSUME AccessInv, chanNext, boots' = boots
    PROVE  \A c \in Chan : Held(c)
<1>1. world.user \subseteq User /\ boots \in Nat
  BY WorldIn DEF AccessInv, AccessSound, TypeOK
<1>2. CASE chanregs' = chanregs
  BY <1>2, OthersHold
<1>3. ASSUME NEW u \in world.user, chanreg_account_del(u) PROVE \A c : Held(c)
  BY <1>1, <1>3, chanreg_account_del_Held
<1>4. ASSUME NEW u \in world.user, NEW c \in world.chan, cunregister(u, c) \/ deleteme(u, c) PROVE \A d : Held(d)
  BY <1>1, <1>4, cunregister_Held, deleteme_Held
<1>5. ASSUME NEW u \in world.user, NEW c \in world.chan, NEW a \in DOMAIN accounts, OnUser(u, c, a) PROVE \A d : Held(d)
  <2>1. u \in User
    BY <1>1
  <2>2. CASE cregister(u, c, a)
    BY <2>1, <2>2, AdminHolds DEF cregister
  <2>3. ASSUME NEW n, adduser(u, c, a, n) PROVE \A d : Held(d)
    BY <2>1, <2>3, adduser_Held
  <2>4. ASSUME NEW n, clvl(u, c, a, n) \/ suspend(u, c, a) \/ unsuspend(u, c, a) \/ deluser(u, c, a)
        PROVE  \A d : Held(d)
    BY <2>1, <2>4, Entry_Held
  <2>5. ASSUME NEW force, giveownership(u, c, a, force) PROVE \A d : Held(d)
    BY <2>1, <2>5, giveownership_Held
  <2>6. QED
    BY <1>5, <2>2, <2>3, <2>4, <2>5 DEF OnUser
<1>6. ASSUME NEW W \in SUBSET AllFiles, write(W) PROVE chanregs' = chanregs
  BY <1>6 DEF write
<1>7. ~start
  BY <1>1 DEF start, restart
<1>8. QED
  BY <1>2, <1>3, <1>4, <1>5, <1>6, <1>7 DEF chanNext, chanVars

\* What is on record about somebody is changed by those who may, and an owned
\* channel stays owned (the commands of chanreg.c).
THEOREM SpecRanksHold == AllSpec => RanksHold
<1>1. ASSUME AccessInv, [AllNext]_partVars, boots' = boots
      PROVE  UNCHANGED allVars \/ \A c \in Chan : Held(c)
  BY <1>1, ranks_chanNext DEF AllNext, partVars
<1>2. AccessInv /\ [AllNext]_partVars => [boots' = boots => \A c \in Chan : Held(c)]_allVars
  BY <1>1
<1>3. QED
  BY <1>2, SpecAccessInv, PTL DEF AllSpec, RanksHold, Held

-----------------------------------------------------------------------------
(* A restart.                                                                  *)

\* Accounts that are saved and read are the same, with the groups they were saved in.
LEMMA AccountsReadBack ==
    ASSUME AccessInv, mishaps = {}
    PROVE  account_db_read(AccountImage, members) = accounts
<1>1. PICK accts : accts = account_db_read(AccountImage, members)
  OBVIOUS
<1>2. \A m, n \in DOMAIN AccountImage : AccountImage[m].id = AccountImage[n].id => m = n
  BY AccountImageOK
<1>3. DOMAIN accts = DOMAIN accounts
  <2>1. DOMAIN accts = {AccountImage[n].id : n \in DOMAIN AccountImage}
    BY <1>1 DEF account_db_read
  <2>2. \A a \in DOMAIN accounts : AccountImage[accounts[a].name].id = a /\ accounts[a].name \in DOMAIN AccountImage
    <3> TAKE a \in DOMAIN accounts
    <3>1. AccountImage[accounts[a].name] =
            [id |-> a, pass |-> accounts[a].pass, login_masks |-> accounts[a].login_masks]
      BY ImageOf
    <3>2. accounts[a].name \in DOMAIN AccountImage
      BY ImageOf
    <3>3. QED
      BY <3>1, <3>2
  <2>3. \A n \in DOMAIN AccountImage : AccountImage[n].id \in DOMAIN accounts
    BY AccountImageOK
  <2>4. QED
    BY <2>1, <2>2, <2>3
<1>4. ASSUME NEW a \in DOMAIN accounts PROVE accts[a] = accounts[a]
  <2>1. PICK n : n = accounts[a].name
    OBVIOUS
  <2>2. /\ n \in DOMAIN AccountImage
        /\ AccountImage[n] = [id |-> a, pass |-> accounts[a].pass, login_masks |-> accounts[a].login_masks]
    BY <2>1, ImageOf
  <2>3. AccountImage[n].id = a /\ AccountImage[n].pass = accounts[a].pass
        /\ AccountImage[n].login_masks = accounts[a].login_masks
    BY <2>2
  <2>4. accts[a] = [name |-> n, pass |-> accounts[a].pass, login_masks |-> accounts[a].login_masks,
                    groups |-> [g \in Group |-> members[g][n]]]
    <3>1. accts[AccountImage[n].id] =
            [name |-> n, pass |-> AccountImage[n].pass, login_masks |-> AccountImage[n].login_masks,
             groups |-> [g \in Group |-> members[g][n]]]
      BY <1>1, <1>2, <2>2, ReadsBack
    <3>2. QED
      BY <2>3, <3>1
  <2>5. accounts[a] \in Account
    BY DEF AccessInv, AccessSound, TypeOK
  <2>6. accounts[a].groups = [g \in Group |-> members[g][n]]
    <3>1. \A g \in Group : accounts[a].groups[g] = members[g][n]
      BY <2>1 DEF AccessInv, AccessSound, MembersMirrored
    <3>2. accounts[a].groups \in [Group -> Nat]
      BY <2>5 DEF Account
    <3>3. QED
      BY <3>1, <3>2
  <2>7. QED
    BY <2>1, <2>4, <2>5, <2>6 DEF Account
<1>5. IsFunction(accts) /\ IsFunction(accounts)
  BY <1>1 DEF IsFunction, account_db_read, AccessInv, DictsOK
<1>6. accts = accounts
  BY <1>3, <1>4, <1>5 DEF IsFunction
<1>7. QED
  BY <1>1, <1>6

\* The members that were written are read again.
LEMMA MembersReadBack ==
    ASSUME AccessInv, mishaps = {}
    PROVE  group_db_read(AccountImage, members) = members
<1>1. \A g \in Group, n \in Name : members[g][n] \in Nat /\ (members[g][n] > 0 => n \in DOMAIN AccountImage)
  <2>1. \A g \in Group, n \in Name : members[g][n] \in Nat /\ (members[g][n] > 0 => account_find(n) # {})
    BY DEF AccessInv, AccessSound, TypeOK, MembersMirrored
  <2>2. \A n : account_find(n) # {} => n \in DOMAIN AccountImage
    BY ImageOf DEF account_find
  <2>3. QED
    BY <2>1, <2>2
<1>2. \A g \in Group, n \in Name : Found(AccountImage, members, g, n) = members[g][n]
  BY <1>1 DEF Found
<1>3. members \in [Group -> [Name -> Nat]]
  BY DEF AccessInv, AccessSound, TypeOK
<1>4. QED
  BY <1>2, <1>3 DEF group_db_read

\* So are the lists, and the accounts their names stand for.
LEMMA ListsReadBack ==
    ASSUME AccessInv
    PROVE  chanreg_db_read(ChanImage, accounts) = chanregs
<1>1. PICK lists : lists = chanreg_db_read(ChanImage, accounts)
  OBVIOUS
<1>2. DOMAIN lists = DOMAIN chanregs /\ IsFunction(lists)
  BY <1>1 DEF chanreg_db_read, ChanImage, IsFunction
<1>3. ASSUME NEW c \in DOMAIN chanregs PROVE lists[c] = chanregs[c]
  <2>1. DOMAIN chanregs[c] \subseteq DOMAIN accounts
    BY DEF AccessInv, AccessSound, ListsLive
  <2>2. PICK image : image = ChanImage[c]
    OBVIOUS
  <2>3. /\ DOMAIN image = {accounts[a].name : a \in DOMAIN chanregs[c]}
        /\ \A a \in DOMAIN chanregs[c] : image[accounts[a].name] = chanregs[c][a]
    BY <2>1, <2>2, NamedIsIt DEF ChanImage
  <2>4. lists[c] = [a \in {x \in DOMAIN accounts : accounts[x].name \in DOMAIN image} |-> image[accounts[a].name]]
    BY <1>1, <2>2 DEF chanreg_db_read, ChanImage
  <2>5. {x \in DOMAIN accounts : accounts[x].name \in DOMAIN image} = DOMAIN chanregs[c]
    BY <2>1, <2>3 DEF AccessInv, AccessSound, NamesDiffer
  <2>6. chanregs[c] = [a \in DOMAIN chanregs[c] |-> chanregs[c][a]]
    BY DEF AccessInv, DictsOK, IsFunction
  <2>7. QED
    BY <2>3, <2>4, <2>5, <2>6
<1>4. IsFunction(chanregs)
  BY DEF AccessInv, DictsOK
<1>5. lists = chanregs
  BY <1>2, <1>3, <1>4 DEF IsFunction
<1>6. QED
  BY <1>1, <1>5

\* A start from files that are up to date changes nothing.
LEMMA start_Preserves ==
    ASSUME AccessInv, start,
           account_db = AccountImage, group_db = GroupImage, chanreg_db = ChanImage, mishaps = {}
    PROVE  UNCHANGED <<dicts, chanregs>>
<1>1. /\ accounts' = account_db_read(AccountImage, members)
      /\ group_list' = group_list \cup {ADMINS}
      /\ members' = group_db_read(AccountImage, members)
      /\ chanregs' = chanreg_db_read(ChanImage, accounts')
  BY DEF start, restart, GroupImage
<1>2. accounts' = accounts /\ members' = members
  BY <1>1, AccountsReadBack, MembersReadBack
<1>3. group_list' = group_list
  BY <1>1 DEF AccessInv, AccessSound, TypeOK
<1>4. chanregs' = chanregs
  BY <1>1, <1>2, ListsReadBack
<1>5. QED
  BY <1>2, <1>3, <1>4 DEF dicts

\* Nothing else counts as a start.
LEMMA OnlyStartBoots ==
    ASSUME chanNext, boots' # boots
    PROVE  start
<1> USE DEF bounds
<1>1. \A u : ~(Quiet(u) /\ boots' # boots)
  BY DEF Quiet, account_user_del, auth, login_by_mask, register, pass, Command
<1>2. \A u, a : ~(OnAccount(u, a) /\ boots' # boots)
  BY DEF OnAccount, oset_password, oset_loginmask_add, oset_loginmask_del, rename, Command
<1>3. \A u, g : ~(OnGroup(u, g) /\ boots' # boots)
  BY DEF OnGroup, group_add, group_del, group_member_add, group_member_del, Command
<1>4. ~Keep
  BY <1>1, <1>2, <1>3 DEF Keep
<1>5. \A u : ~chanreg_account_del(u)
  BY DEF chanreg_account_del, unregister, Command
<1>6. \A u, c : ~cunregister(u, c) /\ ~deleteme(u, c)
  BY DEF cunregister, deleteme, OnChannel, Command
<1>7. \A u, c, a : ~OnUser(u, c, a)
  <2>1. \A u, c : ~OnChannel(u, c)
    BY DEF OnChannel, Command
  <2>2. \A u, c, a : ~cregister(u, c, a)
    BY DEF cregister, Command
  <2>3. \A u, c, a, n : ~deluser(u, c, a) /\ ~adduser(u, c, a, n) /\ ~clvl(u, c, a, n)
    BY <2>1 DEF deluser, adduser, clvl
  <2>4. \A u, c, a, force : ~giveownership(u, c, a, force) /\ ~suspend(u, c, a) /\ ~unsuspend(u, c, a)
    BY <2>1 DEF giveownership, suspend, unsuspend
  <2>5. QED
    BY <2>2, <2>3, <2>4 DEF OnUser
<1>8. \A W : ~write(W)
  BY DEF write, database_write
<1>9. QED
  BY <1>4, <1>5, <1>6, <1>7, <1>8 DEF chanNext

\* Up-to-date files bring everything back (the readers of account.c, group.c and
\* chanreg.c, which look names up for pointers).
THEOREM SpecRestartPreserves == AllSpec => RestartPreserves
<1>1. AccessInv /\ [AllNext]_partVars =>
        [boots' # boots /\ account_db = AccountImage /\ group_db = GroupImage /\ chanreg_db = ChanImage
             /\ mishaps = {} =>
         UNCHANGED <<dicts, chanregs>>]_allVars
  BY OnlyStartBoots, start_Preserves DEF AllNext, partVars
<1>2. QED
  BY <1>1, SpecAccessInv, PTL DEF AllSpec, RestartPreserves

(* What is on its own: the channel modules, the requests and the tries.         *)

Saying == [modules : BOOLEAN, db_data : {"none", "empty", "host"}]
Struct == [name : AopChan \cup {NoChan}, modules : BOOLEAN, active : BOOLEAN,
           db_data : {"none", "empty", "host"}, fresh : BOOLEAN]

\* The file is finite, so it can be read.
ModuleTypes ==
    /\ reg \in [Reg -> Struct] /\ meant \in [Reg -> BOOLEAN]
    /\ cmod \in [loaded : BOOLEAN, pending : BOOLEAN] /\ (cmod.pending => cmod.loaded)
    /\ channels \subseteq Reg /\ aop_hosts \subseteq AopChan /\ chan_errors \subseteq ChanErrors
    /\ DOMAIN chanregs_file \subseteq AopChan /\ IsFiniteSet(DOMAIN chanregs_file)
    /\ \A c \in DOMAIN chanregs_file : chanregs_file[c] \in Saying

\* A name is registered once, and what is free is blank.
NamesOnce ==
    /\ \A r, x \in Reg : reg[r].name = reg[x].name /\ reg[r].name # NoChan => r = x
    /\ \A r \in Reg : reg[r].name = NoChan => reg[r] = FreeReg /\ ~meant[r]

\* One registration: ListsAgree and HostsRight say so of it, and where the module is not active, what is
\* saved of its data is right.
RegOK(r) ==
    /\ reg[r].active <=> r \in channels
    /\ reg[r].active => reg[r].modules /\ cmod.loaded
    /\ reg[r].modules /\ cmod.loaded /\ ~cmod.pending => reg[r].active \/ reg[r].fresh
    /\ reg[r].name # NoChan =>
          /\ meant[r] <=> IF cmod.loaded THEN reg[r].name \in aop_hosts ELSE reg[r].db_data = "host"
          /\ cmod.loaded /\ r \notin channels => (reg[r].name \in aop_hosts <=> reg[r].db_data = "host")

ModulesInv ==
    /\ ModuleTypes /\ NamesOnce
    /\ chan_errors = {} =>
          (~cmod.loaded => aop_hosts = {}) /\ (\A r \in Reg : RegOK(r)) /\ NothingInherited

Question == [nick : RNick, takeover : BOOLEAN]
RequestInv ==
    /\ access \in Seq(Question) /\ cleaners \in Nat /\ regs \in Nat /\ activeRequest \in BOOLEAN
    /\ cj_ref \in [st : {"joining", "in"}, nick : RNick] \cup {NoRef}
    /\ ChanRequestSound

\* The passwords compared are paid with what is in the bucket and what has drained; a policer that is
\* not gagged is not overfull.
PolicerOK(h) ==
    LET pol == auth_policers[h] IN
    /\ pol \in [st : {"none", "live", "freed"}, level : Nat, last_req : Nat, gagged : BOOLEAN]
    /\ tries[h] \in Nat /\ since[h] \in 0..clock /\ pol.last_req <= clock
    /\ gag_timers[h] \subseteq Nat
    /\ pol.st = "none" => pol = NoPolicer /\ tries[h] = 0
    /\ pol.level < BucketSize + 2 * Weight
    /\ tries[h] * Weight < BucketSize + 2 * Weight + (clock - since[h])
    /\ pol.st = "live" /\ ~pol.gagged =>
          /\ pol.level < BucketSize + Weight /\ tries[h] # 0
          /\ pol.last_req >= since[h]
          /\ tries[h] * Weight <= pol.level + Weight + (pol.last_req - since[h])

TriesInv ==
    /\ clock \in Nat /\ freed_used \in BOOLEAN
    /\ DOMAIN auth_policers = Host /\ DOMAIN tries = Host /\ DOMAIN since = Host /\ DOMAIN gag_timers = Host
    /\ IsFunction(auth_policers) /\ IsFunction(tries) /\ IsFunction(since) /\ IsFunction(gag_timers)
    /\ \A h \in Host : PolicerOK(h)
    /\ GagsTimed

ServicesInv == ModulesInv /\ RequestInv /\ TriesInv

-----------------------------------------------------------------------------
(* How many passwords may be tried.                                            *)

\* In the first state nothing was tried.
LEMMA apInit_Tries == ASSUME apInit PROVE TriesInv
<1>1. /\ clock = 0 /\ freed_used = FALSE
      /\ auth_policers = [h \in Host |-> NoPolicer] /\ gag_timers = [h \in Host |-> {}]
      /\ tries = [h \in Host |-> 0] /\ since = [h \in Host |-> 0]
  BY DEF apInit
<1>2. \A h \in Host : PolicerOK(h)
  BY <1>1, AuthPolicerAssumption DEF PolicerOK, NoPolicer
<1>3. GagsTimed
  BY <1>1 DEF GagsTimed, NoPolicer
<1>4. QED
  BY <1>1, <1>2, <1>3 DEF TriesInv, IsFunction

\* One try: what policer_conforms answers and leaves.
LEMMA Conforms ==
    ASSUME NEW pol \in [st : {"none", "live", "freed"}, level : Nat, last_req : Nat, gagged : BOOLEAN],
           NEW now \in Nat, pol.last_req <= now, NEW r, r = policer_conforms(pol, now)
    PROVE  /\ r.pol \in [st : {"none", "live", "freed"}, level : Nat, last_req : Nat, gagged : BOOLEAN]
           /\ r.pol.st = pol.st /\ r.pol.gagged = pol.gagged /\ r.pol.last_req = now
           /\ r.ret <=> r.pol.level < BucketSize + Weight
           /\ r.pol.level <= pol.level + Weight
           /\ r.pol.level >= pol.level + Weight - (now - pol.last_req)
<1>1. PICK d \in Nat : d = Drained(pol, now) /\ d <= pol.level /\ d >= pol.level - (now - pol.last_req)
  BY DEF Drained
<1>2. r.ret <=> d < BucketSize
  BY <1>1 DEF policer_conforms
<1>3. r.pol = [pol EXCEPT !.level = d + Weight, !.last_req = now]
  BY <1>1 DEF policer_conforms
<1>4. BucketSize \in Nat /\ Weight \in Nat
  BY AuthPolicerAssumption
<1>5. /\ r.pol \in [st : {"none", "live", "freed"}, level : Nat, last_req : Nat, gagged : BOOLEAN]
      /\ r.pol.st = pol.st /\ r.pol.gagged = pol.gagged /\ r.pol.last_req = now /\ r.pol.level = d + Weight
  <2>1. PICK l \in Nat : l = d + Weight
    BY <1>4
  <2>2. r.pol = [pol EXCEPT !.level = l, !.last_req = now]
    BY <1>3, <2>1
  <2>3. QED
    BY <2>1, <2>2
<1>6. QED
  BY <1>1, <1>2, <1>4, <1>5

\* Nothing is asked of the other hosts.
LEMMA SamePolicer ==
    ASSUME TriesInv, NEW h \in Host, UNCHANGED <<auth_policers[h], gag_timers[h], tries[h], since[h]>>,
           clock' \in Nat, clock' >= clock
    PROVE  PolicerOK(h)'
<1>1. PolicerOK(h) /\ clock \in Nat
  BY DEF TriesInv
<1>2. PICK tw : tw = tries[h] * Weight
  OBVIOUS
<1>3. PICK pol : pol = auth_policers[h]
  OBVIOUS
<1>4. /\ tw < BucketSize + 2 * Weight + (clock' - since[h])
      /\ since[h] \in 0..clock' /\ pol.last_req <= clock'
  <2>1. tw \in Nat /\ BucketSize \in Nat /\ Weight \in Nat
    BY <1>1, <1>2, AuthPolicerAssumption DEF PolicerOK
  <2>2. tw < BucketSize + 2 * Weight + (clock - since[h]) /\ since[h] \in 0..clock
    BY <1>1, <1>2 DEF PolicerOK
  <2>3. pol.last_req <= clock /\ pol.last_req \in Nat
    BY <1>1, <1>3 DEF PolicerOK
  <2>4. QED
    BY <1>1, <2>1, <2>2, <2>3
<1>5. QED
  BY <1>1, <1>2, <1>3, <1>4 DEF PolicerOK

\* What happens to one host leaves the others' policers alone.
LEMMA OneHost ==
    ASSUME TriesInv, NEW h \in Host, clock' = clock, freed_used' \in BOOLEAN, ~freed_used' => ~freed_used,
           \A x \in Host \ {h} : UNCHANGED <<auth_policers[x], gag_timers[x], tries[x], since[x]>>,
           DOMAIN auth_policers' = Host, DOMAIN tries' = Host, DOMAIN since' = Host, DOMAIN gag_timers' = Host,
           IsFunction(auth_policers'), IsFunction(tries'), IsFunction(since'), IsFunction(gag_timers'),
           PolicerOK(h)',
           ~freed_used' => /\ gag_timers'[h] # {} <=> auth_policers'[h].st = "live" /\ auth_policers'[h].gagged
                           /\ \A t, u \in gag_timers'[h] : t = u
    PROVE  TriesInv'
<1>1. \A x \in Host : PolicerOK(x)'
  BY SamePolicer DEF TriesInv
<1>2. GagsTimed'
  BY DEF TriesInv, GagsTimed
<1>3. QED
  BY <1>1, <1>2 DEF TriesInv

\* auth: a password is compared only if its price fits into the bucket; past it the host is gagged.
LEMMA auth_command_Tries ==
    ASSUME TriesInv, ~freed_used, NEW h \in Host, auth_command(h)
    PROVE  TriesInv'
<1>1. PICK pol : pol = auth_policers[h]
  OBVIOUS
<1>2. PICK conforms : conforms = policer_conforms(pol, clock)
  OBVIOUS
<1> DEFINE First == /\ pol.st = "none" /\ Compared(h)
                    /\ auth_policers' = [auth_policers EXCEPT ![h] = policer_create] /\ UNCHANGED gag_timers
           Accepted == /\ pol.st = "live" /\ ~pol.gagged /\ conforms.ret /\ Compared(h)
                       /\ auth_policers' = [auth_policers EXCEPT ![h] = conforms.pol] /\ UNCHANGED gag_timers
           Gag == /\ pol.st = "live" /\ ~pol.gagged /\ ~conforms.ret
                  /\ auth_policers' = [auth_policers EXCEPT ![h] = [conforms.pol EXCEPT !.gagged = TRUE]]
                  /\ gag_timers' = [gag_timers EXCEPT ![h] = @ \cup {clock + GagTime}]
                  /\ UNCHANGED <<tries, since>>
           Ignored == /\ pol.gagged \/ pol.st = "freed"
                      /\ UNCHANGED <<auth_policers, gag_timers, tries, since>>
<1>3. /\ freed_used' = (freed_used \/ Freed # {}) /\ clock' = clock
      /\ First \/ Accepted \/ Gag \/ Ignored
  BY <1>1, <1>2 DEF auth_command, FreedUsed
<1> HIDE DEF First, Accepted, Gag, Ignored
<1>4. /\ PolicerOK(h) /\ clock \in Nat
      /\ gag_timers[h] # {} <=> pol.st = "live" /\ pol.gagged
      /\ \A t, u \in gag_timers[h] : t = u
      /\ BucketSize \in Nat /\ Weight \in Nat /\ Weight # 0 /\ BucketSize # 0 /\ GagTime \in Nat
  BY <1>1, AuthPolicerAssumption DEF TriesInv, GagsTimed
<1>5. /\ pol \in [st : {"none", "live", "freed"}, level : Nat, last_req : Nat, gagged : BOOLEAN]
      /\ tries[h] \in Nat /\ since[h] \in 0..clock /\ pol.last_req <= clock
      /\ gag_timers[h] \subseteq Nat
      /\ pol.st = "none" => pol = NoPolicer /\ tries[h] = 0
      /\ tries[h] * Weight < BucketSize + 2 * Weight + (clock - since[h])
      /\ pol.st = "live" /\ ~pol.gagged =>
          /\ pol.level < BucketSize + Weight /\ tries[h] # 0
          /\ pol.last_req >= since[h]
          /\ tries[h] * Weight <= pol.level + Weight + (pol.last_req - since[h])
  BY <1>1, <1>4 DEF PolicerOK
<1>6. /\ conforms.pol \in [st : {"none", "live", "freed"}, level : Nat, last_req : Nat, gagged : BOOLEAN]
      /\ conforms.pol.st = pol.st /\ conforms.pol.gagged = pol.gagged /\ conforms.pol.last_req = clock
      /\ conforms.ret <=> conforms.pol.level < BucketSize + Weight
      /\ conforms.pol.level <= pol.level + Weight
      /\ conforms.pol.level >= pol.level + Weight - (clock - pol.last_req)
  BY <1>2, <1>4, <1>5, Conforms
<1>7. CASE First
  <2>1. /\ tries' = [tries EXCEPT ![h] = @ + 1]
        /\ since' = [since EXCEPT ![h] = IF tries[h] = 0 THEN clock ELSE @]
        /\ auth_policers' = [auth_policers EXCEPT ![h] = policer_create] /\ UNCHANGED gag_timers
    BY <1>7 DEF First, Compared
  <2>2. /\ auth_policers'[h] \in [st : {"none", "live", "freed"}, level : Nat, last_req : Nat, gagged : BOOLEAN]
        /\ auth_policers'[h].st = "live" /\ auth_policers'[h].level = 0
        /\ auth_policers'[h].last_req = clock /\ ~auth_policers'[h].gagged
        /\ tries'[h] = 1 /\ since'[h] = clock /\ gag_timers'[h] = {}
    <3>1. auth_policers'[h] = policer_create
      BY <2>1 DEF TriesInv
    <3>2. /\ policer_create \in [st : {"none", "live", "freed"}, level : Nat, last_req : Nat, gagged : BOOLEAN]
          /\ policer_create.st = "live" /\ policer_create.level = 0
          /\ policer_create.last_req = clock /\ ~policer_create.gagged
      BY <1>4 DEF policer_create, NoPolicer
    <3>3. tries[h] = 0 /\ gag_timers[h] = {}
      BY <1>4, <1>5, <1>7 DEF First
    <3>4. QED
      BY <2>1, <3>1, <3>2, <3>3 DEF TriesInv
  <2>3. PolicerOK(h)'
    BY <1>3, <1>4, <2>2 DEF PolicerOK
  <2>4. \A x \in Host \ {h} : UNCHANGED <<auth_policers[x], gag_timers[x], tries[x], since[x]>>
    BY <2>1 DEF TriesInv
  <2>5. /\ DOMAIN auth_policers' = Host /\ DOMAIN tries' = Host /\ DOMAIN since' = Host /\ DOMAIN gag_timers' = Host
        /\ IsFunction(auth_policers') /\ IsFunction(tries') /\ IsFunction(since') /\ IsFunction(gag_timers')
    BY <2>1 DEF TriesInv, IsFunction
  <2>6. QED
    BY <1>3, <2>2, <2>3, <2>4, <2>5, OneHost
<1>8. CASE Accepted
  <2>1. /\ tries' = [tries EXCEPT ![h] = @ + 1]
        /\ since' = [since EXCEPT ![h] = IF tries[h] = 0 THEN clock ELSE @]
        /\ auth_policers' = [auth_policers EXCEPT ![h] = conforms.pol] /\ UNCHANGED gag_timers
    BY <1>8 DEF Accepted, Compared
  <2>2. /\ auth_policers'[h] = conforms.pol
        /\ tries'[h] = tries[h] + 1 /\ since'[h] = since[h] /\ gag_timers'[h] = gag_timers[h]
    BY <1>5, <1>8, <2>1 DEF Accepted, TriesInv
  <2>3. (tries[h] + 1) * Weight = tries[h] * Weight + Weight
    BY <1>4, <1>5
  <2>4. tries'[h] * Weight <= conforms.pol.level + Weight + (clock - since[h])
    <3>1. PICK tw \in Nat : tw = tries[h] * Weight
      BY <1>4, <1>5
    <3>2. tw <= pol.level + Weight + (pol.last_req - since[h])
      BY <1>5, <1>8, <3>1 DEF Accepted
    <3>3. tw + Weight <= conforms.pol.level + Weight + (clock - since[h])
      BY <1>4, <1>5, <1>6, <3>2
    <3>4. QED
      BY <2>2, <2>3, <3>1, <3>3
  <2>5. tries'[h] * Weight < BucketSize + 2 * Weight + (clock - since[h])
    <3>1. PICK tw : tw = tries'[h] * Weight
      OBVIOUS
    <3>2. tw \in Nat
      BY <1>4, <1>5, <2>2, <3>1
    <3>3. QED
      BY <1>4, <1>5, <1>6, <1>8, <2>4, <3>1, <3>2 DEF Accepted
  <2>6. PolicerOK(h)'
    BY <1>3, <1>4, <1>5, <1>6, <1>8, <2>2, <2>4, <2>5 DEF PolicerOK, Accepted
  <2>7. \A x \in Host \ {h} : UNCHANGED <<auth_policers[x], gag_timers[x], tries[x], since[x]>>
    BY <2>1 DEF TriesInv
  <2>8. /\ DOMAIN auth_policers' = Host /\ DOMAIN tries' = Host /\ DOMAIN since' = Host /\ DOMAIN gag_timers' = Host
        /\ IsFunction(auth_policers') /\ IsFunction(tries') /\ IsFunction(since') /\ IsFunction(gag_timers')
    BY <2>1 DEF TriesInv, IsFunction
  <2>9. gag_timers'[h] # {} <=> auth_policers'[h].st = "live" /\ auth_policers'[h].gagged
    BY <1>4, <1>6, <2>2
  <2>10. \A t, u \in gag_timers'[h] : t = u
    BY <1>4, <2>2
  <2>11. QED
    BY <1>3, <2>6, <2>7, <2>8, <2>9, <2>10, OneHost
<1>9. CASE Gag
  <2>1. /\ auth_policers' = [auth_policers EXCEPT ![h] = [conforms.pol EXCEPT !.gagged = TRUE]]
        /\ gag_timers' = [gag_timers EXCEPT ![h] = @ \cup {clock + GagTime}]
        /\ UNCHANGED <<tries, since>>
    BY <1>9 DEF Gag
  <2>2. /\ auth_policers'[h] = [conforms.pol EXCEPT !.gagged = TRUE]
        /\ tries'[h] = tries[h] /\ since'[h] = since[h] /\ gag_timers'[h] = {clock + GagTime}
    BY <1>4, <1>9, <2>1 DEF Gag, TriesInv
  <2>3. /\ auth_policers'[h] \in [st : {"none", "live", "freed"}, level : Nat, last_req : Nat, gagged : BOOLEAN]
        /\ auth_policers'[h].st = "live" /\ auth_policers'[h].gagged /\ auth_policers'[h].last_req = clock
        /\ auth_policers'[h].level < BucketSize + 2 * Weight
    <3>1. PICK new : new = [conforms.pol EXCEPT !.gagged = TRUE]
      OBVIOUS
    <3>2. /\ new \in [st : {"none", "live", "freed"}, level : Nat, last_req : Nat, gagged : BOOLEAN]
          /\ new.st = pol.st /\ new.gagged /\ new.last_req = clock /\ new.level = conforms.pol.level
      BY <1>6, <3>1
    <3>3. conforms.pol.level < BucketSize + 2 * Weight
      <4>1. pol.level < BucketSize + Weight /\ pol.level \in Nat /\ conforms.pol.level \in Nat
        BY <1>5, <1>6, <1>9 DEF Gag
      <4>2. QED
        BY <1>4, <1>6, <4>1
    <3>4. pol.st = "live" /\ auth_policers'[h] = new
      BY <1>9, <2>2, <3>1 DEF Gag
    <3>5. QED
      BY <3>2, <3>3, <3>4
  <2>4. PolicerOK(h)'
    BY <1>3, <1>4, <1>5, <2>2, <2>3 DEF PolicerOK
  <2>5. \A x \in Host \ {h} : UNCHANGED <<auth_policers[x], gag_timers[x], tries[x], since[x]>>
    BY <2>1 DEF TriesInv
  <2>6. /\ DOMAIN auth_policers' = Host /\ DOMAIN tries' = Host /\ DOMAIN since' = Host /\ DOMAIN gag_timers' = Host
        /\ IsFunction(auth_policers') /\ IsFunction(tries') /\ IsFunction(since') /\ IsFunction(gag_timers')
    BY <2>1 DEF TriesInv, IsFunction
  <2>7. QED
    BY <1>3, <2>2, <2>3, <2>4, <2>5, <2>6, OneHost
<1>10. CASE Ignored
  <2>1. UNCHANGED <<auth_policers, gag_timers, tries, since>>
    BY <1>10 DEF Ignored
  <2>2. \A x \in Host : PolicerOK(x)'
    BY <1>3, <1>4, <2>1, SamePolicer
  <2>3. QED
    BY <1>3, <2>1, <2>2 DEF TriesInv, GagsTimed
<1>11. QED
  BY <1>3, <1>7, <1>8, <1>9, <1>10

\* The timer of a gag frees the policer, and the host begins anew.
LEMMA auth_policer_timer_Tries ==
    ASSUME TriesInv, ~freed_used, NEW h \in Host, auth_policer_timer_func(h)
    PROVE  TriesInv'
<1>1. PICK t \in gag_timers[h] :
        /\ t <= clock /\ gag_timers' = [gag_timers EXCEPT ![h] = @ \ {t}]
        /\ freed_used' = (freed_used \/ auth_policers[h].st # "live")
        /\ auth_policers' = [auth_policers EXCEPT ![h].st = "freed"]
        /\ UNCHANGED <<clock, tries, since>>
  BY DEF auth_policer_timer_func, FreedUsed
<1>2. PolicerOK(h) /\ \A x, u \in gag_timers[h] : x = u
  BY DEF TriesInv, GagsTimed
<1>3. /\ gag_timers'[h] = {} /\ auth_policers'[h] = [auth_policers[h] EXCEPT !.st = "freed"]
  BY <1>1, <1>2 DEF TriesInv
<1>4. PolicerOK(h)'
  BY <1>1, <1>2, <1>3 DEF PolicerOK
<1>5. \A x \in Host \ {h} : UNCHANGED <<auth_policers[x], gag_timers[x], tries[x], since[x]>>
  BY <1>1 DEF TriesInv
<1>6. /\ DOMAIN auth_policers' = Host /\ DOMAIN tries' = Host /\ DOMAIN since' = Host /\ DOMAIN gag_timers' = Host
      /\ IsFunction(auth_policers') /\ IsFunction(tries') /\ IsFunction(since') /\ IsFunction(gag_timers')
  BY <1>1 DEF TriesInv, IsFunction
<1>7. auth_policers'[h].st = "freed"
  BY <1>2, <1>3 DEF PolicerOK
<1>8. freed_used' \in BOOLEAN /\ clock' = clock
  BY <1>1
<1>9. QED
  BY <1>3, <1>4, <1>5, <1>6, <1>7, <1>8, OneHost

\* Every step keeps the invariant.
LEMMA apNext_Tries ==
    ASSUME TriesInv, apNext
    PROVE  TriesInv'
<1>1. ~freed_used
  BY DEF apNext
<1>2. ASSUME NEW h \in Host, auth_command(h) PROVE TriesInv'
  BY <1>1, <1>2, auth_command_Tries
<1>3. ASSUME NEW h \in Host, auth_policer_timer_func(h) PROVE TriesInv'
  BY <1>1, <1>3, auth_policer_timer_Tries
<1>4. CASE account_reload
  <2>1. /\ auth_policers' = [h \in Host |-> NoPolicer] /\ gag_timers' = [h \in Host |-> {}]
        /\ tries' = [h \in Host |-> 0] /\ since' = [h \in Host |-> 0]
        /\ freed_used' \in BOOLEAN /\ clock' = clock /\ clock \in Nat
    BY <1>4 DEF account_reload, FreedUsed, TriesInv
  <2>2. \A h \in Host : PolicerOK(h)'
    BY <2>1, AuthPolicerAssumption DEF PolicerOK, NoPolicer
  <2>3. GagsTimed'
    BY <2>1 DEF GagsTimed, NoPolicer
  <2>4. QED
    BY <2>1, <2>2, <2>3 DEF TriesInv, IsFunction
<1>5. CASE clock_runs
  <2>1. /\ clock' \in Nat /\ clock' >= clock
        /\ UNCHANGED <<auth_policers, gag_timers, tries, since, freed_used>>
    BY <1>5, AuthPolicerAssumption DEF clock_runs, TriesInv
  <2>2. \A h \in Host : PolicerOK(h)'
    BY <2>1, SamePolicer
  <2>3. QED
    BY <2>1, <2>2 DEF TriesInv, GagsTimed
<1>6. QED
  BY <1>2, <1>3, <1>4, <1>5 DEF apNext

\* The invariant says what AuthPolicerSound says.
LEMMA TriesSound ==
    ASSUME TriesInv
    PROVE  AuthPolicerSound
<1>1. AuthPolicerTypeOK
  BY AuthPolicerAssumption DEF TriesInv, PolicerOK, AuthPolicerTypeOK
<1>2. TriesBound
  BY DEF TriesInv, PolicerOK, TriesBound
<1>3. QED
  BY <1>1, <1>2 DEF AuthPolicerSound, TriesInv

-----------------------------------------------------------------------------
(* Requests for a channel.                                                     *)

\* ChanServ is asked for somebody's request: request, not takeover.
Waits(a) == \E i \in DOMAIN a : ~a[i].takeover

\* One more question under way.
LEMMA AskedMore ==
    ASSUME NEW a \in Seq(Question), NEW q \in Question, NEW b, b = Append(a, q)
    PROVE  b \in Seq(Question) /\ (Waits(b) <=> Waits(a) \/ ~q.takeover)
<1>1. /\ b \in Seq(Question) /\ DOMAIN b = 1..(Len(a) + 1) /\ Len(a) \in Nat /\ DOMAIN a = 1..Len(a)
      /\ b[Len(a) + 1] = q /\ \A i \in 1..Len(a) : b[i] = a[i]
  OBVIOUS
<1>2. QED
  BY <1>1 DEF Waits

\* One question less.
LEMMA Answered ==
    ASSUME NEW a \in Seq(Question), a # <<>>, NEW b, b = Tail(a)
    PROVE  b \in Seq(Question) /\ Head(a) \in Question /\ (Head(a).takeover /\ Waits(a) => Waits(b))
<1>1. /\ b \in Seq(Question) /\ Head(a) \in Question /\ Head(a) = a[1] /\ Len(a) \in Nat /\ DOMAIN a = 1..Len(a)
      /\ DOMAIN b = 1..(Len(a) - 1) /\ \A i \in 1..(Len(a) - 1) : b[i] = a[i + 1]
  OBVIOUS
<1>2. ASSUME Head(a).takeover, NEW i \in DOMAIN a, ~a[i].takeover PROVE Waits(b)
  <2>1. i # 1 /\ i - 1 \in DOMAIN b /\ b[i - 1] = a[i]
    BY <1>1, <1>2
  <2>2. QED
    BY <1>2, <2>1 DEF Waits
<1>3. QED
  BY <1>1, <1>2 DEF Waits

\* RequestInv put flat.
LEMMA RequestFlat ==
    RequestInv <=>
      /\ access \in Seq(Question) /\ cleaners \in Nat /\ regs \in Nat /\ activeRequest \in BOOLEAN
      /\ cj_ref \in [st : {"joining", "in"}, nick : RNick] \cup {NoRef}
      /\ accountOf \in [RNick -> Person]
      /\ blockedChannel \in {"none", "record", "blocked"} /\ owners \subseteq RAccount
      /\ request_errors \subseteq RequestErrors
      /\ activeRequest /\ request_errors = {} => cj_ref # NoRef \/ Waits(access)
      /\ cj_ref # NoRef => activeRequest \/ cleaners > 0 \/ Waits(access)
      /\ request_errors = {} => regs = Cardinality(owners) /\ regs <= 1
<1>1. cj_ref \in [st : {"joining", "in"}, nick : RNick] \cup {NoRef} =>
         (cj_ref.st # "none" <=> cj_ref # NoRef) /\ cj_ref.st \in {"none", "joining", "in"}
  BY DEF NoRef
<1>2. QED
  BY <1>1 DEF RequestInv, ChanRequestSound, ChanRequestTypeOK, RequestsAnswered, RefLeaves, OneOwner, Waits

\* The same of the next state.
LEMMA RequestFlatNext ==
    RequestInv' <=>
      /\ access' \in Seq(Question) /\ cleaners' \in Nat /\ regs' \in Nat /\ activeRequest' \in BOOLEAN
      /\ cj_ref' \in [st : {"joining", "in"}, nick : RNick] \cup {NoRef}
      /\ accountOf' \in [RNick -> Person]
      /\ blockedChannel' \in {"none", "record", "blocked"} /\ owners' \subseteq RAccount
      /\ request_errors' \subseteq RequestErrors
      /\ activeRequest' /\ request_errors' = {} => cj_ref' # NoRef \/ Waits(access')
      /\ cj_ref' # NoRef => activeRequest' \/ cleaners' > 0 \/ Waits(access')
      /\ request_errors' = {} => regs' = Cardinality(owners') /\ regs' <= 1
<1>1. cj_ref' \in [st : {"joining", "in"}, nick : RNick] \cup {NoRef} =>
         (cj_ref'.st # "none" <=> cj_ref' # NoRef) /\ cj_ref'.st \in {"none", "joining", "in"}
  BY DEF NoRef
<1>2. QED
  BY <1>1 DEF RequestInv, ChanRequestSound, ChanRequestTypeOK, RequestsAnswered, RefLeaves, OneOwner, Waits

\* The struct chanreg that a request makes has one owner.
LEMMA registerChannel_Owner ==
    ASSUME RequestInv, request_errors = {}, NEW n \in RNick,
           registerChannelToNick(n) \/ UNCHANGED <<regs, owners, request_errors>>
    PROVE  /\ regs' \in Nat /\ owners' \subseteq RAccount /\ request_errors' \subseteq RequestErrors
           /\ request_errors' = {} => regs' = Cardinality(owners') /\ regs' <= 1
<1>1. CASE UNCHANGED <<regs, owners, request_errors>>
  BY <1>1, RequestFlat
<1>2. CASE registerChannelToNick(n) /\ HasAccount(n)
  <2>1. /\ regs' = regs + 1 /\ owners' = {accountOf[n]}
        /\ request_errors' = request_errors \cup (IF regs > 0 THEN {"double"} ELSE {})
    BY <1>2 DEF registerChannelToNick
  <2>2. accountOf[n] \in RAccount
    BY <1>2, RequestFlat DEF HasAccount, Person
  <2>3. Cardinality({accountOf[n]}) = 1
    BY FS_Singleton
  <2>4. QED
    BY <2>1, <2>2, <2>3, RequestFlat DEF RequestErrors
<1>3. CASE registerChannelToNick(n) /\ ~HasAccount(n)
  BY <1>3, RequestFlat DEF registerChannelToNick
<1>4. QED
  BY <1>1, <1>2, <1>3

\* In the first state nobody asks.
LEMMA crInit_Request == ASSUME crInit PROVE RequestInv
<1>1. Cardinality({}) = 0
  BY FS_EmptySet
<1>2. access = <<>> /\ <<>> \in Seq(Question)
  BY DEF crInit
<1>3. accountOf \in [RNick -> Person] /\ activeRequest \in BOOLEAN /\ ~activeRequest /\ cj_ref = NoRef /\ cleaners = 0
      /\ blockedChannel = "none" /\ regs = 0 /\ owners = {} /\ request_errors = {}
  BY DEF crInit
<1>4. access \in Seq(Question) /\ owners \subseteq RAccount /\ request_errors \subseteq RequestErrors
      /\ regs = Cardinality(owners) /\ regs <= 1 /\ regs \in Nat /\ cleaners \in Nat
  BY <1>1, <1>2, <1>3
<1>5. QED
  BY <1>3, <1>4, RequestFlat

\* A request, a takeover, and a person that logs in.
LEMMA request_Request ==
    ASSUME RequestInv, request_errors = {}, NEW n \in RNick, request(n) \/ takeover(n) \/ person(n)
    PROVE  RequestInv'
<1>1. CASE request(n)
  <2>1. /\ activeRequest' = TRUE
        /\ \/ cj_ref = NoRef /\ cj_ref' = [st |-> "joining", nick |-> n] /\ UNCHANGED request_errors
           \/ request_errors' = {"stuck"} /\ UNCHANGED cj_ref
        /\ UNCHANGED <<accountOf, access, cleaners, blockedChannel, regs, owners>>
    BY <1>1 DEF request
  <2>2. [st |-> "joining", nick |-> n] \in [st : {"joining", "in"}, nick : RNick]
        /\ [st |-> "joining", nick |-> n] # NoRef
    BY DEF NoRef
  <2>3. QED
    BY <2>1, <2>2, RequestFlat, RequestFlatNext DEF RequestErrors
<1>2. CASE takeover(n)
  <2>1. PICK q : q = [nick |-> n, takeover |-> TRUE]
    OBVIOUS
  <2>2. /\ access' = Append(access, q) /\ q \in Question
        /\ UNCHANGED <<accountOf, activeRequest, cj_ref, cleaners, blockedChannel, regs, owners, request_errors>>
    BY <1>2, <2>1 DEF takeover, chanserv_get_access_callback, Question
  <2>3. access' \in Seq(Question) /\ (Waits(access) => Waits(access'))
    BY <2>2, AskedMore, RequestFlat
  <2>4. QED
    BY <2>2, <2>3, RequestFlat, RequestFlatNext
<1>3. CASE person(n)
  BY <1>3, RequestFlat, RequestFlatNext DEF person
<1>4. QED
  BY <1>1, <1>2, <1>3

\* The channel is joined, and ChanServ is asked.
LEMMA chanjoin_success_Request ==
    ASSUME RequestInv, request_errors = {}, chanrequest_chanjoin_success
    PROVE  RequestInv'
<1>1. PICK n : n = cj_ref.nick
  OBVIOUS
<1>2. /\ cj_ref \in [st : {"joining", "in"}, nick : RNick] /\ n \in RNick
      /\ cj_ref' = [cj_ref EXCEPT !.st = "in"] /\ accountOf' = accountOf
  BY <1>1, RequestFlat DEF chanrequest_chanjoin_success, NoRef
<1>3. cj_ref' \in [st : {"joining", "in"}, nick : RNick]
  BY <1>2
<1>4. CASE /\ chanserv_get_access_callback(n, FALSE)
           /\ UNCHANGED <<activeRequest, cleaners, blockedChannel, regs, owners, request_errors>>
  <2>1. PICK q : q = [nick |-> n, takeover |-> FALSE]
    OBVIOUS
  <2>2. access' = Append(access, q) /\ q \in Question /\ ~q.takeover
    BY <1>2, <1>4, <2>1 DEF chanserv_get_access_callback, Question
  <2>3. access' \in Seq(Question) /\ Waits(access')
    BY <2>2, AskedMore, RequestFlat
  <2>4. QED
    BY <1>2, <1>3, <1>4, <2>3, RequestFlat, RequestFlatNext
<1>5. CASE /\ request_done /\ UNCHANGED access
           /\ blockedChannel' \in {"none", "record", "blocked"}
           /\ registerChannelToNick(n) \/ UNCHANGED <<regs, owners, request_errors>>
  <2>1. activeRequest' = FALSE /\ cleaners' \in Nat /\ cleaners' > 0
    BY <1>5, RequestFlat DEF request_done
  <2>2. /\ regs' \in Nat /\ owners' \subseteq RAccount /\ request_errors' \subseteq RequestErrors
        /\ request_errors' = {} => regs' = Cardinality(owners') /\ regs' <= 1
    BY <1>2, <1>5, registerChannel_Owner
  <2>3. QED
    BY <1>2, <1>3, <1>5, <2>1, <2>2, RequestFlat, RequestFlatNext
<1>6. blockedChannel \in {"none", "record", "blocked"}
  BY RequestFlat
<1>7. QED
  BY <1>1, <1>4, <1>5, <1>6 DEF chanrequest_chanjoin_success, setChannelBlock

\* ChanServ answers the first question.
LEMMA access_response_Request ==
    ASSUME RequestInv, request_errors = {}, chanserv_access_response
    PROVE  RequestInv'
<1>1. PICK req : req = Head(access)
  OBVIOUS
<1>2. PICK n : n = req.nick
  OBVIOUS
<1>3. /\ access' \in Seq(Question) /\ req \in Question /\ (req.takeover /\ Waits(access) => Waits(access'))
  BY <1>1, Answered, RequestFlat DEF chanserv_access_response
<1>4. /\ n \in RNick /\ UNCHANGED <<accountOf, cj_ref, blockedChannel>>
      /\ IF req.takeover THEN takeover_callback(n) ELSE registration_callback(n)
  BY <1>1, <1>2, <1>3 DEF chanserv_access_response, Question
<1>5. CASE req.takeover
  <2>1. /\ owners' \in {owners} \cup (IF regs > 0 /\ HasAccount(n) THEN {{accountOf[n]}} ELSE {})
        /\ UNCHANGED <<activeRequest, cleaners, regs, request_errors>>
    BY <1>4, <1>5 DEF takeover_callback
  <2>2. CASE owners' = owners
    BY <1>3, <1>4, <1>5, <2>1, <2>2, RequestFlat, RequestFlatNext
  <2>3. CASE owners' # owners
    <3>1. owners' = {accountOf[n]} /\ regs > 0 /\ accountOf[n] \in RAccount
      BY <1>4, <2>1, <2>3, RequestFlat DEF HasAccount, Person
    <3>2. Cardinality(owners') = 1 /\ regs = 1
      <4>1. Cardinality({accountOf[n]}) = 1
        BY FS_Singleton
      <4>2. regs = 1
        BY <1>1, <3>1, RequestFlat
      <4>3. QED
        BY <3>1, <4>1, <4>2
    <3>3. owners' \subseteq RAccount
      BY <3>1
    <3>4. QED
      BY <1>3, <1>4, <1>5, <2>1, <3>2, <3>3, RequestFlat, RequestFlatNext
  <2>4. QED
    BY <2>2, <2>3
<1>6. CASE ~req.takeover
  <2>1. /\ activeRequest' = FALSE /\ cleaners' \in Nat /\ cleaners' > 0
        /\ registerChannelToNick(n) \/ UNCHANGED <<regs, owners, request_errors>>
    BY <1>4, <1>6, RequestFlat DEF registration_callback, request_done
  <2>2. /\ regs' \in Nat /\ owners' \subseteq RAccount /\ request_errors' \subseteq RequestErrors
        /\ request_errors' = {} => regs' = Cardinality(owners') /\ regs' <= 1
    BY <1>4, <2>1, registerChannel_Owner
  <2>3. QED
    BY <1>3, <1>4, <2>1, <2>2, RequestFlat, RequestFlatNext
<1>7. QED
  BY <1>5, <1>6

\* Every step keeps the invariant.
LEMMA crNext_Request ==
    ASSUME RequestInv, crNext
    PROVE  RequestInv'
<1>1. request_errors = {}
  BY DEF crNext
<1>2. ASSUME NEW n \in RNick, request(n) \/ takeover(n) \/ person(n) PROVE RequestInv'
  BY <1>1, <1>2, request_Request
<1>3. CASE chanrequest_chanjoin_success
  BY <1>1, <1>3, chanjoin_success_Request
<1>4. CASE chanrequest_chanjoin_error
  BY <1>4, RequestFlat, RequestFlatNext DEF chanrequest_chanjoin_error, setChannelBlock
<1>5. CASE chanrequest_success_tmr
  <2>1. /\ cleaners' \in Nat /\ cj_ref' = NoRef /\ request_errors' = (IF activeRequest THEN {"stuck"} ELSE {})
        /\ UNCHANGED <<accountOf, activeRequest, access, blockedChannel, regs, owners>>
    BY <1>1, <1>5, RequestFlat DEF chanrequest_success_tmr
  <2>2. QED
    BY <1>1, <2>1, RequestFlat, RequestFlatNext DEF RequestErrors
<1>6. CASE chanrequest_cleanup_blockedChannel_tmr
  BY <1>6, RequestFlat, RequestFlatNext DEF chanrequest_cleanup_blockedChannel_tmr
<1>7. CASE chanserv_access_response
  BY <1>1, <1>7, access_response_Request
<1>8. CASE chanrequest_fini
  BY <1>1, <1>8, RequestFlat, RequestFlatNext DEF chanrequest_fini, RequestErrors
<1>9. CASE admin
  <2>1. \A a : Cardinality({a}) = 1
    BY FS_Singleton
  <2>2. Cardinality({}) = 0
    BY FS_EmptySet
  <2>3. /\ UNCHANGED <<accountOf, activeRequest, cj_ref, access, cleaners, blockedChannel, request_errors>>
        /\ \/ regs' = 1 /\ \E a \in RAccount : owners' = {a}
           \/ regs' = 0 /\ owners' = {}
    BY <1>9 DEF admin
  <2>4. regs' \in Nat /\ owners' \subseteq RAccount /\ regs' = Cardinality(owners') /\ regs' <= 1
    <3>1. CASE regs' = 0 /\ owners' = {}
      BY <2>2, <3>1
    <3>2. ASSUME NEW a \in RAccount, regs' = 1, owners' = {a}
          PROVE  regs' \in Nat /\ owners' \subseteq RAccount /\ regs' = Cardinality(owners') /\ regs' <= 1
      <4>1. Cardinality({a}) = 1
        BY <2>1
      <4>2. QED
        BY <3>2, <4>1
    <3>3. QED
      BY <2>3, <3>1, <3>2
  <2>5. QED
    BY <2>3, <2>4, RequestFlat, RequestFlatNext
<1>10. QED
  BY <1>2, <1>3, <1>4, <1>5, <1>6, <1>7, <1>8, <1>9 DEF crNext

-----------------------------------------------------------------------------
(* What is kept for a module.                                                  *)

\* The invariant says what ChanModulesSound says.
LEMMA ModulesSound ==
    ASSUME ModulesInv
    PROVE  ChanModulesSound
<1>1. ChanModulesTypeOK
  BY DEF ModulesInv, ModuleTypes, ChanModulesTypeOK, Struct
<1>2. ListsAgree
  BY DEF ModulesInv, RegOK, ListsAgree
<1>3. HostsRight
  BY DEF ModulesInv, RegOK, HostsRight, Live
<1>4. NothingInherited
  BY DEF ModulesInv, NothingInherited
<1>5. QED
  BY <1>1, <1>2, <1>3, <1>4 DEF ChanModulesSound

\* What is saved of every registration is meant.
LEMMA Written ==
    ASSUME ModulesInv, chan_errors = {}, NEW w, w = chanreg_module_writedb
    PROVE  /\ w \in [Reg -> Struct]
           /\ \A r \in Reg : /\ w[r].name = reg[r].name /\ w[r].modules = reg[r].modules
                             /\ w[r].active <=> reg[r].active
                             /\ w[r].fresh <=> reg[r].fresh
                             /\ r \notin channels => w[r] = reg[r]
                             /\ reg[r].name # NoChan => (meant[r] <=> w[r].db_data = "host")
                             /\ reg[r].name = NoChan => r \notin channels
<1>1. reg \in [Reg -> Struct] /\ \A r \in Reg : RegOK(r)
  BY DEF ModulesInv, ModuleTypes
<1>2. ASSUME NEW r \in Reg
      PROVE  /\ w[r] \in Struct
             /\ w[r].name = reg[r].name /\ w[r].modules = reg[r].modules
             /\ w[r].active <=> reg[r].active
             /\ w[r].fresh <=> reg[r].fresh
             /\ r \notin channels => w[r] = reg[r]
             /\ reg[r].name # NoChan => (meant[r] <=> w[r].db_data = "host")
             /\ reg[r].name = NoChan => r \notin channels
  <2>1. reg[r] \in Struct
    BY <1>1
  <2>2. reg[r].name = NoChan => r \notin channels
    BY <1>1 DEF ModulesInv, NamesOnce, RegOK, FreeReg
  <2>3. CASE r \notin channels
    <3>1. w[r] = reg[r]
      BY <2>3 DEF chanreg_module_writedb
    <3>2. reg[r].name # NoChan => (meant[r] <=> reg[r].db_data = "host")
      BY <1>1, <2>3 DEF RegOK
    <3>3. QED
      BY <2>1, <2>2, <3>1, <3>2
  <2>4. CASE r \in channels
    <3>1. PICK d : d = autoop_db_write(r)
      OBVIOUS
    <3>2. w[r] = [reg[r] EXCEPT !.db_data = d]
      BY <2>4, <3>1 DEF chanreg_module_writedb
    <3>3. d \in {"empty", "host"} /\ (d = "host" <=> reg[r].name \in aop_hosts)
      BY <3>1 DEF autoop_db_write
    <3>4. /\ w[r] \in Struct /\ w[r].db_data = d
          /\ w[r].name = reg[r].name /\ w[r].modules = reg[r].modules
          /\ w[r].active = reg[r].active /\ w[r].fresh = reg[r].fresh
      BY <2>1, <3>2, <3>3 DEF Struct
    <3>5. cmod.loaded
      BY <1>1, <2>4 DEF RegOK
    <3>6. reg[r].name # NoChan => (meant[r] <=> reg[r].name \in aop_hosts)
      BY <1>1, <3>5 DEF RegOK
    <3>7. QED
      BY <2>2, <2>4, <3>3, <3>4, <3>6
  <2>5. QED
    BY <2>3, <2>4
<1>3. DOMAIN w = Reg /\ IsFunction(w)
  BY DEF chanreg_module_writedb, IsFunction
<1>4. w \in [Reg -> Struct]
  BY <1>2, <1>3 DEF IsFunction
<1>5. QED
  BY <1>2, <1>4

\* What a file says of the module's data in a channel
SavedOf(file, c) == file[c].db_data

\* What is saved for a registration is read under its name.
LEMMA FileSays ==
    ASSUME NEW regs0 \in [Reg -> Struct],
           \A r, x \in Reg : regs0[r].name = regs0[x].name /\ regs0[r].name # NoChan => r = x
    PROVE  \A r \in Reg : regs0[r].name # NoChan => SavedOf(Saved(regs0), regs0[r].name) = regs0[r].db_data
<1>1. PICK file : file = Saved(regs0)
  OBVIOUS
<1>2. DOMAIN file = {regs0[r].name : r \in Reg} \ {NoChan}
  BY <1>1 DEF Saved
<1>3. ASSUME NEW r \in Reg, regs0[r].name # NoChan
      PROVE  SavedOf(file, regs0[r].name) = regs0[r].db_data
  <2>1. PICK c : c = regs0[r].name
    OBVIOUS
  <2>2. c \in DOMAIN file
    BY <1>2, <1>3, <2>1
  <2>3. (CHOOSE x \in Reg : regs0[x].name = c) = r
    BY <1>3, <2>1
  <2>4. file[c] = [modules |-> regs0[r].modules, db_data |-> regs0[r].db_data]
    BY <1>1, <2>2, <2>3 DEF Saved
  <2>5. QED
    BY <2>1, <2>4 DEF SavedOf
<1>4. QED
  BY <1>1, <1>3

\* The file has every registration, by its name.
LEMMA FileOf ==
    ASSUME NEW regs0 \in [Reg -> Struct],
           \A r, x \in Reg : regs0[r].name = regs0[x].name /\ regs0[r].name # NoChan => r = x,
           NEW file, file = Saved(regs0)
    PROVE  /\ DOMAIN file = {regs0[r].name : r \in Reg} \ {NoChan}
           /\ DOMAIN file \subseteq AopChan /\ IsFiniteSet(DOMAIN file)
           /\ \A c \in DOMAIN file : file[c] \in Saying
<1>1. DOMAIN file = {regs0[r].name : r \in Reg} \ {NoChan}
  BY DEF Saved
<1>2. IsFiniteSet(DOMAIN file)
  <2>1. IsFiniteSet(Reg)
    BY FS_Interval, ChanModulesAssumption DEF Reg
  <2>2. PICK names : names = {regs0[r].name : r \in Reg}
    OBVIOUS
  <2>3. IsFiniteSet(names)
    <3> DEFINE f == [r \in Reg |-> regs0[r].name]
    <3>1. f \in Surjection(Reg, names)
      BY <2>2 DEF Surjection
    <3>2. QED
      BY <2>1, <3>1, FS_Surjection
  <2>4. QED
    BY <1>1, <2>2, <2>3, FS_Subset
<1>3. ASSUME NEW r \in Reg, regs0[r].name # NoChan
      PROVE  /\ regs0[r].name \in DOMAIN file /\ regs0[r].name \in AopChan
             /\ file[regs0[r].name] = [modules |-> regs0[r].modules, db_data |-> regs0[r].db_data]
             /\ file[regs0[r].name] \in Saying
  <2>1. regs0[r].name \in DOMAIN file
    BY <1>1, <1>3
  <2>2. (CHOOSE x \in Reg : regs0[x].name = regs0[r].name) = r
    BY <1>3
  <2>3. file[regs0[r].name] = [modules |-> regs0[r].modules, db_data |-> regs0[r].db_data]
    BY <2>1, <2>2 DEF Saved
  <2>4. QED
    BY <1>3, <2>1, <2>3 DEF Struct, Saying
<1>4. \A c \in DOMAIN file : \E r \in Reg : c = regs0[r].name /\ c # NoChan
  BY <1>1
<1>5. ASSUME NEW r \in Reg, regs0[r].name # NoChan
      PROVE  regs0[r].name \in DOMAIN file /\ file[regs0[r].name].db_data = regs0[r].db_data
  <2>1. PICK c : c = regs0[r].name
    OBVIOUS
  <2>2. c \in DOMAIN file /\ file[c] = [modules |-> regs0[r].modules, db_data |-> regs0[r].db_data]
    BY <1>3, <1>5, <2>1
  <2>3. QED
    BY <2>1, <2>2
<1>6. ASSUME NEW c \in DOMAIN file
      PROVE  c \in AopChan /\ file[c] \in Saying
  <2>1. PICK r \in Reg : c = regs0[r].name /\ c # NoChan
    BY <1>4
  <2>2. QED
    BY <1>3, <2>1
<1>7. QED
  BY <1>1, <1>2, <1>6

\* The names of a file, one after the other.
LEMMA NamesInOrder ==
    ASSUME NEW S, IsFiniteSet(S), NEW names, names = SetToSeq(S)
    PROVE  /\ Len(names) = Cardinality(S) /\ Len(names) \in Nat
           /\ \A i \in 1..Len(names) : names[i] \in S
           /\ \A i, j \in 1..Len(names) : names[i] = names[j] => i = j
<1>1. Cardinality(S) \in Nat /\ ExistsBijection(1..Cardinality(S), S)
  BY FS_CardinalityType
<1>2. \E f \in [1..Cardinality(S) -> S] : IsInjective(f)
  BY <1>1 DEF ExistsBijection, Bijection, Injection
<1>3. names \in [1..Cardinality(S) -> S] /\ IsInjective(names)
  BY <1>2 DEF SetToSeq
<1>4. Len(names) = Cardinality(S)
  BY <1>1, <1>3
<1>5. QED
  BY <1>1, <1>3, <1>4 DEF IsInjective

\* A file that is read: one registration to a name, and the rest is free.
LEMMA RegsOf ==
    ASSUME NEW file, DOMAIN file \subseteq AopChan, IsFiniteSet(DOMAIN file), \A c \in DOMAIN file : file[c] \in Saying,
           NEW regs0, regs0 = chanreg_db_read_all(file)
    PROVE  /\ regs0 \in [Reg -> Struct]
           /\ \A r, x \in Reg : regs0[r].name = regs0[x].name /\ regs0[r].name # NoChan => r = x
           /\ \A r \in Reg : /\ ~regs0[r].active
                             /\ regs0[r].name = NoChan => regs0[r] = FreeReg
                             /\ regs0[r].name # NoChan => /\ regs0[r].name \in DOMAIN file
                                                         /\ regs0[r].db_data = SavedOf(file, regs0[r].name)
<1>1. PICK names : names = SetToSeq(DOMAIN file)
  OBVIOUS
<1>2. /\ Len(names) \in Nat /\ \A i \in 1..Len(names) : names[i] \in DOMAIN file
      /\ \A i, j \in 1..Len(names) : names[i] = names[j] => i = j
  BY <1>1, NamesInOrder
<1>3. regs0 = [r \in Reg |-> IF r > Len(names) THEN FreeReg
                             ELSE [FreeReg EXCEPT !.name = names[r], !.modules = file[names[r]].modules,
                                                  !.db_data = file[names[r]].db_data]]
  BY <1>1 DEF chanreg_db_read_all
<1>4. Reg \subseteq Nat \ {0} /\ NoChan \notin AopChan
  BY ChanModulesAssumption DEF Reg
<1>5. ASSUME NEW r \in Reg, r > Len(names)
      PROVE  regs0[r] = FreeReg /\ regs0[r] \in Struct /\ regs0[r].name = NoChan /\ ~regs0[r].active
  <2>1. regs0[r] = FreeReg
    BY <1>3, <1>5
  <2>2. FreeReg \in Struct /\ FreeReg.name = NoChan /\ ~FreeReg.active
    BY DEF FreeReg, Struct
  <2>3. QED
    BY <2>1, <2>2
<1>6. ASSUME NEW r \in Reg, ~(r > Len(names))
      PROVE  /\ r \in 1..Len(names) /\ regs0[r] \in Struct /\ regs0[r].name = names[r] /\ ~regs0[r].active
             /\ names[r] \in DOMAIN file /\ names[r] # NoChan /\ regs0[r].db_data = file[names[r]].db_data
  <2>1. r \in 1..Len(names)
    BY <1>2, <1>4, <1>6
  <2>2. PICK n \in DOMAIN file : n = names[r]
    BY <1>2, <2>1
  <2>3. file[n] \in Saying /\ n \in AopChan /\ n # NoChan
    BY <1>4
  <2>4. regs0[r] = [FreeReg EXCEPT !.name = n, !.modules = file[n].modules, !.db_data = file[n].db_data]
    BY <1>3, <1>6, <2>2
  <2>5. regs0[r] \in Struct /\ regs0[r].name = n /\ ~regs0[r].active /\ regs0[r].db_data = file[n].db_data
    BY <2>3, <2>4 DEF FreeReg, Struct, Saying
  <2>6. QED
    BY <2>1, <2>2, <2>3, <2>5
<1>7. regs0 \in [Reg -> Struct]
  BY <1>3, <1>5, <1>6
<1>8. QED
  BY <1>2, <1>5, <1>6, <1>7 DEF SavedOf

\* The module comes up, and what it holds is what was saved.
LEMMA Loads ==
    ASSUME reg' \in [Reg -> Struct],
           \A r, x \in Reg : reg'[r].name = reg'[x].name /\ reg'[r].name # NoChan => r = x,
           \A r \in Reg : reg'[r].name = NoChan => reg'[r] = FreeReg /\ ~meant'[r],
           \A r \in Reg : ~reg'[r].active, meant' \in [Reg -> BOOLEAN],
           \A r \in Reg : reg'[r].name # NoChan => (meant'[r] <=> reg'[r].db_data = "host"),
           autoop_loads(reg'), chan_errors' \subseteq ChanErrors,
           DOMAIN chanregs_file' \subseteq AopChan, IsFiniteSet(DOMAIN chanregs_file'),
           \A c \in DOMAIN chanregs_file' : chanregs_file'[c] \in Saying
    PROVE  ModulesInv'
<1>1. /\ cmod' \in [loaded : BOOLEAN, pending : BOOLEAN] /\ cmod'.loaded /\ cmod'.pending
      /\ channels' = {} /\ aop_hosts' = {reg'[r].name : r \in {x \in Reg : reg'[x].db_data = "host"}}
  BY DEF autoop_loads, chanreg_module_readdb
<1>2. ASSUME NEW r \in Reg, reg'[r].db_data = "host" PROVE reg'[r].name # NoChan /\ reg'[r].name \in AopChan
  <2>1. reg'[r].name # NoChan
    BY <1>2 DEF FreeReg
  <2>2. QED
    BY <2>1 DEF Struct
<1>3. aop_hosts' \subseteq AopChan
  BY <1>1, <1>2
<1>4. \A r \in Reg : reg'[r].name # NoChan => (reg'[r].name \in aop_hosts' <=> reg'[r].db_data = "host")
  BY <1>1
<1>5. ModuleTypes'
  BY <1>1, <1>3 DEF ModuleTypes
<1>6. NamesOnce'
  BY DEF NamesOnce
<1>7. \A r \in Reg : RegOK(r)'
  BY <1>1, <1>4 DEF RegOK
<1>8. NothingInherited'
  BY <1>1, <1>2 DEF NothingInherited, Live
<1>9. QED
  BY <1>1, <1>5, <1>6, <1>7, <1>8 DEF ModulesInv

\* In the first state nothing is registered.
LEMMA cmInit_Modules == ASSUME cmInit PROVE ModulesInv
<1>1. PICK free : free = [r \in Reg |-> FreeReg]
  OBVIOUS
<1>2. FreeReg \in Struct /\ FreeReg.name = NoChan
  BY DEF FreeReg, Struct
<1>3. /\ free \in [Reg -> Struct] /\ \A r \in Reg : free[r].name = NoChan
  BY <1>1, <1>2
<1>4. PICK file : file = Saved(free)
  OBVIOUS
<1>5. DOMAIN file = {free[r].name : r \in Reg} \ {NoChan}
  BY <1>3, <1>4, FileOf
<1>6. DOMAIN file = {}
  BY <1>3, <1>5
<1>7. /\ chanregs_file = file /\ reg = chanreg_db_read_all(file)
      /\ cmod = [loaded |-> TRUE, pending |-> TRUE] /\ channels = {} /\ aop_hosts = {}
      /\ chan_errors = {} /\ meant = [r \in Reg |-> FALSE]
  BY <1>1, <1>4 DEF cmInit
<1>8. IsFiniteSet(DOMAIN file)
  BY <1>6, FS_EmptySet
<1>9. PICK regs0 : regs0 = chanreg_db_read_all(file)
  OBVIOUS
<1>10. /\ regs0 \in [Reg -> Struct]
       /\ \A r \in Reg : /\ regs0[r].name = NoChan => regs0[r] = FreeReg
                         /\ regs0[r].name # NoChan => regs0[r].name \in DOMAIN file
  BY <1>6, <1>8, <1>9, RegsOf
<1>11. reg \in [Reg -> Struct] /\ \A r \in Reg : reg[r] = FreeReg /\ reg[r].name = NoChan
  BY <1>6, <1>7, <1>9, <1>10
<1>12. ModuleTypes
  BY <1>6, <1>7, <1>8, <1>11 DEF ModuleTypes
<1>13. \A r \in Reg : RegOK(r)
  BY <1>7, <1>11 DEF RegOK, FreeReg
<1>14. NamesOnce
  <2>1. \A r \in Reg : reg[r] = FreeReg /\ ~meant[r] /\ reg[r].name = NoChan
    BY <1>7, <1>11
  <2>2. QED
    BY <2>1 DEF NamesOnce
<1>15. NothingInherited
  BY <1>7 DEF NothingInherited
<1>16. QED
  BY <1>7, <1>12, <1>13, <1>14, <1>15 DEF ModulesInv

\* One registration changes: what was said of the others stays true.
LEMMA OneName ==
    ASSUME ModulesInv, NEW r \in Reg, NEW new \in Struct, NEW m \in BOOLEAN,
           reg' = [reg EXCEPT ![r] = new], meant' = [meant EXCEPT ![r] = m],
           cmod' = cmod, chanregs_file' = chanregs_file,
           channels' \subseteq Reg, aop_hosts' \subseteq AopChan, chan_errors' \subseteq ChanErrors,
           new.name # NoChan => \A x \in Reg \ {r} : reg[x].name # new.name,
           new.name = NoChan => new = FreeReg /\ ~m
    PROVE  /\ ModuleTypes' /\ NamesOnce'
           /\ reg'[r] = new /\ meant'[r] = m
           /\ \A x \in Reg \ {r} : reg'[x] = reg[x] /\ meant'[x] = meant[x]
<1>1. /\ reg \in [Reg -> Struct] /\ meant \in [Reg -> BOOLEAN]
      /\ cmod \in [loaded : BOOLEAN, pending : BOOLEAN] /\ (cmod.pending => cmod.loaded)
      /\ DOMAIN chanregs_file \subseteq AopChan /\ IsFiniteSet(DOMAIN chanregs_file)
      /\ \A c \in DOMAIN chanregs_file : chanregs_file[c] \in Saying
  BY DEF ModulesInv, ModuleTypes
<1>2. reg' \in [Reg -> Struct] /\ meant' \in [Reg -> BOOLEAN]
  BY <1>1
<1>3. ModuleTypes'
  BY <1>1, <1>2 DEF ModuleTypes
<1>4. /\ reg'[r] = new /\ meant'[r] = m
      /\ \A x \in Reg \ {r} : reg'[x] = reg[x] /\ meant'[x] = meant[x]
  BY <1>1
<1>5. /\ \A x, y \in Reg : reg[x].name = reg[y].name /\ reg[x].name # NoChan => x = y
      /\ \A x \in Reg : reg[x].name = NoChan => reg[x] = FreeReg /\ ~meant[x]
  BY DEF ModulesInv, NamesOnce
<1>6. \A x, y \in Reg : reg'[x].name = reg'[y].name /\ reg'[x].name # NoChan => x = y
  BY <1>4, <1>5
<1>7. \A x \in Reg : reg'[x].name = NoChan => reg'[x] = FreeReg /\ ~meant'[x]
  BY <1>4, <1>5
<1>8. NamesOnce'
  BY <1>6, <1>7 DEF NamesOnce
<1>9. QED
  BY <1>3, <1>4, <1>8

\* And the invariant is kept if it says of the one what it said, or if the behaviour ends in an error.
LEMMA OneReg ==
    ASSUME ModulesInv, chan_errors = {}, NEW r \in Reg, NEW new \in Struct, NEW m \in BOOLEAN,
           reg' = [reg EXCEPT ![r] = new], meant' = [meant EXCEPT ![r] = m],
           cmod' = cmod, chanregs_file' = chanregs_file,
           channels' \subseteq Reg, aop_hosts' \subseteq AopChan, chan_errors' \subseteq ChanErrors,
           new.name # NoChan => \A x \in Reg \ {r} : reg[x].name # new.name,
           new.name = NoChan => new = FreeReg /\ ~m,
           \A x \in Reg \ {r} : x \in channels' <=> x \in channels,
           chan_errors' = {} =>
              /\ \A c \in AopChan : c # reg[r].name /\ c # new.name => (c \in aop_hosts' <=> c \in aop_hosts)
              /\ reg[r].name # new.name => reg[r].name \notin aop_hosts'
              /\ new.active <=> r \in channels'
              /\ new.active => new.modules /\ cmod.loaded
              /\ new.modules /\ cmod.loaded /\ ~cmod.pending => new.active \/ new.fresh
              /\ new.name # NoChan =>
                    /\ m <=> IF cmod.loaded THEN new.name \in aop_hosts' ELSE new.db_data = "host"
                    /\ cmod.loaded /\ r \notin channels' => (new.name \in aop_hosts' <=> new.db_data = "host")
              /\ ~cmod.loaded => aop_hosts' = {}
    PROVE  ModulesInv'
<1>1. /\ ModuleTypes' /\ NamesOnce'
      /\ reg'[r] = new /\ meant'[r] = m
      /\ \A x \in Reg \ {r} : reg'[x] = reg[x] /\ meant'[x] = meant[x]
  BY OneName
<1>2. CASE chan_errors' # {}
  BY <1>1, <1>2 DEF ModulesInv
<1>3. CASE chan_errors' = {}
  <2>1. \A x \in Reg : RegOK(x)
    BY DEF ModulesInv
  <2>2. RegOK(r)'
    BY <1>1, <1>3 DEF RegOK
  <2>3. ASSUME NEW x \in Reg \ {r} PROVE RegOK(x)'
    <3>1. reg'[x] = reg[x] /\ meant'[x] = meant[x] /\ (x \in channels' <=> x \in channels)
      BY <1>1
    <3>2. reg[x].name # NoChan => (reg[x].name \in aop_hosts' <=> reg[x].name \in aop_hosts)
      <4>1. SUFFICES ASSUME reg[x].name # NoChan PROVE reg[x].name \in aop_hosts' <=> reg[x].name \in aop_hosts
        OBVIOUS
      <4>2. reg[x] \in Struct
        BY DEF ModulesInv, ModuleTypes
      <4>3. reg[x].name \in AopChan
        BY <4>1, <4>2 DEF Struct
      <4>4. reg[x].name # reg[r].name
        BY <4>1 DEF ModulesInv, NamesOnce
      <4>5. reg[x].name # new.name
        BY <4>1
      <4>6. QED
        BY <1>3, <4>3, <4>4, <4>5
    <3>3. RegOK(x)
      BY <2>1
    <3>4. QED
      BY <3>1, <3>2, <3>3 DEF RegOK
  <2>4. NothingInherited'
    <3>1. SUFFICES ASSUME NEW c \in aop_hosts' PROVE \E x \in Reg : reg'[x].name = c /\ reg'[x].name # NoChan
      BY DEF NothingInherited, Live
    <3>2. c \in AopChan /\ c # NoChan
      BY ChanModulesAssumption
    <3>3. CASE c = new.name
      BY <1>1, <3>2, <3>3
    <3>4. CASE c # new.name
      <4>1. c # reg[r].name
        BY <1>3, <3>4
      <4>2. c \in aop_hosts
        BY <1>3, <3>2, <3>4, <4>1
      <4>3. PICK x \in Reg : reg[x].name = c
        BY <4>2 DEF ModulesInv, NothingInherited, Live
      <4>4. x # r
        BY <4>1, <4>3
      <4>5. QED
        BY <1>1, <3>2, <4>3, <4>4
    <3>5. QED
      BY <3>3, <3>4
  <2>5. ~cmod'.loaded => aop_hosts' = {}
    BY <1>3
  <2>6. QED
    BY <1>1, <2>2, <2>3, <2>4, <2>5 DEF ModulesInv
<1>4. QED
  BY <1>2, <1>3

\* cregister: a new registration holds no data, and none is kept under its name.
LEMMA chanreg_add_Modules ==
    ASSUME ModulesInv, chan_errors = {}, NEW r \in Reg, NEW c \in AopChan, chanreg_add(r, c)
    PROVE  ModulesInv'
<1>1. PICK default \in BOOLEAN :
         reg' = [reg EXCEPT ![r] = [FreeReg EXCEPT !.name = c, !.modules = default,
                                                   !.fresh = default /\ cmod.loaded /\ ~cmod.pending]]
  BY DEF chanreg_add
<1>2. /\ reg[r].name = NoChan /\ \A x \in Reg : reg[x].name # c
      /\ UNCHANGED <<cmod, channels, aop_hosts, chanregs_file, chan_errors, meant>>
  BY DEF chanreg_add, Live, Registered
<1>3. PICK fresh : fresh = (default /\ cmod.loaded /\ ~cmod.pending)
  OBVIOUS
<1>4. /\ cmod \in [loaded : BOOLEAN, pending : BOOLEAN] /\ fresh \in BOOLEAN
      /\ channels \subseteq Reg /\ aop_hosts \subseteq AopChan /\ chan_errors \subseteq ChanErrors
      /\ meant \in [Reg -> BOOLEAN]
  BY <1>3 DEF ModulesInv, ModuleTypes
<1>5. PICK new : new = [FreeReg EXCEPT !.name = c, !.modules = default, !.fresh = fresh]
  OBVIOUS
<1>6. /\ new \in Struct /\ new.name = c /\ new.modules = default /\ new.fresh = fresh
      /\ ~new.active /\ new.db_data = "none"
  BY <1>4, <1>5 DEF Struct, FreeReg
<1>7. reg' = [reg EXCEPT ![r] = new] /\ meant' = [meant EXCEPT ![r] = FALSE]
  <2>1. ~meant[r]
    BY <1>2 DEF ModulesInv, NamesOnce
  <2>2. meant = [meant EXCEPT ![r] = FALSE]
    BY <1>4, <2>1
  <2>3. QED
    BY <1>1, <1>2, <1>3, <1>5, <2>2
<1>8. c # NoChan /\ c \notin aop_hosts
  BY <1>2, ChanModulesAssumption DEF ModulesInv, NothingInherited, Live
<1>9. r \notin channels
  BY <1>2 DEF ModulesInv, RegOK, NamesOnce, FreeReg
<1>10. ~cmod.loaded => aop_hosts = {}
  BY DEF ModulesInv
<1>11. NoChan \notin aop_hosts
  BY <1>4, ChanModulesAssumption
<1>12. QED
  BY <1>2, <1>3, <1>4, <1>6, <1>7, <1>8, <1>9, <1>10, <1>11, OneReg

\* cunregister: with data saved the module is told.
LEMMA cmod_cunregister_Modules ==
    ASSUME ModulesInv, chan_errors = {}, NEW r \in Reg, cmod_cunregister(r)
    PROVE  ModulesInv'
<1>1. PICK disables \in BOOLEAN : disables = (cmod.loaded /\ reg[r].db_data # "none")
  OBVIOUS
<1>2. /\ reg[r].name # NoChan
      /\ reg' = [reg EXCEPT ![r] = FreeReg] /\ meant' = [meant EXCEPT ![r] = FALSE]
      /\ IF disables THEN aop_hosts' = aop_hosts \ {reg[r].name} /\ channels' = channels \ {r}
                     ELSE UNCHANGED <<aop_hosts, channels>>
      /\ chan_errors' = chan_errors \cup (IF ~disables /\ r \in channels THEN {"dangling"} ELSE {})
      /\ UNCHANGED <<cmod, chanregs_file>>
  BY <1>1 DEF cmod_cunregister, Live, ChanError, autoop_disabled
<1>3. /\ channels \subseteq Reg /\ aop_hosts \subseteq AopChan
      /\ FreeReg \in Struct /\ FreeReg.name = NoChan /\ ~FreeReg.active /\ ~FreeReg.modules
  BY DEF ModulesInv, ModuleTypes, FreeReg, Struct
<1>4. chan_errors' \subseteq ChanErrors /\ channels' \subseteq Reg /\ aop_hosts' \subseteq AopChan
  BY <1>1, <1>2, <1>3 DEF ChanErrors
<1>5. ASSUME chan_errors' = {} PROVE r \notin channels' /\ reg[r].name \notin aop_hosts'
  <2>1. disables \/ r \notin channels
    BY <1>2, <1>5
  <2>2. CASE disables
    BY <1>2, <2>2
  <2>3. CASE ~disables
    <3>1. r \notin channels /\ channels' = channels /\ aop_hosts' = aop_hosts
      BY <1>2, <2>1, <2>3
    <3>2. CASE ~cmod.loaded
      BY <3>1, <3>2 DEF ModulesInv
    <3>3. CASE cmod.loaded
      BY <1>1, <1>2, <2>3, <3>1, <3>3 DEF ModulesInv, RegOK
    <3>4. QED
      BY <3>1, <3>2, <3>3
  <2>4. QED
    BY <2>2, <2>3
<1>6. ~cmod.loaded => aop_hosts' = {}
  BY <1>2 DEF ModulesInv
<1>7. \A c : c # reg[r].name => (c \in aop_hosts' <=> c \in aop_hosts)
  BY <1>2
<1>8. \A x \in Reg \ {r} : x \in channels' <=> x \in channels
  BY <1>2
<1>9. QED
  BY <1>2, <1>3, <1>4, <1>5, <1>6, <1>7, <1>8, OneReg

\* cmod enable, after the timer: what was kept for the channel is served again.
LEMMA cmod_enable_Modules ==
    ASSUME ModulesInv, chan_errors = {}, NEW r \in Reg, cmod_enable(r)
    PROVE  ModulesInv'
<1>1. PICK new : new = [reg[r] EXCEPT !.modules = TRUE, !.active = TRUE]
  OBVIOUS
<1>2. /\ reg[r].name # NoChan /\ cmod.loaded /\ ~reg[r].modules
      /\ reg' = [reg EXCEPT ![r] = new] /\ channels' = channels \cup {r}
      /\ chan_errors' = chan_errors \cup (IF cmod.pending THEN {"twice"} ELSE {})
      /\ UNCHANGED <<cmod, aop_hosts, chanregs_file, meant>>
  BY <1>1 DEF cmod_enable, chanreg_module_enable, Live, ChanError
<1>3. /\ reg[r] \in Struct /\ channels \subseteq Reg /\ aop_hosts \subseteq AopChan /\ meant \in [Reg -> BOOLEAN]
  BY DEF ModulesInv, ModuleTypes
<1>4. /\ new \in Struct /\ new.name = reg[r].name /\ new.active /\ new.modules /\ new.db_data = reg[r].db_data
  BY <1>1, <1>3 DEF Struct
<1>5. meant' = [meant EXCEPT ![r] = meant[r]] /\ meant[r] \in BOOLEAN
  BY <1>2, <1>3
<1>6. chan_errors' \subseteq ChanErrors /\ channels' \subseteq Reg /\ r \in channels'
  BY <1>2, <1>3 DEF ChanErrors
<1>7. meant[r] <=> reg[r].name \in aop_hosts
  BY <1>2 DEF ModulesInv, RegOK
<1>8. \A x \in Reg \ {r} : reg[x].name # new.name
  BY <1>2, <1>4 DEF ModulesInv, NamesOnce
<1>9. QED
  BY <1>2, <1>3, <1>4, <1>5, <1>6, <1>7, <1>8, OneReg

\* cmod disable: what is kept is saved at once.
LEMMA chanreg_module_disable_Modules ==
    ASSUME ModulesInv, chan_errors = {}, NEW r \in Reg, NEW purge \in BOOLEAN, chanreg_module_disable(r, purge)
    PROVE  ModulesInv'
<1>1. PICK d : d = IF purge THEN "none" ELSE autoop_db_write(r)
  OBVIOUS
<1>2. PICK new : new = [reg[r] EXCEPT !.modules = FALSE, !.active = FALSE, !.db_data = d]
  OBVIOUS
<1>3. /\ reg[r].name # NoChan /\ cmod.loaded /\ reg[r].modules /\ channels' = channels \ {r}
      /\ reg' = [reg EXCEPT ![r] = new]
      /\ aop_hosts' = IF purge THEN aop_hosts \ {reg[r].name} ELSE aop_hosts
      /\ meant' = [meant EXCEPT ![r] = meant[r] /\ ~purge]
      /\ UNCHANGED <<cmod, chanregs_file, chan_errors>>
  BY <1>1, <1>2 DEF chanreg_module_disable, Purged, autoop_disabled, Live
<1>4. /\ reg[r] \in Struct /\ channels \subseteq Reg /\ aop_hosts \subseteq AopChan /\ meant \in [Reg -> BOOLEAN]
  BY DEF ModulesInv, ModuleTypes
<1>5. /\ d \in {"none", "empty", "host"} /\ (d = "host" <=> ~purge /\ reg[r].name \in aop_hosts)
  BY <1>1 DEF autoop_db_write
<1>6. /\ new \in Struct /\ new.name = reg[r].name /\ ~new.active /\ ~new.modules /\ new.db_data = d
  BY <1>2, <1>4, <1>5 DEF Struct
<1>7. PICK m \in BOOLEAN : m = (meant[r] /\ ~purge)
  BY <1>4
<1>8. meant' = [meant EXCEPT ![r] = m]
  BY <1>3, <1>7
<1>9. meant[r] <=> reg[r].name \in aop_hosts
  BY <1>3 DEF ModulesInv, RegOK
<1>10. \A x \in Reg \ {r} : reg[x].name # new.name
  BY <1>3, <1>6 DEF ModulesInv, NamesOnce
<1>11. /\ reg[r].name \in aop_hosts' <=> ~purge /\ reg[r].name \in aop_hosts
       /\ \A c : c # reg[r].name => (c \in aop_hosts' <=> c \in aop_hosts)
       /\ aop_hosts' \subseteq AopChan /\ channels' \subseteq Reg /\ r \notin channels'
       /\ \A x \in Reg \ {r} : x \in channels' <=> x \in channels
  BY <1>3, <1>4
<1>12. chan_errors' \subseteq ChanErrors
  BY <1>3
<1>13. QED
  BY <1>3, <1>5, <1>6, <1>7, <1>8, <1>9, <1>10, <1>11, <1>12, OneReg

\* cmod move: the module is told where it is active, and holds nothing where it is not.
LEMMA cmod_move_Modules ==
    ASSUME ModulesInv, chan_errors = {}, NEW r \in Reg, NEW c \in AopChan, cmod_move(r, c)
    PROVE  ModulesInv'
<1>1. PICK new : new = [reg[r] EXCEPT !.name = c]
  OBVIOUS
<1>2. reg[r] \in Struct /\ channels \subseteq Reg /\ aop_hosts \subseteq AopChan /\ meant \in [Reg -> BOOLEAN]
      /\ DOMAIN reg = Reg
  BY DEF ModulesInv, ModuleTypes
<1>3. PICK old : old = reg[r].name
  OBVIOUS
<1>4. /\ old # NoChan /\ \A x \in Reg : reg[x].name # c
      /\ reg' = [reg EXCEPT ![r] = new]
      /\ aop_hosts' = IF reg[r].active /\ old \in aop_hosts THEN (aop_hosts \ {old}) \cup {c} ELSE aop_hosts
      /\ chan_errors' = chan_errors \cup (IF ~reg[r].active /\ old \in aop_hosts THEN {"orphan"} ELSE {})
      /\ UNCHANGED <<cmod, channels, chanregs_file, meant>>
  BY <1>1, <1>2, <1>3 DEF cmod_move, Live, Registered, autoop_moved, ChanError
<1>5. /\ new \in Struct /\ new.name = c /\ (new.active <=> reg[r].active) /\ (new.modules <=> reg[r].modules)
      /\ (new.fresh <=> reg[r].fresh) /\ new.db_data = reg[r].db_data
  BY <1>1, <1>2 DEF Struct
<1>6. meant' = [meant EXCEPT ![r] = meant[r]] /\ meant[r] \in BOOLEAN
  BY <1>2, <1>4
<1>7. c # NoChan /\ c # old /\ c \notin aop_hosts
  BY <1>3, <1>4, ChanModulesAssumption DEF ModulesInv, NothingInherited, Live
<1>8. RegOK(r) /\ (~cmod.loaded => aop_hosts = {})
  BY DEF ModulesInv
<1>9. chan_errors' \subseteq ChanErrors /\ aop_hosts' \subseteq AopChan /\ channels' \subseteq Reg
  BY <1>2, <1>4 DEF ChanErrors
<1>10. ASSUME chan_errors' = {}
       PROVE  /\ old \in aop_hosts => reg[r].active
              /\ c \in aop_hosts' <=> old \in aop_hosts
              /\ old \notin aop_hosts'
              /\ \A x : x # old /\ x # c => (x \in aop_hosts' <=> x \in aop_hosts)
  <2>1. old \in aop_hosts => reg[r].active
    BY <1>4, <1>10
  <2>2. QED
    BY <1>4, <1>7, <2>1
<1>11. ASSUME chan_errors' = {}
       PROVE  /\ new.active <=> r \in channels'
              /\ new.active => new.modules /\ cmod.loaded
              /\ new.modules /\ cmod.loaded /\ ~cmod.pending => new.active \/ new.fresh
              /\ meant[r] <=> IF cmod.loaded THEN new.name \in aop_hosts' ELSE new.db_data = "host"
              /\ cmod.loaded /\ r \notin channels' => (new.name \in aop_hosts' <=> new.db_data = "host")
              /\ ~cmod.loaded => aop_hosts' = {}
  BY <1>3, <1>4, <1>5, <1>8, <1>10, <1>11 DEF RegOK
<1>12. QED
  BY <1>3, <1>4, <1>5, <1>6, <1>7, <1>9, <1>10, <1>11, OneReg

\* aop add and aop del, where the module is active
LEMMA AopCommand_Modules ==
    ASSUME ModulesInv, chan_errors = {}, NEW r \in Reg, aop_add(r) \/ aop_del(r)
    PROVE  ModulesInv'
<1>1. /\ reg[r].name # NoChan /\ cmod.loaded /\ reg[r].active
      /\ UNCHANGED <<reg, cmod, channels, chanregs_file, chan_errors>>
  BY DEF aop_add, aop_del, AopCommand, Live
<1>2. /\ reg[r] \in Struct /\ reg \in [Reg -> Struct] /\ channels \subseteq Reg /\ aop_hosts \subseteq AopChan
  BY DEF ModulesInv, ModuleTypes
<1>3. PICK m \in BOOLEAN : /\ meant' = [meant EXCEPT ![r] = m]
                           /\ aop_hosts' = IF m THEN aop_hosts \cup {reg[r].name} ELSE aop_hosts \ {reg[r].name}
  <2>1. CASE aop_add(r)
    BY <2>1 DEF aop_add
  <2>2. CASE aop_del(r)
    BY <2>2 DEF aop_del
  <2>3. QED
    BY <2>1, <2>2
<1>4. reg' = [reg EXCEPT ![r] = reg[r]]
  BY <1>1, <1>2
<1>5. reg[r].name \in AopChan
  BY <1>1, <1>2 DEF Struct
<1>6. /\ aop_hosts' \subseteq AopChan /\ (m <=> reg[r].name \in aop_hosts')
      /\ \A c : c # reg[r].name => (c \in aop_hosts' <=> c \in aop_hosts)
  BY <1>2, <1>3, <1>5
<1>7. RegOK(r) /\ \A x \in Reg \ {r} : reg[x].name # reg[r].name
  BY <1>1 DEF ModulesInv, NamesOnce
<1>8. r \in channels'
  BY <1>1, <1>7 DEF RegOK
<1>9. chan_errors' \subseteq ChanErrors /\ channels' \subseteq Reg
  BY <1>1, <1>2
<1>10. QED
  BY <1>1, <1>2, <1>3, <1>4, <1>6, <1>7, <1>8, <1>9, OneReg DEF RegOK

\* A free registration says nothing already.
LEMMA Blank ==
    /\ [FreeReg EXCEPT !.active = FALSE] = FreeReg /\ [FreeReg EXCEPT !.fresh = FALSE] = FreeReg
    /\ FreeReg.active = FALSE /\ FreeReg.modules = FALSE
<1>1. FreeReg.active = FALSE /\ FreeReg.modules = FALSE /\ FreeReg.fresh = FALSE
  BY DEF FreeReg
<1>2. ASSUME NEW f, FreeReg.active = f PROVE [FreeReg EXCEPT !.active = f] = FreeReg
  BY <1>2 DEF FreeReg
<1>3. ASSUME NEW f, FreeReg.fresh = f PROVE [FreeReg EXCEPT !.fresh = f] = FreeReg
  BY <1>3 DEF FreeReg
<1>4. QED
  BY <1>1, <1>2, <1>3

\* A whole list: what differs only in what is saved, in what is active and in how it began has the same names.
LEMMA SameNames ==
    ASSUME ModulesInv, reg' \in [Reg -> Struct], meant' = meant,
           \A r \in Reg : reg'[r].name = reg[r].name /\ (reg[r].name = NoChan => reg'[r] = FreeReg)
    PROVE  NamesOnce'
<1>1. /\ \A x, y \in Reg : reg[x].name = reg[y].name /\ reg[x].name # NoChan => x = y
      /\ \A x \in Reg : reg[x].name = NoChan => reg[x] = FreeReg /\ ~meant[x]
  BY DEF ModulesInv, NamesOnce
<1>2. \A x, y \in Reg : reg'[x].name = reg'[y].name /\ reg'[x].name # NoChan => x = y
  BY <1>1
<1>3. \A x \in Reg : reg'[x].name = NoChan => reg'[x] = FreeReg /\ ~meant'[x]
  BY <1>1
<1>4. QED
  BY <1>2, <1>3 DEF NamesOnce

\* The write interval
LEMMA chanreg_db_write_Modules ==
    ASSUME ModulesInv, chan_errors = {}, chanreg_db_write
    PROVE  ModulesInv'
<1>1. PICK w : w = chanreg_module_writedb
  OBVIOUS
<1>2. /\ w \in [Reg -> Struct]
      /\ \A r \in Reg : /\ w[r].name = reg[r].name /\ w[r].modules = reg[r].modules
                        /\ w[r].active <=> reg[r].active
                        /\ w[r].fresh <=> reg[r].fresh
                        /\ r \notin channels => w[r] = reg[r]
                        /\ reg[r].name # NoChan => (meant[r] <=> w[r].db_data = "host")
                        /\ reg[r].name = NoChan => r \notin channels
  BY <1>1, Written
<1>3. PICK file : file = Saved(w)
  OBVIOUS
<1>4. /\ reg' = w /\ chanregs_file' = file
      /\ UNCHANGED <<cmod, channels, aop_hosts, chan_errors, meant>>
  BY <1>1, <1>3 DEF chanreg_db_write
<1>5. \A r, x \in Reg : w[r].name = w[x].name /\ w[r].name # NoChan => r = x
  BY <1>2 DEF ModulesInv, NamesOnce
<1>6. /\ DOMAIN file \subseteq AopChan /\ IsFiniteSet(DOMAIN file) /\ \A c \in DOMAIN file : file[c] \in Saying
  BY <1>2, <1>3, <1>5, FileOf
<1>7. ModuleTypes'
  <2>1. ModuleTypes
    BY DEF ModulesInv
  <2>2. QED
    BY <1>2, <1>4, <1>6, <2>1 DEF ModuleTypes
<1>8. NamesOnce'
  <2>1. \A r \in Reg : reg'[r].name = reg[r].name /\ (reg[r].name = NoChan => reg'[r] = FreeReg)
    BY <1>2, <1>4 DEF ModulesInv, NamesOnce
  <2>2. QED
    BY <1>2, <1>4, <2>1, SameNames
<1>9. ASSUME NEW r \in Reg PROVE RegOK(r)'
  <2>1. RegOK(r)
    BY DEF ModulesInv
  <2>2. /\ w[r].name = reg[r].name /\ w[r].modules = reg[r].modules
        /\ w[r].active <=> reg[r].active
        /\ w[r].fresh <=> reg[r].fresh
        /\ r \notin channels => w[r] = reg[r]
        /\ reg[r].name # NoChan => (meant[r] <=> w[r].db_data = "host")
    BY <1>2
  <2>3. ~cmod.loaded => r \notin channels
    BY <2>1 DEF RegOK
  <2>4. QED
    BY <1>4, <2>1, <2>2, <2>3 DEF RegOK
<1>10. NothingInherited'
  BY <1>2, <1>4 DEF ModulesInv, NothingInherited, Live
<1>11. QED
  BY <1>4, <1>7, <1>8, <1>9, <1>10 DEF ModulesInv

\* An orderly restart: what is meant is written, by the name, and read again.
LEMMA bot_quits_Modules ==
    ASSUME ModulesInv, chan_errors = {}, bot_quits
    PROVE  ModulesInv'
<1>1. PICK w : w = chanreg_module_writedb
  OBVIOUS
<1>2. /\ w \in [Reg -> Struct]
      /\ \A r \in Reg : /\ w[r].name = reg[r].name
                        /\ reg[r].name # NoChan => (meant[r] <=> w[r].db_data = "host")
  BY <1>1, Written
<1>3. PICK file : file = Saved(w)
  OBVIOUS
<1>4. \A r, x \in Reg : w[r].name = w[x].name /\ w[r].name # NoChan => r = x
  BY <1>2 DEF ModulesInv, NamesOnce
<1>5. /\ DOMAIN file = {w[r].name : r \in Reg} \ {NoChan}
      /\ DOMAIN file \subseteq AopChan /\ IsFiniteSet(DOMAIN file) /\ \A c \in DOMAIN file : file[c] \in Saying
      /\ \A r \in Reg : w[r].name # NoChan => SavedOf(file, w[r].name) = w[r].db_data
  <2>1. w \in [Reg -> Struct]
    BY <1>2
  <2>2. DOMAIN file = {w[r].name : r \in Reg} \ {NoChan}
    BY <1>3, <1>4, <2>1, FileOf
  <2>3. /\ DOMAIN file \subseteq AopChan /\ IsFiniteSet(DOMAIN file) /\ \A c \in DOMAIN file : file[c] \in Saying
    BY <1>3, <1>4, <2>1, FileOf
  <2>4. \A r \in Reg : w[r].name # NoChan => SavedOf(file, w[r].name) = w[r].db_data
    BY <1>3, <1>4, <2>1, FileSays
  <2>5. QED
    BY <2>2, <2>3, <2>4
<1>6. PICK new : new = chanreg_db_read_all(file)
  OBVIOUS
<1>7. /\ new \in [Reg -> Struct]
      /\ \A r, x \in Reg : new[r].name = new[x].name /\ new[r].name # NoChan => r = x
      /\ \A r \in Reg : /\ ~new[r].active
                        /\ new[r].name = NoChan => new[r] = FreeReg
                        /\ new[r].name # NoChan => /\ new[r].name \in DOMAIN file
                                                   /\ new[r].db_data = SavedOf(file, new[r].name)
  BY <1>5, <1>6, RegsOf
<1>8. /\ reg' = new /\ chanregs_file' = file /\ autoop_loads(reg') /\ chan_errors' = chan_errors
      /\ meant' = [r \in Reg |-> \E x \in Live : reg[x].name = new[r].name /\ meant[x]]
  BY <1>1, <1>3, <1>6 DEF bot_quits
<1>9. ASSUME NEW r \in Reg PROVE new[r].name = NoChan => ~meant'[r]
  BY <1>8 DEF Live
<1>10. ASSUME NEW r \in Reg, new[r].name # NoChan PROVE meant'[r] <=> new[r].db_data = "host"
  <2>1. PICK x \in Reg : w[x].name = new[r].name
    BY <1>5, <1>7, <1>10
  <2>2. new[r].db_data = w[x].db_data
    BY <1>5, <1>7, <1>10, <2>1
  <2>3. meant[x] <=> w[x].db_data = "host"
    BY <1>2, <1>10, <2>1
  <2>4. \A y \in Live : reg[y].name = new[r].name => y = x
    BY <1>2, <1>4, <1>10, <2>1 DEF Live
  <2>5. x \in Live /\ reg[x].name = new[r].name
    BY <1>2, <1>10, <2>1 DEF Live
  <2>6. QED
    BY <1>8, <2>2, <2>3, <2>4, <2>5
<1>11. meant' \in [Reg -> BOOLEAN] /\ chan_errors' \subseteq ChanErrors
  BY <1>8
<1>12. QED
  BY <1>5, <1>7, <1>8, <1>9, <1>10, <1>11, Loads

\* A crash: what the file says is meant.
LEMMA bot_crashes_Modules ==
    ASSUME ModulesInv, chan_errors = {}, bot_crashes
    PROVE  ModulesInv'
<1>1. DOMAIN chanregs_file \subseteq AopChan /\ IsFiniteSet(DOMAIN chanregs_file)
      /\ \A c \in DOMAIN chanregs_file : chanregs_file[c] \in Saying
  BY DEF ModulesInv, ModuleTypes
<1>2. PICK new : new = chanreg_db_read_all(chanregs_file)
  OBVIOUS
<1>3. /\ new \in [Reg -> Struct]
      /\ \A r, x \in Reg : new[r].name = new[x].name /\ new[r].name # NoChan => r = x
      /\ \A r \in Reg : ~new[r].active /\ (new[r].name = NoChan => new[r] = FreeReg)
  BY <1>1, <1>2, RegsOf
<1>4. /\ reg' = new /\ autoop_loads(reg') /\ chanregs_file' = chanregs_file /\ chan_errors' = chan_errors
      /\ meant' = [r \in Reg |-> new[r].db_data = "host"]
  BY <1>2 DEF bot_crashes
<1>5. FreeReg.db_data # "host"
  BY DEF FreeReg
<1>6. meant' \in [Reg -> BOOLEAN] /\ chan_errors' \subseteq ChanErrors
  BY <1>4
<1>7. \A r \in Reg : meant'[r] <=> reg'[r].db_data = "host"
  BY <1>4
<1>8. \A r \in Reg : reg'[r].name = NoChan => reg'[r] = FreeReg /\ ~meant'[r]
  BY <1>3, <1>4, <1>5, <1>7
<1>9. QED
  BY <1>1, <1>3, <1>4, <1>6, <1>7, <1>8, Loads

\* The timer enables the module where it is named.
LEMMA timer_Modules ==
    ASSUME ModulesInv, chan_errors = {}, chanreg_module_reg_enable_timer_func
    PROVE  ModulesInv'
<1>1. /\ cmod.pending /\ cmod' = [cmod EXCEPT !.pending = FALSE]
      /\ channels' = channels \cup {r \in Reg : reg[r].modules}
      /\ UNCHANGED <<aop_hosts, chanregs_file, chan_errors, meant>>
      /\ DOMAIN reg' = Reg /\ IsFunction(reg')
  BY DEF chanreg_module_reg_enable_timer_func, IsFunction
<1>2. ModuleTypes /\ reg \in [Reg -> Struct]
  BY DEF ModulesInv, ModuleTypes
<1>3. /\ cmod' \in [loaded : BOOLEAN, pending : BOOLEAN] /\ cmod.loaded /\ cmod'.loaded /\ ~cmod'.pending
  BY <1>1, <1>2 DEF ModuleTypes
<1>4. ASSUME NEW r \in Reg
      PROVE  /\ reg'[r] \in Struct /\ reg'[r].name = reg[r].name /\ reg'[r].modules = reg[r].modules
             /\ reg'[r].active <=> reg[r].active \/ reg[r].modules
             /\ reg'[r].db_data = reg[r].db_data
             /\ reg[r].name = NoChan => reg'[r] = FreeReg
  <2>1. PICK on : on = (reg[r].active \/ reg[r].modules)
    OBVIOUS
  <2>2. reg[r] \in Struct /\ on \in BOOLEAN
    BY <1>2, <2>1 DEF Struct
  <2>3. reg'[r] = [reg[r] EXCEPT !.active = on]
    BY <2>1 DEF chanreg_module_reg_enable_timer_func
  <2>4. /\ reg'[r] \in Struct /\ reg'[r].name = reg[r].name /\ reg'[r].modules = reg[r].modules
        /\ reg'[r].active = on /\ reg'[r].db_data = reg[r].db_data
    BY <2>2, <2>3 DEF Struct
  <2>5. reg[r].name = NoChan => reg[r] = FreeReg
    BY DEF ModulesInv, NamesOnce
  <2>6. reg[r] = FreeReg => reg'[r] = FreeReg
    <3>1. SUFFICES ASSUME reg[r] = FreeReg PROVE reg'[r] = FreeReg
      OBVIOUS
    <3>2. ~reg[r].active /\ ~reg[r].modules
      BY <3>1, Blank
    <3>3. ~on
      BY <2>1, <3>2
    <3>4. on = FALSE
      BY <2>2, <3>3
    <3>5. QED
      BY <2>3, <3>1, <3>4, Blank
  <2>7. QED
    BY <2>1, <2>4, <2>5, <2>6
<1>5. reg' \in [Reg -> Struct]
  BY <1>1, <1>4 DEF IsFunction
<1>6. ModuleTypes'
  BY <1>1, <1>2, <1>3, <1>5 DEF ModuleTypes
<1>7. NamesOnce'
  BY <1>1, <1>4, <1>5, SameNames
<1>8. ASSUME NEW r \in Reg PROVE RegOK(r)'
  <2>1. RegOK(r)
    BY DEF ModulesInv
  <2>2. r \in channels' <=> r \in channels \/ reg[r].modules
    BY <1>1
  <2>3. QED
    BY <1>1, <1>3, <1>4, <2>1, <2>2 DEF RegOK
<1>9. NothingInherited'
  BY <1>1, <1>4 DEF ModulesInv, NothingInherited, Live
<1>10. QED
  BY <1>1, <1>3, <1>6, <1>7, <1>8, <1>9 DEF ModulesInv

\* MODULE_FINI: what is meant is saved, and the module holds nothing any more.
LEMMA autoop_fini_Modules ==
    ASSUME ModulesInv, chan_errors = {}, autoop_fini
    PROVE  ModulesInv'
<1>1. PICK w : w = chanreg_module_writedb
  OBVIOUS
<1>2. /\ w \in [Reg -> Struct]
      /\ \A r \in Reg : /\ w[r].name = reg[r].name /\ w[r].modules = reg[r].modules
                        /\ r \notin channels => w[r] = reg[r]
                        /\ reg[r].name # NoChan => (meant[r] <=> w[r].db_data = "host")
                        /\ reg[r].name = NoChan => r \notin channels
  BY <1>1, Written
<1>3. /\ reg' = [r \in Reg |-> [w[r] EXCEPT !.active = FALSE]] /\ channels' = {} /\ aop_hosts' = {}
      /\ cmod' = [loaded |-> FALSE, pending |-> FALSE]
      /\ chan_errors' \subseteq ChanErrors /\ UNCHANGED <<chanregs_file, meant>>
  BY <1>1 DEF autoop_fini, chanreg_module_unreg, ChanError, ChanErrors
<1>4. ASSUME NEW r \in Reg
      PROVE  /\ reg'[r] \in Struct /\ reg'[r].name = reg[r].name /\ ~reg'[r].active
             /\ reg'[r].db_data = w[r].db_data
             /\ reg[r].name = NoChan => reg'[r] = FreeReg
  <2>1. w[r] \in Struct /\ reg'[r] = [w[r] EXCEPT !.active = FALSE]
    BY <1>2, <1>3
  <2>2. reg'[r] \in Struct /\ reg'[r].name = w[r].name /\ ~reg'[r].active /\ reg'[r].db_data = w[r].db_data
    BY <2>1 DEF Struct
  <2>3. reg[r].name = NoChan => w[r] = FreeReg
    BY <1>2 DEF ModulesInv, NamesOnce
  <2>4. w[r] = FreeReg => reg'[r] = FreeReg
    BY <2>1, Blank
  <2>5. QED
    BY <1>2, <2>2, <2>3, <2>4
<1>5. DOMAIN reg' = Reg /\ IsFunction(reg')
  BY <1>3 DEF IsFunction
<1>6. reg' \in [Reg -> Struct]
  BY <1>4, <1>5 DEF IsFunction
<1>7. ModuleTypes'
  <2>1. ModuleTypes /\ cmod' \in [loaded : BOOLEAN, pending : BOOLEAN] /\ ~cmod'.pending
    BY <1>3 DEF ModulesInv
  <2>2. QED
    BY <1>3, <1>6, <2>1 DEF ModuleTypes
<1>8. NamesOnce'
  BY <1>3, <1>4, <1>6, SameNames
<1>9. \A r \in Reg : RegOK(r)'
  BY <1>2, <1>3, <1>4 DEF RegOK
<1>10. NothingInherited'
  BY <1>3 DEF NothingInherited
<1>11. QED
  BY <1>3, <1>7, <1>8, <1>9, <1>10 DEF ModulesInv

\* MODULE_INIT: the module reads what was saved of every registration.
LEMMA autoop_init_Modules ==
    ASSUME ModulesInv, chan_errors = {}, autoop_init
    PROVE  ModulesInv'
<1>1. /\ ~cmod.loaded /\ cmod' = [loaded |-> TRUE, pending |-> TRUE] /\ channels' = {}
      /\ aop_hosts' = {reg[r].name : r \in {x \in Reg : reg[x].db_data = "host"}}
      /\ reg' = [r \in Reg |-> [reg[r] EXCEPT !.fresh = FALSE]]
      /\ UNCHANGED <<chanregs_file, chan_errors, meant>>
  BY DEF autoop_init, autoop_loads, chanreg_module_readdb
<1>2. /\ reg \in [Reg -> Struct] /\ meant \in [Reg -> BOOLEAN]
      /\ \A x, y \in Reg : reg[x].name = reg[y].name /\ reg[x].name # NoChan => x = y
      /\ \A x \in Reg : reg[x].name = NoChan => reg[x] = FreeReg /\ ~meant[x]
      /\ DOMAIN chanregs_file \subseteq AopChan /\ IsFiniteSet(DOMAIN chanregs_file)
      /\ \A c \in DOMAIN chanregs_file : chanregs_file[c] \in Saying
      /\ \A r \in Reg : RegOK(r)
  BY DEF ModulesInv, ModuleTypes, NamesOnce
<1>3. ASSUME NEW r \in Reg
      PROVE  /\ reg'[r] \in Struct /\ reg'[r].name = reg[r].name /\ ~reg'[r].active
             /\ reg'[r].db_data = reg[r].db_data
             /\ reg[r].name = NoChan => reg'[r] = FreeReg
             /\ reg[r].name # NoChan => (meant[r] <=> reg[r].db_data = "host")
  <2>1. reg[r] \in Struct /\ reg'[r] = [reg[r] EXCEPT !.fresh = FALSE]
    BY <1>1, <1>2
  <2>2. ~reg[r].active
    BY <1>1, <1>2 DEF RegOK
  <2>3. /\ reg'[r] \in Struct /\ reg'[r].name = reg[r].name /\ reg'[r].active = reg[r].active
        /\ reg'[r].db_data = reg[r].db_data
    BY <2>1 DEF Struct
  <2>4. reg[r] = FreeReg => reg'[r] = FreeReg
    BY <2>1, Blank
  <2>5. reg[r].name # NoChan => (meant[r] <=> reg[r].db_data = "host")
    BY <1>1, <1>2 DEF RegOK
  <2>6. QED
    BY <1>2, <2>2, <2>3, <2>4, <2>5
<1>4. DOMAIN reg' = Reg /\ IsFunction(reg')
  BY <1>1 DEF IsFunction
<1>5. reg' \in [Reg -> Struct]
  BY <1>3, <1>4 DEF IsFunction
<1>6. autoop_loads(reg')
  <2>1. aop_hosts' = {reg'[r].name : r \in {x \in Reg : reg'[x].db_data = "host"}}
    BY <1>1, <1>3
  <2>2. QED
    BY <1>1, <2>1 DEF autoop_loads, chanreg_module_readdb
<1>7. \A r, x \in Reg : reg'[r].name = reg'[x].name /\ reg'[r].name # NoChan => r = x
  BY <1>2, <1>3
<1>8. /\ \A r \in Reg : reg'[r].name = NoChan => reg'[r] = FreeReg /\ ~meant'[r]
      /\ \A r \in Reg : ~reg'[r].active
      /\ \A r \in Reg : reg'[r].name # NoChan => (meant'[r] <=> reg'[r].db_data = "host")
  BY <1>1, <1>2, <1>3
<1>9. meant' \in [Reg -> BOOLEAN] /\ chan_errors' \subseteq ChanErrors
  BY <1>1, <1>2
<1>10. QED
  BY <1>1, <1>2, <1>5, <1>6, <1>7, <1>8, <1>9, Loads

\* Every step keeps the invariant.
LEMMA cmNext_Modules ==
    ASSUME ModulesInv, cmNext
    PROVE  ModulesInv'
<1>1. chan_errors = {}
  BY DEF cmNext
<1>2. CASE chanreg_db_write \/ bot_quits \/ bot_crashes
  BY <1>1, <1>2, chanreg_db_write_Modules, bot_quits_Modules, bot_crashes_Modules
<1>3. CASE chanreg_module_reg_enable_timer_func \/ autoop_fini \/ autoop_init
  BY <1>1, <1>3, timer_Modules, autoop_fini_Modules, autoop_init_Modules
<1>4. ASSUME NEW r \in Reg, cmod_cunregister(r) \/ cmod_enable(r) \/ aop_add(r) \/ aop_del(r)
      PROVE  ModulesInv'
  BY <1>1, <1>4, cmod_cunregister_Modules, cmod_enable_Modules, AopCommand_Modules
<1>5. ASSUME NEW r \in Reg, NEW purge \in BOOLEAN, chanreg_module_disable(r, purge)
      PROVE  ModulesInv'
  BY <1>1, <1>5, chanreg_module_disable_Modules
<1>6. ASSUME NEW r \in Reg, NEW c \in AopChan, chanreg_add(r, c) \/ cmod_move(r, c)
      PROVE  ModulesInv'
  BY <1>1, <1>6, chanreg_add_Modules, cmod_move_Modules
<1>7. QED
  BY <1>2, <1>3, <1>4, <1>5, <1>6 DEF cmNext

-----------------------------------------------------------------------------
(* The three services together.                                                *)

\* What does not touch a service keeps its invariant.
LEMMA ServicesStutter ==
    /\ ModulesInv /\ UNCHANGED cmVars => ModulesInv'
    /\ RequestInv /\ UNCHANGED crVars => RequestInv'
    /\ TriesInv /\ UNCHANGED apVars => TriesInv'
<1>1. ModulesInv /\ UNCHANGED cmVars => ModulesInv'
  BY DEF cmVars, ModulesInv, ModuleTypes, NamesOnce, RegOK, NothingInherited, Live
<1>2. RequestInv /\ UNCHANGED crVars => RequestInv'
  BY RequestFlat, RequestFlatNext DEF crVars
<1>3. TriesInv /\ UNCHANGED apVars => TriesInv'
  <2>1. SUFFICES ASSUME TriesInv, UNCHANGED apVars PROVE TriesInv'
    OBVIOUS
  <2>2. \A h \in Host : PolicerOK(h)'
    BY <2>1 DEF apVars, TriesInv, PolicerOK
  <2>3. GagsTimed'
    BY <2>1 DEF apVars, TriesInv, GagsTimed
  <2>4. QED
    BY <2>1, <2>2, <2>3 DEF apVars, TriesInv
<1>4. QED
  BY <1>1, <1>2, <1>3

\* What chanreg keeps for modules, whom chanrequest makes an owner and how often auth compares passwords is
\* what commands and configuration asked for (chanreg.c, chanrequest.c, policer.c), for any number of
\* registrations, names and hosts, and any size of the bucket.
THEOREM SpecServicesSound == AllSpec => []ServicesSound
<1>1. AllInit => ServicesInv
  BY cmInit_Modules, crInit_Request, apInit_Tries DEF AllInit, ServicesInv
<1>2. ServicesInv /\ [AllNext]_partVars => ServicesInv'
  <2>1. SUFFICES ASSUME ServicesInv, [AllNext]_partVars PROVE ServicesInv'
    OBVIOUS
  <2>2. ModulesInv'
    BY <2>1, cmNext_Modules, ServicesStutter DEF ServicesInv, AllNext, partVars
  <2>3. RequestInv'
    BY <2>1, crNext_Request, ServicesStutter DEF ServicesInv, AllNext, partVars
  <2>4. TriesInv'
    BY <2>1, apNext_Tries, ServicesStutter DEF ServicesInv, AllNext, partVars
  <2>5. QED
    BY <2>2, <2>3, <2>4 DEF ServicesInv
<1>3. ServicesInv => ServicesSound
  BY ModulesSound, TriesSound DEF ServicesInv, RequestInv, ServicesSound
<1>4. QED
  BY <1>1, <1>2, <1>3, PTL DEF AllSpec
=============================================================================
