-------------------------------- MODULE Users --------------------------------
(***************************************************************************)
(* kernel/user/user.c and the shell commands on accounts. Accounts are      *)
(* never removed, so the used slots are a sequence and a uid is a position. *)
(* Roles and full names are only shown; hashes are taken to be distinct.    *)
(***************************************************************************)
EXTENDS Integers, Sequences

CONSTANTS
    USER_ENTRY_MAX,
    BuiltIn,            \* the names user_init registers; "guest" is one of them
    NewNames,           \* names for adduser
    Passwords,
    NoPassword          \* password_hash = 0

\* user_init registers root first.
ASSUME UsersAssumption == BuiltIn \in Seq(STRING) /\ BuiltIn # <<>>

VARIABLES
    users,
    active_uid, authenticated,
    phase               \* "boot" until kmain hands over to the shell
usersVars == <<users, active_uid, authenticated, phase>>

user_find(name) == {i \in DOMAIN users : users[i].username = name}

\* user_init, then user_create_default_passwords: each built-in's name.
UsersInit ==
    /\ users = [i \in DOMAIN BuiltIn |->
                  [username |-> BuiltIn[i], enabled |-> TRUE, locked |-> FALSE, password |-> BuiltIn[i]]]
    /\ active_uid = 1 /\ authenticated = FALSE
    /\ phase = "boot"

\* user_set_active("guest") and user_logout; nobody is asked for anything.
boot_prompt_login ==
    /\ phase = "boot" /\ phase' = "shell"
    /\ active_uid' \in user_find("guest")
    /\ authenticated' = FALSE
    /\ UNCHANGED users

user_add(name) ==
    /\ user_find(name) = {} /\ Len(users) < USER_ENTRY_MAX
    /\ users' = Append(users,
         [username |-> name, enabled |-> TRUE, locked |-> FALSE, password |-> NoPassword])
    /\ UNCHANGED <<active_uid, authenticated>>

\* Mutant: the active account may be disabled too.
DisableAnyone(name) ==
    \E i \in user_find(name) :
        /\ users' = [users EXCEPT ![i].enabled = FALSE]
        /\ UNCHANGED <<active_uid, authenticated>>

user_disable(name) ==
    \E i \in user_find(name) :
        /\ i # active_uid
        /\ users' = [users EXCEPT ![i].enabled = FALSE]
        /\ UNCHANGED <<active_uid, authenticated>>

user_set_active(name) ==
    \E i \in user_find(name) :
        /\ users[i].enabled
        /\ active_uid' = i
        /\ UNCHANGED <<users, authenticated>>

user_set_password(name, password) ==
    \E i \in user_find(name) :
        /\ users' = [users EXCEPT ![i].password = password, ![i].locked = FALSE]
        /\ UNCHANGED <<active_uid, authenticated>>

\* A wrong password marks the account, which nothing looks at, and leaves the
\* session of whoever was logged in as it was.
user_login(name, password) ==
    \E i \in user_find(name) :
        /\ users[i].enabled /\ users[i].password # NoPassword
        /\ users' = [users EXCEPT ![i].locked = users[i].password # password]
        /\ IF users[i].password = password
           THEN active_uid' = i /\ authenticated' = TRUE
           ELSE UNCHANGED <<active_uid, authenticated>>

user_logout == authenticated' = FALSE /\ UNCHANGED <<users, active_uid>>

AccountNames == NewNames \cup {BuiltIn[i] : i \in DOMAIN BuiltIn}

UsersNext ==
    \/ boot_prompt_login
    \/ /\ phase = "shell" /\ UNCHANGED phase
       /\ \/ user_logout
          \/ \E name \in AccountNames :
               \/ user_add(name) \/ user_disable(name) \/ user_set_active(name)
               \/ \E password \in Passwords :
                    user_set_password(name, password) \/ user_login(name, password)

UsersSpec == UsersInit /\ [][UsersNext]_usersVars

-----------------------------------------------------------------------------
\* user.c: through any sequence of login, su, logout, adduser, passwd and deluser the
\* active uid names an account, and one that is enabled; the prompt and whoami
\* show it without looking.
ActiveIsEnabled == active_uid \in DOMAIN users /\ users[active_uid].enabled
=============================================================================
