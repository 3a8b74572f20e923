------------------------------- MODULE Login --------------------------------
(***************************************************************************)
(* The login gate of src/kernel/auth.c and the machine identity of         *)
(* src/kernel/identity.c, with the two files they keep.                    *)
(*                                                                         *)
(* A record holds the password itself: a salted hash tells two passwords   *)
(* apart and nothing else is asked of it.  A file is Absent, Empty         *)
(* (created, its one write not done) or the record last written; both      *)
(* records fit a sector.  Creating an account takes two steps, one per     *)
(* file, and the power may fail between them.  Copies of a name or a       *)
(* password that are written again before they are read are empty here.    *)
(***************************************************************************)
EXTENDS Naturals, Sequences, Least, KeyMap

CONSTANTS
    MaxUsers,           \* AUTH_MAX_USERS
    NameMax,            \* AUTH_USERNAME_MAX - 1, and IDENTITY_USERNAME_MAX - 1
    LineMax,            \* AUTH_PASSWORD_MAX
    NotPrintable,       \* the characters auth_keyboard_character() drops
    MaxFailures,        \* bound: calls of fs.c that fail
    Absent, Empty, None

ASSUME LoginAssumption ==
    /\ MaxUsers \in Nat \ {0} /\ NameMax \in Nat \ {0} /\ LineMax \in Nat \ {0}
    /\ MaxFailures \in Nat

Slots == 1 .. MaxUsers
Accounts(base) == {base.users[s] : s \in Slots} \ {None}

\* The table of accounts, empty whenever it counts none.
Records == [username : Seq(Characters), password : Seq(Characters)]
Databases ==
    {base \in [count : Nat, users : [Slots -> Records \cup {None}]] :
        base.count = 0 => Accounts(base) = {}}

ASSUME FileAssumption == None \notin Records /\ Absent \notin Databases /\ Empty \notin Databases

VARIABLES
    db,                 \* [count, users: slot -> [username, password] or None]
    stage, line_buffer, pending_username, pending_password,
    logged_in, active_username,
    current,            \* the loaded identity, or None
    usersFile, identityFile,
    saving,             \* which file auth_keyboard_enter() is at
    failures,
    prompted,           \* history: the characters this prompt was given
    entered,            \* history: the name and the password of this attempt
    created             \* history: the accounts there were or reported as created

loginVars == <<db, stage, line_buffer, pending_username, pending_password, logged_in,
               active_username, current, saving>>
loginDisk == <<usersFile, identityFile, failures>>
loginPast == <<prompted, entered, created>>

NoAccounts == [count |-> 0, users |-> [s \in Slots |-> None]]
NoEntry == [username |-> <<>>, password |-> <<>>]
string_copy_bounded(s, max) == IF Len(s) <= max THEN s ELSE SubSeq(s, 1, max)

auth_login_active == stage # "INACTIVE"
Signup == {"SIGNUP_USERNAME", "SIGNUP_PASSWORD", "SIGNUP_CONFIRM"}

\* auth_db_load() and identity_load(): a file that cannot be read is no file.
Loaded(file, otherwise, readable) ==
    IF file \in {Absent, Empty} \/ ~readable THEN otherwise ELSE file

FirstStage(base) == IF base.count = 0 THEN "SIGNUP_USERNAME" ELSE "LOGIN_USERNAME"

\* The first boot, on a disk with or without an account.
LoginInit(disk) ==
    /\ usersFile = disk /\ identityFile = Absent
    /\ db = Loaded(usersFile, NoAccounts, TRUE) /\ stage = FirstStage(db)
    /\ line_buffer = <<>> /\ pending_username = <<>> /\ pending_password = <<>>
    /\ logged_in = FALSE /\ active_username = <<>> /\ current = None
    /\ saving = "none" /\ failures = 0
    /\ prompted = <<>> /\ entered = NoEntry /\ created = Accounts(db)

\* The next prompt goes on with the old line.
auth_prompt_keepsLine(next) ==
    /\ stage' = next /\ prompted' = <<>> /\ UNCHANGED line_buffer

\* auth_prompt() at the stage that follows.
auth_prompt(next) ==
    /\ stage' = next /\ line_buffer' = <<>> /\ prompted' = <<>>

\* Boot: identity_load(), auth_init() and auth_start().
LoginBoots(readable) ==
    /\ failures' = IF readable THEN failures ELSE failures + 1
    /\ failures' <= MaxFailures
    /\ db' = Loaded(usersFile, NoAccounts, readable)
    /\ current' = Loaded(identityFile, None, readable)
    /\ auth_prompt(FirstStage(db'))
    /\ pending_username' = <<>> /\ pending_password' = <<>>
    /\ logged_in' = FALSE /\ active_username' = <<>>
    /\ saving' = "none" /\ entered' = NoEntry
    /\ UNCHANGED <<usersFile, identityFile, created>>

\* auth_logout() and its auth_start(); the accounts stay loaded.
auth_logout ==
    /\ logged_in' = FALSE /\ active_username' = <<>>
    /\ auth_prompt(FirstStage(db))
    /\ entered' = NoEntry
    /\ UNCHANGED <<db, pending_username, pending_password, current, saving, loginDisk, created>>

-----------------------------------------------------------------------------
auth_keyboard_character(c) ==
    /\ IF c \in NotPrintable \/ Len(line_buffer) >= LineMax
       THEN UNCHANGED <<line_buffer, prompted>>
       ELSE line_buffer' = Append(line_buffer, c) /\ prompted' = Append(prompted, c)
    /\ UNCHANGED <<db, stage, pending_username, pending_password, logged_in,
                   active_username, current, saving, loginDisk, entered, created>>

Shortened(s) == IF s = <<>> THEN s ELSE SubSeq(s, 1, Len(s) - 1)
auth_keyboard_backspace ==
    /\ line_buffer' = Shortened(line_buffer) /\ prompted' = Shortened(prompted)
    /\ UNCHANGED <<db, stage, pending_username, pending_password, logged_in,
                   active_username, current, saving, loginDisk, entered, created>>

session == <<logged_in, active_username>>

\* A name is taken at its prompt; signing up, it may not be empty.
NameEntered ==
    /\ stage \in {"SIGNUP_USERNAME", "LOGIN_USERNAME"}
    /\ IF stage = "SIGNUP_USERNAME" /\ line_buffer = <<>>
       THEN auth_prompt(stage) /\ UNCHANGED <<pending_username, entered>>
       ELSE /\ pending_username' = string_copy_bounded(line_buffer, NameMax)
            /\ entered' = [entered EXCEPT !.username = prompted]
            /\ auth_prompt(IF stage = "SIGNUP_USERNAME" THEN "SIGNUP_PASSWORD"
                           ELSE "LOGIN_PASSWORD")
    /\ UNCHANGED <<db, pending_password, session, current, saving, loginDisk, created>>

PasswordChosen ==
    /\ stage = "SIGNUP_PASSWORD"
    /\ IF line_buffer = <<>>
       THEN auth_prompt(stage) /\ UNCHANGED <<pending_password, entered>>
       ELSE /\ pending_password' = line_buffer
            /\ entered' = [entered EXCEPT !.password = prompted]
            /\ auth_prompt("SIGNUP_CONFIRM")
    /\ UNCHANGED <<db, pending_username, session, current, saving, loginDisk, created>>

\* Back to the first prompt after a refusal.
StartsOver(first) ==
    /\ auth_prompt(first)
    /\ pending_username' = <<>> /\ pending_password' = <<>> /\ entered' = NoEntry
    /\ UNCHANGED <<db, session, current, saving, loginDisk, created>>

auth_find_user(name) == {s \in Slots : db.users[s] # None /\ db.users[s].username = name}
FreeSlots == {s \in Slots : db.users[s] = None}
Creatable ==
    /\ db.count < MaxUsers
    /\ auth_find_user(pending_username) = {}
    /\ FreeSlots # {}

SignupRefused ==
    /\ stage = "SIGNUP_CONFIRM"
    /\ line_buffer # pending_password \/ ~Creatable
    /\ StartsOver("SIGNUP_USERNAME")

\* auth_create_user(), up to its auth_db_save().
auth_create_user ==
    /\ stage = "SIGNUP_CONFIRM" /\ line_buffer = pending_password /\ Creatable
    /\ db' = [count |-> db.count + 1,
              users |-> [db.users EXCEPT ![Lowest(FreeSlots)] =
                            [username |-> pending_username, password |-> pending_password]]]
    /\ saving' = "users"
    /\ UNCHANGED <<stage, line_buffer, pending_username, pending_password, session, current,
                   loginDisk, loginPast>>

\* What a file may hold after a save that went wrong: fs_create() failed, or
\* fs_open() or fs_write() did, the latter perhaps after its sector was written.
Unsaved(file, record) ==
    IF file = Absent THEN {Absent, Empty} ELSE IF file = Empty THEN {Empty} ELSE {file, record}

\* The record is written before the account is counted.
auth_db_save_uncounted ==
    /\ saving = "users" /\ saving' = "identity"
    /\ usersFile' = [db EXCEPT !.count = @ - 1]
    /\ UNCHANGED <<db, stage, line_buffer, pending_username, pending_password, session, current,
                   identityFile, failures, loginPast>>

\* auth_db_save() reports nothing: the sign-up goes on whatever happened.
auth_db_save ==
    /\ saving = "users" /\ saving' = "identity"
    /\ \/ usersFile' = db /\ UNCHANGED failures
       \/ /\ failures < MaxFailures /\ failures' = failures + 1
          /\ usersFile' \in Unsaved(usersFile, db)
    /\ UNCHANGED <<db, stage, line_buffer, pending_username, pending_password, session, current,
                   identityFile, loginPast>>

auth_finish_session ==
    /\ logged_in' = TRUE /\ active_username' = pending_username
    /\ stage' = "INACTIVE" /\ line_buffer' = <<>> /\ prompted' = <<>>
    /\ pending_username' = <<>> /\ pending_password' = <<>>

\* identity_exists(), identity_generate() and the rest of the confirmation.  The
\* identity is named after the account; its random seed is left out.
IdentityMade ==
    LET identity == string_copy_bounded(pending_username, NameMax) IN
    /\ saving = "identity" /\ saving' = "none"
    /\ \/ identityFile # Absent /\ UNCHANGED <<current, identityFile, failures>>
       \/ /\ identityFile = Absent /\ identityFile' = identity /\ current' = identity
          /\ UNCHANGED failures
       \/ /\ identityFile = Absent /\ identityFile' \in Unsaved(identityFile, identity)
          /\ failures < MaxFailures /\ failures' = failures + 1
          /\ UNCHANGED current
    /\ created' = created \cup {[username |-> pending_username, password |-> pending_password]}
    /\ auth_finish_session
    /\ UNCHANGED <<db, usersFile, entered>>

auth_verify_user ==
    \E s \in auth_find_user(pending_username) :
        s = Lowest(auth_find_user(pending_username)) /\ db.users[s].password = line_buffer

LoginDenied ==
    /\ stage = "LOGIN_PASSWORD" /\ ~auth_verify_user
    /\ StartsOver("LOGIN_USERNAME")

LoginGranted ==
    /\ stage = "LOGIN_PASSWORD" /\ auth_verify_user
    /\ entered' = [entered EXCEPT !.password = prompted]
    /\ auth_finish_session
    /\ UNCHANGED <<db, current, saving, loginDisk, created>>

\* auth_keyboard_enter() at the prompts that start no session.
PromptAnswered ==
    NameEntered \/ PasswordChosen \/ SignupRefused \/ LoginDenied \/ auth_create_user

-----------------------------------------------------------------------------
\* Every key is in the line and in the record of it; no prompt while logged in.
LoginInv ==
    /\ db \in Databases /\ usersFile \in Databases \cup {Absent, Empty} /\ failures \in Nat
    /\ line_buffer \in Seq(Characters) /\ prompted = line_buffer
    /\ pending_username \in Seq(Characters) /\ pending_password \in Seq(Characters)
    /\ entered \in Records
    /\ logged_in \in BOOLEAN /\ (logged_in <=> ~auth_login_active)

Signing == [username |-> pending_username, password |-> pending_password]

\* What is pending is what was typed, and a sign-up being saved is in the table.
AttemptInv ==
    /\ stage \in {"SIGNUP_PASSWORD", "SIGNUP_CONFIRM", "LOGIN_PASSWORD"} =>
          pending_username = string_copy_bounded(entered.username, NameMax)
    /\ stage = "SIGNUP_CONFIRM" => pending_password = entered.password
    /\ saving # "none" => stage = "SIGNUP_CONFIRM" /\ Signing \in Accounts(db)

\* Until a call of fs.c fails, users.dat holds the table, but for the moment
\* between a new record and its save.
SavedInv == failures = 0 /\ saving # "users" => db = Loaded(usersFile, NoAccounts, TRUE)

(* A session is of an account that exists, whose name and password are what was
   typed at the two prompts before it, long names cut as auth.c cuts them; no
   key of an earlier prompt or attempt leaks into it. *)
SessionIsEarned ==
    logged_in =>
        /\ active_username = string_copy_bounded(entered.username, NameMax)
        /\ [username |-> active_username, password |-> entered.password] \in Accounts(db)

(* Unless a call of fs.c failed, an account that was reported as created can
   log in after every restart, whenever the power failed, and no sign-up is
   offered again. *)
AccountsSurvive ==
    (failures = 0 /\ created # {}) =>
        created \subseteq Accounts(db) /\ stage \notin Signup
=============================================================================
