------------------------------ MODULE UserAuth ------------------------------
(***************************************************************************)
(* The users of the satellite and their storage (utilities/user_auth.c):   *)
(* a directory for each user with a token file and a data file.  Only the  *)
(* COMMAND task calls these functions, one call after another, but each is *)
(* several operations of the filesystem task and a reset may come between  *)
(* any two.  Names are short enough and the medium does not fail.  Data is *)
(* known by its size.                                                      *)
(***************************************************************************)
EXTENDS Naturals, FiniteSets

CONSTANTS
    Users, Tokens,
    Quota,      \* USER_MAX_TOTAL_DATA_SIZE
    MaxWrite,   \* MAX_WRITE_CONTENTS_SIZE
    Width       \* buf_size counts modulo Width (2^16)

NoToken == "none"     \* no token file, or an empty one
NoData == Quota + MaxWrite + 1   \* no data file

ASSUME UserAuthAssumption ==
    /\ Quota \in Nat /\ MaxWrite \in Nat /\ Width \in Nat
    /\ MaxWrite < Quota /\ Quota + MaxWrite < Width
    /\ Users # {} /\ Tokens # {} /\ NoToken \notin Tokens

VARIABLES
    users_dir,   \* /users exists
    made,        \* the users with a directory
    token_of,    \* what each token file holds
    data_of,     \* the size of each data file
    auth_at,     \* where the call is
    user_name,   \* the user it is about
    user_token,  \* the token it was given
    buf_size,    \* the size of the upload
    unread,      \* get_user: the directories read_dir has not returned
    token_buffer, \* get_user: the buffer a token file is read into
    fsize        \* upload_user_data: the size of the data file

storage == <<users_dir, made, token_of, data_of>>
search == <<unread, token_buffer>>
authVars == <<storage, auth_at, user_name, user_token, buf_size, search, fsize>>

AuthInit ==
    /\ users_dir = FALSE /\ made = {}
    /\ token_of = [u \in Users |-> NoToken] /\ data_of = [u \in Users |-> NoData]
    /\ auth_at = "idle" /\ buf_size = 0
    /\ user_name = (CHOOSE u \in Users : TRUE) /\ user_token = (CHOOSE t \in Tokens : TRUE)
    /\ unread = {} /\ token_buffer = NoToken /\ fsize = 0

Goto(here, there) == auth_at = here /\ auth_at' = there

\* The commands: ADD_USER, DELETE_USER and UPLOAD_USER_DATA.
AuthCall ==
    /\ auth_at = "idle"
    /\ user_name' \in Users /\ user_token' \in Tokens /\ buf_size' \in 1 .. MaxWrite
    /\ auth_at' \in {"add", "delete", "get"}
    /\ auth_at' # "get" => buf_size' = 1
    /\ auth_at' = "get" => user_name' = (CHOOSE u \in Users : TRUE)
    /\ unread' = {} /\ token_buffer' = NoToken /\ fsize' = 0
    /\ UNCHANGED storage

\* ------------------------------------------------------------------ add_user

AddUsersDir ==
    /\ \/ users_dir /\ Goto("add", "add_dir")
       \/ ~users_dir /\ Goto("add", "add_users")
    /\ UNCHANGED storage

MakeUsersDir ==
    /\ Goto("add_users", "add_dir")
    /\ users_dir' = TRUE
    /\ UNCHANGED <<made, token_of, data_of>>

X_AddUserDir ==
    /\ \/ user_name \in made /\ Goto("add_dir", "add_token")
       \/ user_name \notin made /\ Goto("add_dir", "make_dir")
    /\ UNCHANGED storage

\* A user that already exists is left as it is, whatever token it has.
AddUserDir ==
    /\ \/ user_name \in made /\ Goto("add_dir", "idle")
       \/ user_name \notin made /\ Goto("add_dir", "make_dir")
    /\ UNCHANGED storage

\* The directory is made, and found to be there.
MakeUserDir ==
    /\ Goto("make_dir", "add_token")
    /\ made' = made \cup {user_name}
    /\ UNCHANGED <<users_dir, token_of, data_of>>

AddToken ==
    /\ Goto("add_token", "idle")
    /\ token_of' = [token_of EXCEPT ![user_name] = user_token]
    /\ UNCHANGED <<users_dir, made, data_of>>

add_user ==
    /\ AddUsersDir \/ MakeUsersDir \/ AddUserDir \/ MakeUserDir \/ AddToken
    /\ UNCHANGED <<user_name, user_token, buf_size, search, fsize>>

\* --------------------------------------------------------------- delete_user

DeleteCheck ==
    /\ \/ user_name \in made /\ Goto("delete", "delete_token")
       \/ user_name \notin made /\ Goto("delete", "idle")
    /\ UNCHANGED storage

DeleteToken ==
    /\ Goto("delete_token", "delete_data")
    /\ token_of' = [token_of EXCEPT ![user_name] = NoToken]
    /\ UNCHANGED <<users_dir, made, data_of>>

DeleteData ==
    /\ Goto("delete_data", "delete_dir")
    /\ data_of' = [data_of EXCEPT ![user_name] = NoData]
    /\ UNCHANGED <<users_dir, made, token_of>>

DeleteDir ==
    /\ Goto("delete_dir", "idle")
    /\ made' = made \ {user_name}
    /\ UNCHANGED <<users_dir, token_of, data_of>>

delete_user ==
    /\ DeleteCheck \/ DeleteToken \/ DeleteData \/ DeleteDir
    /\ UNCHANGED <<user_name, user_token, buf_size, search, fsize>>

\* ------------------------------------------------- get_user, upload_user_data

\* The token buffer is not initialized.  With no directory to open, nor is what
\* read_dir reads, and it fails.
OpenUsers ==
    /\ \/ users_dir /\ Goto("get", "next")
       \/ ~users_dir /\ Goto("get", "idle")
    /\ unread' = made
    /\ token_buffer' \in Tokens \cup {NoToken}
    /\ UNCHANGED <<user_name, fsize>>

NextUser ==
    /\ \/ /\ Goto("next", "compare")
          /\ user_name' \in unread
          /\ unread' = unread \ {user_name'}
       \/ Goto("next", "idle") /\ unread = {} /\ UNCHANGED <<user_name, unread>>
    /\ UNCHANGED <<token_buffer, fsize>>

X_Compare ==
    /\ token_buffer' = IF token_of[user_name] = NoToken THEN token_buffer ELSE token_of[user_name]
    /\ Goto("compare", IF token_buffer = user_token THEN "exists" ELSE "next")
    /\ UNCHANGED <<user_name, unread, fsize>>

\* With no token to read the buffer stays as it was, and is compared all the same.
Compare ==
    /\ token_buffer' = IF token_of[user_name] = NoToken THEN token_buffer ELSE token_of[user_name]
    /\ Goto("compare", IF token_buffer' = user_token THEN "exists" ELSE "next")
    /\ UNCHANGED <<user_name, unread, fsize>>

Search == (OpenUsers \/ NextUser \/ Compare) /\ UNCHANGED storage

\* The data file is made if it is missing; touch is a write of nothing.
EnsureData ==
    /\ Goto("exists", "stat")
    /\ data_of' = [data_of EXCEPT ![user_name] = IF @ = NoData THEN 0 ELSE @]
    /\ UNCHANGED <<users_dir, made, token_of, user_name, search, fsize>>

StatData ==
    /\ fsize' = data_of[user_name]
    /\ Goto("stat", IF fsize' >= Quota THEN "idle" ELSE "write")
    /\ UNCHANGED <<storage, user_name, search>>

X_Granted == buf_size

\* What is left of the quota is computed with its sign reversed, in buf_size.
Granted ==
    IF buf_size + fsize > Quota THEN (fsize + Width - Quota) % Width ELSE buf_size

\* write_file ignores what is too long for it.
WriteData ==
    /\ Goto("write", "idle")
    /\ data_of' = [data_of EXCEPT ![user_name] = @ + (IF Granted > MaxWrite THEN 0 ELSE Granted)]
    /\ UNCHANGED <<users_dir, made, token_of, user_name, search, fsize>>

upload_user_data ==
    /\ Search \/ EnsureData \/ StatData \/ WriteData
    /\ UNCHANGED <<user_token, buf_size>>

\* A file that is being written is empty after the reset.
AuthReset ==
    /\ auth_at # "idle"
    /\ auth_at' = "idle"
    /\ UNCHANGED <<storage, user_name, user_token, buf_size, search, fsize>>

AuthNext == AuthCall \/ add_user \/ delete_user \/ upload_user_data \/ AuthReset

AuthSpec == AuthInit /\ [][AuthNext]_authVars

\* ---------------------------------------------------------------- properties

\* Uploaded data goes to the user with that token, or to a half-made or half-deleted
\* one that has none: never to another user, though the buffer tokens are read into
\* keeps what was there before (user_auth.c:59-76, 118-154).
UploadsGoHome ==
    [][\A u \in Users :
          data_of'[u] # data_of[u] /\ data_of'[u] # NoData =>
              token_of[u] \in {user_token, NoToken}]_authVars

\* Whoever gets a token finds no data of a former user of that name, whenever a
\* deletion was cut short (user_auth.c:29-44, 106-109).
FreshStart ==
    [][\A u \in Users :
          token_of'[u] # token_of[u] /\ token_of'[u] # NoToken => data_of[u] = NoData]_authVars

\* No user ever stores more than the quota, with the sign of what is left reversed
\* (user_auth.c:142-152).
QuotaKept == \A u \in Users : data_of[u] <= Quota \/ data_of[u] = NoData
=============================================================================
