----------------------------- MODULE BoardProofs -----------------------------
(***************************************************************************)
(* Theorems about the four components of the board that keep nothing in    *)
(* common: users and their storage, the parser of commands, the watchdog,  *)
(* and the clock with the contact it dates.  Each part has its own         *)
(* inductive invariant.                                                    *)
(***************************************************************************)
EXTENDS UserAuth, CommandParser, Watchdog, Contact, SequenceTheorems, TLAPS

-----------------------------------------------------------------------------
(***************************************************************************)
(* Users and their storage, for any users and tokens, any quota, and any   *)
(* sequence of calls and resets.                                           *)
(***************************************************************************)

AuthLabels ==
    {"idle", "add", "delete", "get", "add_dir", "add_users", "make_dir", "add_token",
     "delete_token", "delete_data", "delete_dir", "next", "compare", "exists", "stat", "write"}

AuthTypeInv ==
    /\ made \subseteq Users
    /\ token_of \in [Users -> Tokens \cup {NoToken}]
    /\ data_of \in [Users -> Nat]
    /\ auth_at \in AuthLabels
    /\ user_name \in Users /\ user_token \in Tokens /\ buf_size \in 0 .. MaxWrite
    /\ unread \subseteq Users
    /\ token_buffer \in Tokens \cup {NoToken}
    /\ fsize \in Nat

\* Data is only where there is a directory, and while the user's own data is handled
\* there is one.
HomeInv ==
    /\ \A u \in Users \ made : data_of[u] = NoData
    /\ auth_at \in {"next", "compare"} => unread \subseteq made
    /\ auth_at \in {"compare", "exists", "stat", "write"} => user_name \in made
    /\ auth_at = "add_token" => data_of[user_name] = NoData
    /\ auth_at = "make_dir" => user_name \notin made
    /\ auth_at = "delete_dir" => data_of[user_name] = NoData

\* The user that was found has the token of the call, or none.
FoundInv == auth_at \in {"exists", "stat", "write"} => token_of[user_name] \in {user_token, NoToken}

\* What is computed from the size of the data file is still true when it is used.
SizeInv ==
    /\ auth_at \in {"stat", "write"} => data_of[user_name] # NoData
    /\ auth_at = "write" => fsize = data_of[user_name] /\ fsize < Quota

\* The inductive invariant.
AuthInv == AuthTypeInv /\ HomeInv /\ FoundInv /\ SizeInv /\ QuotaKept

-----------------------------------------------------------------------------

\* The reversed subtraction of upload_user_data wraps to more than write_file takes.
LEMMA WrappedIsTooLong ==
    ASSUME buf_size \in 0 .. MaxWrite, fsize \in Nat, fsize < Quota, buf_size + fsize > Quota
    PROVE  Granted > MaxWrite
<1> DEFINE w == fsize + Width - Quota
<1>1. w \in Nat /\ w < Width /\ w > MaxWrite
  BY UserAuthAssumption
<1>2. w % Width = w
  BY <1>1, UserAuthAssumption
<1> QED BY <1>1, <1>2 DEF Granted

\* The invariant holds at first.
LEMMA AuthInitInv == AuthInit => AuthInv
<1> SUFFICES ASSUME AuthInit PROVE AuthInv
  OBVIOUS
<1>1. user_name \in Users /\ user_token \in Tokens
  BY UserAuthAssumption DEF AuthInit
<1>2. buf_size = 0
  BY DEF AuthInit
<1> QED BY <1>1, <1>2, UserAuthAssumption
        DEF AuthInit, AuthInv, AuthTypeInv, HomeInv, FoundInv, SizeInv, QuotaKept, AuthLabels, NoData

\* Every step of add_user keeps it.
LEMMA AddUserInv ==
    ASSUME AuthInv, add_user
    PROVE  AuthInv'
<1> USE DEF AuthInv, AuthTypeInv, HomeInv, FoundInv, SizeInv, QuotaKept, AuthLabels, Goto, storage, search
<1>1. CASE AddUsersDir
  BY <1>1 DEF add_user, AddUsersDir
<1>2. CASE MakeUsersDir
  BY <1>2 DEF add_user, MakeUsersDir
<1>3. CASE AddUserDir
  BY <1>3 DEF add_user, AddUserDir
<1>4. CASE MakeUserDir
  BY <1>4 DEF add_user, MakeUserDir
<1>5. CASE AddToken
  BY <1>5 DEF add_user, AddToken
<1> QED BY <1>1, <1>2, <1>3, <1>4, <1>5 DEF add_user

\* Every step of delete_user keeps it.
LEMMA DeleteUserInv ==
    ASSUME AuthInv, delete_user
    PROVE  AuthInv'
<1> USE DEF AuthInv, AuthTypeInv, HomeInv, FoundInv, SizeInv, QuotaKept, AuthLabels, Goto, storage, search
<1>1. CASE DeleteCheck
  BY <1>1 DEF delete_user, DeleteCheck
<1>2. CASE DeleteToken
  BY <1>2 DEF delete_user, DeleteToken
<1>3. CASE DeleteData
  <2>1. NoData \in Nat
    BY UserAuthAssumption DEF NoData
  <2> QED BY <1>3, <2>1 DEF delete_user, DeleteData
<1>4. CASE DeleteDir
  BY <1>4 DEF delete_user, DeleteDir
<1> QED BY <1>1, <1>2, <1>3, <1>4 DEF delete_user

\* Every step of upload_user_data, with get_user, keeps it.
LEMMA UploadInv ==
    ASSUME AuthInv, upload_user_data
    PROVE  AuthInv'
<1> USE DEF AuthInv, AuthTypeInv, HomeInv, FoundInv, SizeInv, QuotaKept, AuthLabels, Goto, storage, search
<1>1. CASE OpenUsers /\ UNCHANGED storage
  BY <1>1 DEF upload_user_data, OpenUsers
<1>2. CASE NextUser /\ UNCHANGED storage
  BY <1>2 DEF upload_user_data, NextUser
<1>3. CASE Compare /\ UNCHANGED storage
  BY <1>3 DEF upload_user_data, Compare
<1>4. CASE EnsureData
  <2>1. 0 <= Quota /\ 0 # NoData
    BY UserAuthAssumption DEF NoData
  <2>2. data_of'[user_name] = IF data_of[user_name] = NoData THEN 0 ELSE data_of[user_name]
    BY <1>4 DEF EnsureData
  <2>3. \A u \in Users \ {user_name} : data_of'[u] = data_of[u]
    BY <1>4 DEF EnsureData
  <2>4. data_of' \in [Users -> Nat]
    BY <1>4 DEF EnsureData
  <2> QED BY <1>4, <2>1, <2>2, <2>3, <2>4 DEF upload_user_data, EnsureData
<1>5. CASE StatData
  BY <1>5, UserAuthAssumption DEF upload_user_data, StatData
<1>6. CASE WriteData
  <2> DEFINE written == IF Granted > MaxWrite THEN 0 ELSE Granted
  <2>1. data_of[user_name] = fsize /\ fsize < Quota /\ fsize \in Nat
    BY <1>6 DEF WriteData
  <2>2. written \in Nat /\ fsize + written <= Quota
    <3>1. CASE buf_size + fsize > Quota
      BY <2>1, <3>1, WrappedIsTooLong, UserAuthAssumption
    <3>2. CASE buf_size + fsize <= Quota
      BY <2>1, <3>2, UserAuthAssumption DEF Granted
    <3> QED BY <2>1, <3>1, <3>2, UserAuthAssumption
  <2>3. data_of' = [data_of EXCEPT ![user_name] = fsize + written]
    BY <1>6, <2>1 DEF WriteData
  <2>4. data_of' \in [Users -> Nat]
    BY <2>1, <2>2, <2>3
  <2>5. \A u \in Users : data_of'[u] = IF u = user_name THEN fsize + written ELSE data_of[u]
    BY <2>3
  <2> HIDE DEF written
  <2>6. QuotaKept'
    BY <2>1, <2>2, <2>5
  <2>7. HomeInv'
    BY <1>6, <2>5 DEF upload_user_data, WriteData
  <2> QED BY <1>6, <2>4, <2>6, <2>7 DEF upload_user_data, WriteData
<1> QED BY <1>1, <1>2, <1>3, <1>4, <1>5, <1>6 DEF upload_user_data, Search

\* So does every other step: a new call, a reset, and no step at all.
LEMMA AuthOtherInv ==
    ASSUME AuthInv, AuthCall \/ AuthReset \/ UNCHANGED authVars
    PROVE  AuthInv'
<1> USE DEF AuthInv, AuthTypeInv, HomeInv, FoundInv, SizeInv, QuotaKept, AuthLabels, storage, search
<1>1. CASE AuthCall
  BY <1>1 DEF AuthCall
<1>2. CASE AuthReset
  BY <1>2 DEF AuthReset
<1>3. CASE UNCHANGED authVars
  BY <1>3 DEF authVars
<1> QED BY <1>1, <1>2, <1>3

\* The invariant of users and their storage.
THEOREM AuthInvariance == AuthSpec => []AuthInv
<1>1. AuthInv /\ [AuthNext]_authVars => AuthInv'
  BY AddUserInv, DeleteUserInv, UploadInv, AuthOtherInv DEF AuthNext
<1> QED BY AuthInitInv, <1>1, PTL DEF AuthSpec

\* No user's data ever passes the quota, though what is left of it is computed with the
\* sign reversed (upload_user_data).
THEOREM QuotaNeverPassed == AuthSpec => []QuotaKept
<1>1. AuthInv => QuotaKept
  BY DEF AuthInv
<1> QED BY AuthInvariance, <1>1, PTL

\* A token is only ever written for a user without data, whenever resets cut calls short
\* (add_user and delete_user).
THEOREM NoDataInherited == AuthSpec => FreshStart
<1> DEFINE FreshWrite ==
        \A u \in Users :
            token_of'[u] # token_of[u] /\ token_of'[u] # NoToken => data_of[u] = NoData
<1>1. ASSUME AuthInv, [AuthNext]_authVars PROVE FreshWrite
  <2>1. CASE AddToken
    BY <1>1, <2>1 DEF AddToken, Goto, AuthInv, HomeInv, AuthTypeInv
  <2>2. CASE DeleteToken
    BY <1>1, <2>2 DEF DeleteToken, AuthInv, AuthTypeInv
  <2>3. CASE add_user /\ ~AddToken
    BY <2>3 DEF add_user, AddUsersDir, MakeUsersDir, AddUserDir, MakeUserDir, storage
  <2>4. CASE delete_user /\ ~DeleteToken
    BY <2>4 DEF delete_user, DeleteCheck, DeleteData, DeleteDir, storage
  <2>5. CASE upload_user_data
    BY <2>5 DEF upload_user_data, Search, EnsureData, StatData, WriteData, storage
  <2>6. CASE AuthCall \/ AuthReset \/ UNCHANGED authVars
    BY <2>6 DEF AuthCall, AuthReset, authVars, storage
  <2> QED BY <1>1, <2>1, <2>2, <2>3, <2>4, <2>5, <2>6 DEF AuthNext
<1>2. AuthInv /\ [AuthNext]_authVars => [FreshWrite]_authVars
  BY <1>1
<1> QED BY AuthInvariance, <1>2, PTL DEF AuthSpec, FreshStart

\* Data never goes to a user with another token than the one in the command, although
\* tokens are compared in a buffer that keeps what was there before (get_user).
THEOREM UploadsReachTheirUser == AuthSpec => UploadsGoHome
<1> DEFINE HomeWrite ==
        \A u \in Users :
            data_of'[u] # data_of[u] /\ data_of'[u] # NoData =>
                token_of[u] \in {user_token, NoToken}
<1>1. ASSUME AuthInv, [AuthNext]_authVars PROVE HomeWrite
  <2>1. CASE EnsureData \/ WriteData
    BY <1>1, <2>1 DEF EnsureData, WriteData, Goto, AuthInv, FoundInv, AuthTypeInv
  <2>2. CASE DeleteData
    BY <1>1, <2>2 DEF DeleteData, AuthInv, AuthTypeInv
  <2>3. CASE delete_user /\ ~DeleteData
    BY <2>3 DEF delete_user, DeleteCheck, DeleteToken, DeleteDir, storage
  <2>4. CASE add_user
    BY <2>4 DEF add_user, AddUsersDir, MakeUsersDir, AddUserDir, MakeUserDir, AddToken, storage
  <2>5. CASE upload_user_data /\ ~(EnsureData \/ WriteData)
    BY <2>5 DEF upload_user_data, Search, StatData, storage
  <2>6. CASE AuthCall \/ AuthReset \/ UNCHANGED authVars
    BY <2>6 DEF AuthCall, AuthReset, authVars, storage
  <2> QED BY <1>1, <2>1, <2>2, <2>3, <2>4, <2>5, <2>6 DEF AuthNext
<1>2. AuthInv /\ [AuthNext]_authVars => [HomeWrite]_authVars
  BY <1>1
<1> QED BY AuthInvariance, <1>2, PTL DEF AuthSpec, UploadsGoHome

-----------------------------------------------------------------------------
(***************************************************************************)
(* The parser, for any sync bytes, any commands and any bytes, dropped and *)
(* mixed in any way.                                                       *)
(***************************************************************************)

BoolInv == command_enabled \in BOOLEAN /\ admin_on \in BOOLEAN

\* The inductive invariant.
CommandInv == BoolInv /\ EchoNeedsAdmin

-----------------------------------------------------------------------------

\* A command that is accepted and switches the echo comes from an admin.
LEMMA SwitchedByAdmin ==
    ASSUME NEW command, NEW who, command = "AX25_ON_OFF", Accepted(command, who)
    PROVE  who = AdminToken
BY DEF Accepted, Privileged

\* Executing a command keeps the invariant, wherever the parser goes on.
LEMMA ParseInv ==
    ASSUME CommandInv, NEW command, NEW who, parse_command_packet(command, who), parser_at' = "search"
    PROVE  CommandInv'
<1>1. BoolInv'
  BY DEF CommandInv, BoolInv, parse_command_packet
<1>2. command_enabled' => admin_on'
  <2>1. CASE command_enabled
    BY <2>1 DEF CommandInv, EchoNeedsAdmin, parse_command_packet
  <2>2. CASE ~command_enabled
    BY <2>2, SwitchedByAdmin DEF parse_command_packet
  <2> QED BY <2>1, <2>2
<1> QED BY <1>1, <1>2 DEF CommandInv, EchoNeedsAdmin

\* A byte the parser takes keeps it: a frame is only begun when frames are echoed.
LEMMA ByteInv ==
    ASSUME CommandInv, NEW b, SearchSync(b) \/ ReadFrame(b) \/ ReadHeader(b) \/ ReadPayload(b)
    PROVE  CommandInv'
<1>1. CASE SearchSync(b)
  BY <1>1 DEF SearchSync, Fresh, results, history, CommandInv, BoolInv, EchoNeedsAdmin
<1>2. CASE ReadFrame(b)
  BY <1>2 DEF ReadFrame, Fresh, results, history, CommandInv, BoolInv, EchoNeedsAdmin
<1>3. CASE ReadHeader(b)
  BY <1>3 DEF ReadHeader, Fresh, results, history, CommandInv, BoolInv, EchoNeedsAdmin
<1>4. CASE ReadPayload(b)
  <2> DEFINE who == IF taken = 0 THEN b ELSE token
  <2>1. CASE taken + 1 < PayloadSize
    BY <1>4, <2>1 DEF ReadPayload, results, history, CommandInv, BoolInv, EchoNeedsAdmin
  <2>2. CASE ~(taken + 1 < PayloadSize)
    <3>1. parse_command_packet(ApidOf[apid], who) /\ parser_at' = "search"
      BY <1>4, <2>2 DEF ReadPayload, Fresh
    <3> QED BY <3>1, ParseInv
  <2> QED BY <2>1, <2>2
<1> QED BY <1>1, <1>2, <1>3, <1>4

\* No byte of a frame is echoed before an admin has asked for it, whatever bytes came
\* before (is_admin and the AX25_ON_OFF case of parse_command_packet).
THEOREM EchoOnlyForAdmin == CommandSpec => []EchoNeedsAdmin
<1>1. CommandInit => CommandInv
  BY DEF CommandInit, CommandInv, BoolInv, EchoNeedsAdmin
<1>2. CommandInv /\ [CommandNext]_commandVars => CommandInv'
  <2>1. ASSUME CommandInv, command_task PROVE CommandInv'
    BY <2>1, ByteInv DEF command_task
  <2>2. ASSUME CommandInv, NEW s \in Sources, BeginSending(s) \/ receive_command_byte(s) PROVE CommandInv'
    BY <2>2 DEF BeginSending, receive_command_byte, parser, CommandInv, BoolInv, EchoNeedsAdmin
  <2>3. ASSUME CommandInv, BeginAnew \/ UNCHANGED commandVars PROVE CommandInv'
    BY <2>3 DEF BeginAnew, commandVars, parser, history, CommandInv, BoolInv, EchoNeedsAdmin
  <2> QED BY <2>1, <2>2, <2>3 DEF CommandNext
<1>3. CommandInv => EchoNeedsAdmin
  BY DEF CommandInv
<1> QED BY <1>1, <1>2, <1>3, PTL DEF CommandSpec

-----------------------------------------------------------------------------
(***************************************************************************)
(* The parser again: what is sent is parsed, for any packets that are made *)
(* as the ground makes them, and whatever begins no packet between them.   *)
(***************************************************************************)

\* What has still to reach the parser while only s may be sending.
Stream(s) == byte_queue \o left[s]

\* Where a byte of the stream comes from: the at-th of an input, and how many packets are
\* sent up to that input.
Label == [input : Packets \cup Fill, at : Nat, number : Nat]

NextByte(label) == [label EXCEPT !.at = @ + 1]
Ends(label) == label.at = Len(label.input)

\* The label of the first byte of an input before which number packets are sent.
Opens(label, number) ==
    label.at = 1 /\ label.number = IF label.input \in Packets THEN number + 1 ELSE number

\* The label is one of byte b.
Labels(label, b) ==
    /\ label.at \in 1 .. Len(label.input)
    /\ b = label.input[label.at]
    /\ label.number \in 0 .. Len(sent)
    /\ label.input \in Packets => label.number >= 1 /\ sent[label.number] = Said(label.input)

\* The next label goes on in the same input, or opens another one.
Continues(label, next) ==
    IF Ends(label) THEN Opens(next, label.number) ELSE next = NextByte(label)

\* The bytes of the stream are those of inputs, one after the other, the last one whole.
Labelled(stream, labels) ==
    /\ labels \in Seq(Label) /\ Len(labels) = Len(stream)
    /\ \A i \in 1 .. Len(stream) : Labels(labels[i], stream[i])
    /\ \A i \in 1 .. Len(stream) - 1 : Continues(labels[i], labels[i + 1])
    /\ stream # <<>> =>
          Ends(labels[Len(stream)]) /\ labels[Len(stream)].number = Len(sent)

\* The parser has taken the first n bytes of packet x.
InPacket(x, n) ==
    /\ n < Len(Sync) => parser_at = "search" /\ sync_index = n
    /\ n \in Len(Sync) .. Len(Sync) + 1 =>
          parser_at = "header" /\ taken = n - Len(Sync) /\ sync_index = 0
    /\ n > Len(Sync) => apid = x[Len(Sync) + 1]
    /\ n >= Len(Sync) + HeaderSize =>
          /\ parser_at = "payload" /\ taken = n - Len(Sync) - HeaderSize
          /\ size = x[Len(Sync) + HeaderSize]
    /\ n > Len(Sync) + HeaderSize => token = x[Len(Sync) + HeaderSize + 1]

\* It has taken the first n bytes of x, which is no packet.
InFill(x, n) ==
    \/ /\ parser_at = "search" /\ (n > 0 /\ IsFrame(x) => ~command_enabled)
       /\ \E found \in [0 .. Len(x) -> 0 .. Len(Sync) - 1] : NeverSyncs(x, found) /\ sync_index = found[n]
    \/ parser_at = "frame" /\ n > 0 /\ IsFrame(x) /\ taken = n

\* The byte of this label is the next one.
Awaits(label) ==
    IF label.input \in Packets
    THEN InPacket(label.input, label.at - 1) /\ label.number = Len(parsed) + 1
    ELSE InFill(label.input, label.at - 1) /\ label.number = Len(parsed)

AtStart == parser_at = "search" /\ sync_index = 0

\* What is still to be parsed is what is sent and not parsed.
InStep(stream, labels) ==
    IF stream = <<>> THEN AtStart /\ Len(parsed) = Len(sent) ELSE Awaits(labels[1])

StreamInv ==
    clean => \E s \in Sources :
                /\ \A t \in Sources \ {s} : left[t] = <<>>
                /\ \E labels \in Seq(Label) : Labelled(Stream(s), labels) /\ InStep(Stream(s), labels)

\* What is kept of a packet.
Saying == Nat \X Nat \X Nat

ParseTypeInv ==
    /\ byte_queue \in Seq(Nat) /\ left \in [Sources -> Seq(Nat)]
    /\ sent \in Seq(Saying) /\ parsed \in Seq(Saying)
    /\ parser_at \in {"search", "frame", "header", "payload"}
    /\ {sync_index, taken, apid, size, token} \subseteq Nat
    /\ parser_at = "search" => taken = 0

\* What is parsed is a beginning of what was sent.
PrefixInv ==
    clean => Len(parsed) <= Len(sent) /\ \A i \in 1 .. Len(parsed) : parsed[i] = sent[i]

\* The inductive invariant.
StreamIInv == ParseTypeInv /\ PrefixInv /\ StreamInv

-----------------------------------------------------------------------------

LEMMA SyncTypes ==
    /\ Sync \in Seq(Nat) /\ Len(Sync) \in Nat /\ Len(Sync) >= 1 /\ HeaderSize = 2
    /\ \A k \in 1 .. Len(Sync) : Sync[k] # AX25_FLAG /\ Sync[k] \in Nat
    /\ MsgLen \in Nat /\ Packets \subseteq Seq(Nat) /\ Fill \subseteq Seq(Nat)
<1>1. Sync \in Seq(Nat) /\ Sync # <<>> /\ MsgLen \in Nat /\ Packets \subseteq Seq(Nat) /\ Fill \subseteq Seq(Nat)
  BY CommandParserAssumption
<1>2. Len(Sync) \in Nat /\ Len(Sync) >= 1
  BY <1>1
<1>3. \A k \in 1 .. Len(Sync) : Sync[k] # AX25_FLAG /\ Sync[k] \in Nat
  BY <1>1, CommandParserAssumption
<1> QED BY <1>1, <1>2, <1>3 DEF HeaderSize

\* What a packet says is its header and the first byte of its payload.
LEMMA PacketSays ==
    ASSUME NEW x \in Packets
    PROVE  /\ IsPacket(x) /\ x \in Seq(Nat) /\ Len(x) \in Nat
           /\ Said(x) = <<x[Len(Sync) + 1], x[Len(Sync) + 2], x[Len(Sync) + 3]>>
           /\ Said(x) \in Saying
<1>1. IsPacket(x) /\ x \in Seq(Nat) /\ Len(x) \in Nat
  BY CommandParserAssumption
<1>2. Len(x) >= Len(Sync) + 3
  BY <1>1, SyncTypes DEF IsPacket
<1> DEFINE n == Len(Sync)
           m == n + 1
           heard == SubSeq(x, m, n + 3)
<1>3. n \in Nat /\ n + 1 \in Int /\ n + 3 \in Int
  BY SyncTypes
<1>4. Said(x) = heard
  <2>1. n + HeaderSize + 1 = n + 3
    BY SyncTypes
  <2> HIDE DEF n
  <2> QED BY <2>1 DEF Said, n
<1> HIDE DEF n
<1>5. \A i \in m .. n + 3 : x[i] \in Nat
  BY <1>1, <1>2, <1>3 DEF n
<1>6. m + 1 - 1 = n + 1 /\ m + 2 - 1 = n + 2 /\ m + 3 - 1 = n + 3 /\ n + 3 - m + 1 = 3 /\ m <= n + 3
  BY <1>3
<1>7. m \in Int
  BY <1>3
<1> HIDE DEF m
<1>8. heard \in Seq(Nat) /\ Len(heard) = 3 /\ \A i \in 1 .. 3 : heard[i] = x[m + i - 1]
  BY <1>3, <1>5, <1>6, <1>7, SubSeqProperties
<1>9. heard[1] = x[n + 1] /\ heard[2] = x[n + 2] /\ heard[3] = x[n + 3]
  BY <1>6, <1>8
<1>10. x[n + 1] \in Nat /\ x[n + 2] \in Nat /\ x[n + 3] \in Nat
  BY <1>3, <1>5 DEF m
<1> HIDE DEF heard
<1>11. heard = <<heard[1], heard[2], heard[3]>>
  <2> DEFINE three == <<heard[1], heard[2], heard[3]>>
  <2>1. three \in Seq(Nat) /\ Len(three) = 3 /\ three[1] = heard[1] /\ three[2] = heard[2] /\ three[3] = heard[3]
    BY <1>9, <1>10
  <2>2. \A i \in 1 .. 3 : heard[i] = three[i]
    <3> HIDE DEF three
    <3> QED BY <2>1
  <2> HIDE DEF three
  <2> QED BY <1>8, <2>1, <2>2, SeqEqual
<1>12. heard = <<x[n + 1], x[n + 2], x[n + 3]>>
  BY <1>9, <1>11
<1> QED BY <1>1, <1>4, <1>10, <1>12 DEF n, Saying

\* Types.
LEMMA ParseTypeInit == CommandInit => ParseTypeInv
BY DEF CommandInit, ParseTypeInv

LEMMA TakenTypes ==
    ASSUME ParseTypeInv, NEW b, TakeByte(b)
    PROVE  b \in Nat /\ byte_queue' \in Seq(Nat) /\ left' \in [Sources -> Seq(Nat)]
BY DEF ParseTypeInv, TakeByte

LEMMA ParseTypeByte ==
    ASSUME ParseTypeInv, NEW b, SearchSync(b) \/ ReadFrame(b) \/ ReadHeader(b) \/ ReadPayload(b)
    PROVE  ParseTypeInv'
<1>1. b \in Nat /\ byte_queue' \in Seq(Nat) /\ left' \in [Sources -> Seq(Nat)]
  BY TakenTypes DEF SearchSync, ReadFrame, ReadHeader, ReadPayload
<1>2. CASE SearchSync(b)
  BY <1>1, <1>2 DEF SearchSync, Fresh, results, history, read, ParseTypeInv
<1>3. CASE ReadFrame(b)
  BY <1>1, <1>3 DEF ReadFrame, Fresh, results, history, read, ParseTypeInv
<1>4. CASE ReadHeader(b)
  <2>1. <<>> \in Seq(Saying)
    BY EmptySeq
  <2>2. sent' \in Seq(Saying) /\ parsed' \in Seq(Saying)
    BY <1>4, <2>1 DEF ReadHeader, Muddle, results, history, ParseTypeInv
  <2>3. /\ parser_at' \in {"search", "header", "payload"}
        /\ {sync_index', taken', apid', size', token'} \subseteq Nat
        /\ parser_at' = "search" => taken' = 0
    BY <1>1, <1>4 DEF ReadHeader, Fresh, ParseTypeInv
  <2> QED BY <1>1, <2>2, <2>3 DEF ParseTypeInv
<1>5. CASE ReadPayload(b)
  <2> DEFINE who == IF taken = 0 THEN b ELSE token
  <2>1. who \in Nat
    BY <1>1 DEF ParseTypeInv
  <2>2. <<apid, size, who>> \in Saying /\ <<>> \in Seq(Saying)
    BY <2>1, EmptySeq DEF ParseTypeInv, Saying
  <2> HIDE DEF who
  <2>3. CASE taken + 1 < PayloadSize
    BY <1>1, <1>5, <2>1, <2>3 DEF ReadPayload, results, history, ParseTypeInv, who
  <2>4. CASE ~(taken + 1 < PayloadSize)
    <3>1. Fresh /\ sent' = sent /\ parsed' = IF clean THEN Append(parsed, <<apid, size, who>>) ELSE <<>>
      BY <1>5, <2>4 DEF ReadPayload, who
    <3>2. parsed' \in Seq(Saying)
      BY <2>2, <3>1 DEF ParseTypeInv
    <3> QED BY <1>1, <3>1, <3>2 DEF Fresh, ParseTypeInv
  <2> QED BY <2>3, <2>4
<1> QED BY <1>2, <1>3, <1>4, <1>5

LEMMA ParseTypeSource ==
    ASSUME ParseTypeInv, NEW s \in Sources, BeginSending(s) \/ receive_command_byte(s)
    PROVE  ParseTypeInv'
<1>1. CASE BeginSending(s)
  <2>1. PICK input \in Inputs[s] :
           /\ left' = [left EXCEPT ![s] = input]
           /\ clean' = (clean /\ Idle /\ input \in Packets \cup Fill)
           /\ sent' = IF ~clean' THEN <<>>
                      ELSE IF input \in Packets THEN Append(sent, Said(input)) ELSE sent
           /\ parsed' = IF clean' THEN parsed ELSE <<>>
    BY <1>1 DEF BeginSending
  <2>2. input \in Seq(Nat)
    BY CommandParserAssumption
  <2>3. sent' \in Seq(Saying) /\ parsed' \in Seq(Saying)
    BY <2>1, PacketSays, EmptySeq DEF ParseTypeInv
  <2> QED BY <1>1, <2>1, <2>2, <2>3 DEF BeginSending, parser, ParseTypeInv
<1>2. CASE receive_command_byte(s)
  <2>1. left[s] \in Seq(Nat) /\ left[s] # <<>>
    BY <1>2 DEF receive_command_byte, ParseTypeInv
  <2>2. Tail(left[s]) \in Seq(Nat) /\ Head(left[s]) \in Nat
    BY <2>1
  <2>3. left' \in [Sources -> Seq(Nat)]
    BY <1>2, <2>2 DEF receive_command_byte, ParseTypeInv
  <2>4. byte_queue' \in Seq(Nat)
    <3>1. byte_queue' = Append(byte_queue, Head(left[s])) \/ byte_queue' = byte_queue
      BY <1>2 DEF receive_command_byte
    <3>2. byte_queue \in Seq(Nat)
      BY DEF ParseTypeInv
    <3> QED BY <2>2, <3>1, <3>2, AppendProperties
  <2>5. sent' \in Seq(Saying) /\ parsed' \in Seq(Saying)
    <3>1. <<>> \in Seq(Saying)
      BY EmptySeq
    <3> QED BY <1>2, <3>1 DEF receive_command_byte, Muddle, ParseTypeInv
  <2> QED BY <1>2, <2>3, <2>4, <2>5 DEF receive_command_byte, parser, ParseTypeInv
<1> QED BY <1>1, <1>2

-----------------------------------------------------------------------------
(* What the parser makes of a byte of an input. *)

\* Which input it takes a byte of.
LEMMA LabelTypes ==
    ASSUME NEW label \in Label, NEW b, Labels(label, b)
    PROVE  /\ label.input \in Packets \cup Fill /\ label.input \in Seq(Nat)
           /\ label.at \in 1 .. Len(label.input) /\ label.at \in Nat /\ label.number \in Nat
           /\ NextByte(label) = [input |-> label.input, at |-> label.at + 1, number |-> label.number]
           /\ b = label.input[label.at]
<1>1. label.input \in Packets \cup Fill /\ label.at \in Nat /\ label.number \in Nat
  BY DEF Label
<1>2. label.input \in Seq(Nat)
  BY <1>1, SyncTypes
<1>3. NextByte(label) = [input |-> label.input, at |-> label.at + 1, number |-> label.number]
  BY DEF Label, NextByte
<1> QED BY <1>1, <1>2, <1>3 DEF Labels

\* Where things are in a packet.
LEMMA PacketShape ==
    ASSUME NEW x \in Packets, NEW L, L = Len(Sync)
    PROVE  /\ L \in Nat /\ L >= 1 /\ x \in Seq(Nat) /\ Len(x) \in Nat
           /\ \A j \in 1 .. L : x[j] = Sync[j] /\ Sync[j] # AX25_FLAG
           /\ x[L + 1] \in DOMAIN ApidOf
           /\ x[L + 2] \in Nat /\ Len(x) = L + 3 + x[L + 2]
<1>1. L \in Nat /\ L >= 1 /\ HeaderSize = 2 /\ \A j \in 1 .. L : Sync[j] # AX25_FLAG
  BY SyncTypes
<1>2. x \in Seq(Nat) /\ Len(x) \in Nat
  BY PacketSays
<1>3. /\ Len(x) > L + 2 /\ \A j \in 1 .. L : x[j] = Sync[j]
      /\ x[L + 1] \in DOMAIN ApidOf
      /\ Len(x) = L + 2 + x[L + 2] + 1
  BY <1>1, PacketSays DEF IsPacket
<1>4. x[L + 2] \in Nat
  <2>1. L + 2 \in 1 .. Len(x)
    BY <1>1, <1>2, <1>3
  <2> QED BY <1>2, <2>1, ElementOfSeq
<1>5. Len(x) = L + 3 + x[L + 2]
  <2> DEFINE more == x[L + 2]
  <2>1. more \in Nat /\ Len(x) = L + 2 + more + 1
    BY <1>3, <1>4
  <2> HIDE DEF more
  <2>2. Len(x) = L + 3 + more
    BY <1>1, <2>1
  <2> QED BY <2>2 DEF more
<1> QED BY <1>1, <1>2, <1>3, <1>4, <1>5

\* InPacket with the length of the sync word and the header by their numbers.
LEMMA InPacketIs ==
    ASSUME NEW x, NEW n, NEW L, L = Len(Sync)
    PROVE  InPacket(x, n) <=>
               /\ n < L => parser_at = "search" /\ sync_index = n
               /\ n \in L .. L + 1 => parser_at = "header" /\ taken = n - L /\ sync_index = 0
               /\ n > L => apid = x[L + 1]
               /\ n >= L + 2 => parser_at = "payload" /\ taken = n - L - 2 /\ size = x[L + 2]
               /\ n > L + 2 => token = x[L + 3]
<1>1. HeaderSize = 2 /\ Len(Sync) \in Nat /\ Len(Sync) + HeaderSize + 1 = Len(Sync) + 3
  BY SyncTypes
<1> QED BY <1>1 DEF InPacket

\* Taking the k-th byte of a packet, which is not the last one.
LEMMA PacketByte ==
    ASSUME ParseTypeInv, clean, clean',
           NEW x \in Packets, NEW k \in 1 .. Len(x) - 1, InPacket(x, k - 1), NEW b, b = x[k],
           SearchSync(b) \/ ReadFrame(b) \/ ReadHeader(b) \/ ReadPayload(b)
    PROVE  InPacket(x, k)' /\ parsed' = parsed /\ sent' = sent
<1> DEFINE L == Len(Sync)
           apid_byte == x[L + 1]
           more == x[L + 2]
           who == x[L + 3]
<1>1. /\ L \in Nat /\ L >= 1 /\ Len(x) \in Nat /\ k \in Nat /\ k >= 1 /\ k < Len(x)
      /\ more \in Nat /\ Len(x) = L + 3 + more
  <2>1. L \in Nat /\ L >= 1 /\ Len(x) \in Nat /\ more \in Nat /\ Len(x) = L + 3 + more
    BY PacketShape
  <2> HIDE DEF L, more
  <2> QED BY <2>1
<1>2. (\A j \in 1 .. L : x[j] = Sync[j] /\ Sync[j] # AX25_FLAG) /\ apid_byte \in DOMAIN ApidOf
  BY PacketShape
<1>3. /\ k - 1 < L => parser_at = "search" /\ sync_index = k - 1
      /\ k - 1 \in L .. L + 1 => parser_at = "header" /\ taken = k - 1 - L /\ sync_index = 0
      /\ k - 1 > L => apid = apid_byte
      /\ k - 1 >= L + 2 => parser_at = "payload" /\ taken = k - 1 - L - 2 /\ size = more
      /\ k - 1 > L + 2 => token = who
  BY InPacketIs
<1>4. InPacket(x, k)' <=>
          /\ k < L => parser_at' = "search" /\ sync_index' = k
          /\ k \in L .. L + 1 => parser_at' = "header" /\ taken' = k - L /\ sync_index' = 0
          /\ k > L => apid' = apid_byte
          /\ k >= L + 2 => parser_at' = "payload" /\ taken' = k - L - 2 /\ size' = more
          /\ k > L + 2 => token' = who
  <2>1. HeaderSize = 2 /\ Len(Sync) \in Nat /\ Len(Sync) + HeaderSize + 1 = Len(Sync) + 3
    BY SyncTypes
  <2> QED BY <2>1 DEF InPacket
<1>5. /\ k <= L => b = Sync[k] /\ b # AX25_FLAG
      /\ k = L + 1 => b = apid_byte
      /\ k = L + 2 => b = more
      /\ k = L + 3 => b = who
  <2>1. k <= L => k \in 1 .. L
    BY <1>1
  <2> QED BY <1>2, <2>1
<1>6. L = Len(Sync)
  OBVIOUS
<1> HIDE DEF L, apid_byte, more, who
<1>7. CASE k <= L
  <2>1. parser_at = "search" /\ sync_index = k - 1 /\ taken = 0 /\ sync_index + 1 = k
    <3>1. k - 1 < L /\ k - 1 + 1 = k
      BY <1>1, <1>7
    <3>2. parser_at = "search" /\ sync_index = k - 1
      BY <1>3, <3>1
    <3>3. taken = 0
      BY <3>2 DEF ParseTypeInv
    <3> QED BY <3>1, <3>2, <3>3
  <2>2. SearchSync(b)
    BY <2>1 DEF ReadFrame, ReadHeader, ReadPayload
  <2>3. parsed' = parsed /\ sent' = sent
    BY <2>2 DEF SearchSync, results, history
  <2>4. CASE k < L
    <3>1. parser_at' = "search" /\ sync_index' = k
      BY <1>5, <1>6, <1>7, <2>1, <2>2, <2>4 DEF SearchSync
    <3> QED BY <1>1, <1>4, <2>3, <2>4, <3>1
  <2>5. CASE k = L
    <3>1. parser_at' = "header" /\ sync_index' = 0 /\ taken' = 0
      BY <1>1, <1>5, <1>6, <1>7, <2>1, <2>2, <2>5 DEF SearchSync, read
    <3> QED BY <1>1, <1>4, <2>3, <2>5, <3>1
  <2> QED BY <1>1, <1>7, <2>4, <2>5
<1>8. CASE k = L + 1
  <2>1. parser_at = "header" /\ taken = 0 /\ sync_index = 0
    BY <1>1, <1>3, <1>8
  <2>2. ReadHeader(b)
    BY <2>1 DEF ReadFrame, SearchSync, ReadPayload
  <2>3. apid' = b /\ taken' = 1 /\ parser_at' = "header" /\ sync_index' = 0 /\ parsed' = parsed /\ sent' = sent
    BY <2>1, <2>2, SyncTypes DEF ReadHeader, results, history
  <2> QED BY <1>1, <1>4, <1>5, <1>8, <2>3
<1>9. CASE k = L + 2
  <2>1. parser_at = "header" /\ taken = 1 /\ apid = apid_byte
    BY <1>1, <1>3, <1>9
  <2>2. ReadHeader(b)
    BY <2>1 DEF ReadFrame, SearchSync, ReadPayload
  <2>3. Decodes(apid)
    BY <1>2, <2>1 DEF Decodes
  <2>4. size' = b /\ taken' = 0 /\ parser_at' = "payload" /\ apid' = apid /\ parsed' = parsed /\ sent' = sent
    BY <2>1, <2>2, <2>3, SyncTypes DEF ReadHeader, Muddle, results, history
  <2> QED BY <1>1, <1>4, <1>5, <1>9, <2>1, <2>4
<1>10. CASE k > L + 2
  <2>1. /\ parser_at = "payload" /\ taken = k - 1 - L - 2 /\ apid = apid_byte /\ size = more
        /\ k > L + 3 => token = who
    BY <1>1, <1>3, <1>10
  <2>2. ReadPayload(b)
    BY <2>1 DEF ReadFrame, SearchSync, ReadHeader
  <2>3. taken + 1 < PayloadSize
    BY <1>1, <1>10, <2>1 DEF PayloadSize
  <2>4. /\ token' = IF taken = 0 THEN b ELSE token
        /\ taken' = taken + 1 /\ parser_at' = "payload" /\ apid' = apid /\ size' = size /\ parsed' = parsed
        /\ sent' = sent
    BY <2>1, <2>2, <2>3 DEF ReadPayload, results, history
  <2>5. token' = who
    <3>1. CASE k = L + 3
      BY <1>1, <1>5, <2>1, <2>4, <3>1
    <3>2. CASE k > L + 3
      BY <1>1, <2>1, <2>4, <3>2
    <3> QED BY <1>1, <1>10, <3>1, <3>2
  <2> QED BY <1>1, <1>4, <1>10, <2>1, <2>4, <2>5
<1> QED BY <1>1, <1>7, <1>8, <1>9, <1>10

\* Taking the last one.
LEMMA PacketEnd ==
    ASSUME ParseTypeInv, clean, clean',
           NEW x \in Packets, InPacket(x, Len(x) - 1), NEW b, b = x[Len(x)],
           SearchSync(b) \/ ReadFrame(b) \/ ReadHeader(b) \/ ReadPayload(b)
    PROVE  AtStart' /\ parsed' = Append(parsed, Said(x)) /\ sent' = sent
<1> DEFINE L == Len(Sync)
           k == Len(x)
           apid_byte == x[L + 1]
           more == x[L + 2]
           last == x[L + 3]
<1>1. L \in Nat /\ k \in Nat /\ more \in Nat /\ k = L + 3 + more
  BY PacketShape
<1>2. /\ k - 1 > L => apid = apid_byte
      /\ k - 1 >= L + 2 => parser_at = "payload" /\ taken = k - 1 - L - 2 /\ size = more
      /\ k - 1 > L + 2 => token = last
  BY InPacketIs
<1>3. b = x[k] /\ (k = L + 3 => b = last)
  OBVIOUS
<1>4. Said(x) = <<apid_byte, more, last>>
  BY PacketSays
<1> HIDE DEF L, k, apid_byte, more, last
<1>5. /\ parser_at = "payload" /\ taken = more /\ apid = apid_byte /\ size = more
      /\ more > 0 => token = last
  BY <1>1, <1>2
<1>6. ReadPayload(b)
  BY <1>5 DEF ReadFrame, SearchSync, ReadHeader
<1>7. ~(taken + 1 < PayloadSize)
  BY <1>1, <1>5 DEF PayloadSize
<1> DEFINE who == IF taken = 0 THEN b ELSE token
<1>8. parsed' = Append(parsed, <<apid, size, who>>) /\ Fresh /\ sent' = sent
  BY <1>6, <1>7 DEF ReadPayload
<1>9. who = last
  BY <1>1, <1>3, <1>5
<1> QED BY <1>4, <1>5, <1>8, <1>9 DEF Fresh, AtStart

\* Taking the k-th byte of what is no packet.
LEMMA FillByte ==
    ASSUME ParseTypeInv, NEW x \in Fill, NEW k \in 1 .. Len(x), InFill(x, k - 1), NEW b, b = x[k],
           SearchSync(b) \/ ReadFrame(b) \/ ReadHeader(b) \/ ReadPayload(b)
    PROVE  InFill(x, k)' /\ parsed' = parsed /\ sent' = sent /\ (k = Len(x) => AtStart')
<1>1. /\ x \in Seq(Nat) /\ Len(x) \in Nat /\ Len(x) >= 1 /\ k \in Nat /\ k >= 1 /\ k <= Len(x)
      /\ HasNoFlag(x) \/ IsFrame(x)
  <2>1. x \in Seq(Nat) /\ x # <<>> /\ (HasNoFlag(x) \/ IsFrame(x))
    BY CommandParserAssumption
  <2> QED BY <2>1
<1>2. CASE parser_at = "frame"
  <2>1. k - 1 > 0 /\ IsFrame(x) /\ taken = k - 1
    BY <1>2 DEF InFill
  <2>2. ReadFrame(b)
    BY <1>2 DEF SearchSync, ReadHeader, ReadPayload
  <2>3. taken < MsgLen
    BY <1>1, <2>1, SyncTypes DEF IsFrame
  <2>4. parsed' = parsed /\ sent' = sent
    BY <2>2 DEF ReadFrame, results, history
  <2>5. CASE k = Len(x)
    <3>1. b = AX25_FLAG
      BY <1>1, <2>1, <2>5 DEF IsFrame
    <3>2. AtStart'
      BY <2>2, <3>1 DEF ReadFrame, Fresh, AtStart
    <3>3. InFill(x, k)'
      <4>1. PICK found \in [0 .. Len(x) -> 0 .. Len(Sync) - 1] : NeverSyncs(x, found)
        BY CommandParserAssumption
      <4>2. found[k] = 0
        BY <2>5, <4>1 DEF NeverSyncs
      <4> QED BY <3>2, <4>1, <4>2 DEF InFill, AtStart
    <3> QED BY <2>4, <3>2, <3>3
  <2>6. CASE k # Len(x)
    <3>1. b # AX25_FLAG
      BY <1>1, <2>1, <2>6 DEF IsFrame
    <3>2. taken' = k /\ parser_at' = "frame"
      BY <1>1, <1>2, <2>1, <2>2, <2>3, <3>1, SyncTypes DEF ReadFrame
    <3> QED BY <1>1, <2>1, <2>4, <2>6, <3>2 DEF InFill
  <2> QED BY <2>5, <2>6
<1>3. CASE parser_at # "frame"
  <2>1. parser_at = "search" /\ (k - 1 > 0 /\ IsFrame(x) => ~command_enabled)
    BY <1>3 DEF InFill
  <2>2. PICK found \in [0 .. Len(x) -> 0 .. Len(Sync) - 1] : NeverSyncs(x, found) /\ sync_index = found[k - 1]
    BY <1>3 DEF InFill
  <2>3. SearchSync(b)
    BY <2>1 DEF ReadFrame, ReadHeader, ReadPayload
  <2>4. parsed' = parsed /\ sent' = sent /\ command_enabled' = command_enabled
    BY <2>3 DEF SearchSync, results, history
  <2>5. /\ found[k] = IF b = Sync[sync_index + 1] THEN sync_index + 1 ELSE 0
        /\ found[k] \in 0 .. Len(Sync) - 1 /\ sync_index \in 0 .. Len(Sync) - 1
        /\ found[Len(x)] = 0
    <3>1. k - 1 \in 0 .. Len(x) /\ k \in 0 .. Len(x)
      BY <1>1
    <3> QED BY <1>1, <2>2, <3>1 DEF NeverSyncs
  <2>6. CASE b = AX25_FLAG /\ command_enabled
    <3>1. IsFrame(x) /\ k = 1
      <4>1. IsFrame(x)
        BY <1>1, <2>6 DEF HasNoFlag
      <4>2. ~(k - 1 > 0)
        BY <2>1, <2>6, <4>1
      <4> QED BY <1>1, <4>1, <4>2
    <3>2. parser_at' = "frame" /\ taken' = 1
      BY <2>3, <2>6 DEF SearchSync
    <3>3. Len(x) # 1
      BY <1>1, <3>1 DEF IsFrame
    <3> QED BY <2>4, <3>1, <3>2, <3>3 DEF InFill
  <2>7. CASE b = AX25_FLAG /\ ~command_enabled
    <3>1. parser_at' = "search" /\ sync_index' = 0
      BY <2>3, <2>7 DEF SearchSync, Fresh
    <3>2. found[k] = 0
      <4>1. b # Sync[sync_index + 1]
        BY <2>5, <2>7, SyncTypes
      <4> QED BY <2>5, <4>1
    <3> QED BY <2>2, <2>4, <2>7, <3>1, <3>2 DEF InFill, AtStart
  <2>8. CASE b # AX25_FLAG
    <3>1. parser_at' = "search" /\ sync_index' = found[k]
      BY <2>1, <2>3, <2>5, <2>8, SyncTypes DEF SearchSync
    <3>2. k > 0 /\ IsFrame(x) => ~command_enabled'
      <4>1. ASSUME IsFrame(x) PROVE k # 1
        BY <1>1, <2>8, <4>1 DEF IsFrame
      <4> QED BY <1>1, <2>1, <2>4, <4>1
    <3>3. InFill(x, k)'
      BY <2>2, <3>1, <3>2 DEF InFill
    <3> QED BY <2>4, <2>5, <3>1, <3>3 DEF AtStart
  <2> QED BY <2>6, <2>7, <2>8
<1> QED BY <1>2, <1>3

-----------------------------------------------------------------------------
(* The stream. *)

\* At its start the parser is ready for the first byte of any input.
LEMMA OpensAwaited ==
    ASSUME NEW label \in Label, NEW number \in Nat, Opens(label, number),
           ParseTypeInv', AtStart', Len(parsed') = number
    PROVE  Awaits(label)'
<1>1. label.at - 1 = 0 /\ label.input \in Packets \cup Fill /\ Len(parsed') \in Nat
  BY DEF Opens, Label
<1>2. CASE label.input \in Packets
  <2>1. InPacket(label.input, 0)'
    BY SyncTypes DEF InPacket, AtStart
  <2>2. label.number = Len(parsed') + 1
    BY <1>2 DEF Opens
  <2> QED BY <1>1, <1>2, <2>1, <2>2 DEF Awaits
<1>3. CASE label.input \notin Packets
  <2>1. PICK found \in [0 .. Len(label.input) -> 0 .. Len(Sync) - 1] : NeverSyncs(label.input, found)
    BY <1>1, <1>3, CommandParserAssumption
  <2>2. found[0] = 0
    BY <2>1 DEF NeverSyncs
  <2>3. InFill(label.input, 0)'
    BY <2>1, <2>2 DEF InFill, AtStart
  <2>4. label.number = Len(parsed')
    BY <1>3 DEF Opens
  <2> QED BY <1>1, <1>3, <2>3, <2>4 DEF Awaits
<1> QED BY <1>2, <1>3

\* A byte taken from the queue is the first of the stream.
LEMMA FirstTaken ==
    ASSUME ParseTypeInv, NEW s \in Sources, NEW b, TakeByte(b)
    PROVE  /\ Stream(s) \in Seq(Nat) /\ Stream(s) # <<>> /\ b = Stream(s)[1]
           /\ Stream(s)' \in Seq(Nat) /\ Len(Stream(s)') = Len(Stream(s)) - 1
           /\ \A i \in 1 .. Len(Stream(s)) - 1 : Stream(s)'[i] = Stream(s)[i + 1]
<1> DEFINE q == byte_queue
           rest == left[s]
<1>1. q \in Seq(Nat) /\ rest \in Seq(Nat) /\ q # <<>> /\ b = Head(q) /\ Stream(s) = q \o rest
      /\ Stream(s)' = Tail(q) \o rest
  BY DEF ParseTypeInv, TakeByte, Stream
<1> HIDE DEF q, rest
<1>2. /\ Tail(q) \in Seq(Nat) /\ Len(Tail(q)) = Len(q) - 1 /\ b = q[1]
      /\ Len(q) \in Nat /\ Len(q) >= 1 /\ Len(rest) \in Nat
      /\ \A i \in 1 .. Len(q) - 1 : Tail(q)[i] = q[i + 1]
  BY <1>1
<1>3. /\ Stream(s) \in Seq(Nat) /\ Len(Stream(s)) = Len(q) + Len(rest)
      /\ \A i \in 1 .. Len(q) + Len(rest) : Stream(s)[i] = IF i <= Len(q) THEN q[i] ELSE rest[i - Len(q)]
  BY <1>1, ConcatProperties
<1>4. /\ Stream(s)' \in Seq(Nat) /\ Len(Stream(s)') = Len(q) - 1 + Len(rest)
      /\ \A i \in 1 .. Len(q) - 1 + Len(rest) :
            Stream(s)'[i] = IF i <= Len(q) - 1 THEN Tail(q)[i] ELSE rest[i - (Len(q) - 1)]
  BY <1>1, <1>2, ConcatProperties
<1>5. ASSUME NEW i \in 1 .. Len(Stream(s)) - 1 PROVE Stream(s)'[i] = Stream(s)[i + 1]
  <2>1. i \in 1 .. Len(q) - 1 + Len(rest) /\ i + 1 \in 1 .. Len(q) + Len(rest)
    BY <1>2, <1>3
  <2>2. CASE i <= Len(q) - 1
    <3>1. i + 1 <= Len(q) /\ i \in 1 .. Len(q) - 1
      BY <1>2, <2>1, <2>2
    <3> QED BY <1>2, <1>3, <1>4, <2>1, <2>2, <3>1
  <2>3. CASE ~(i <= Len(q) - 1)
    <3>1. ~(i + 1 <= Len(q)) /\ i - (Len(q) - 1) = i + 1 - Len(q)
      BY <1>2, <2>1, <2>3
    <3>2. Stream(s)'[i] = rest[i - (Len(q) - 1)]
      BY <1>4, <2>1, <2>3
    <3>3. Stream(s)[i + 1] = rest[i + 1 - Len(q)]
      BY <1>3, <2>1, <3>1
    <3> QED BY <3>1, <3>2, <3>3
  <2> QED BY <2>2, <2>3
<1>6. Stream(s) # <<>> /\ b = Stream(s)[1] /\ Len(Stream(s)') = Len(Stream(s)) - 1
  <2>1. Len(Stream(s)) >= 1 /\ 1 \in 1 .. Len(q) + Len(rest) /\ 1 <= Len(q)
    BY <1>2, <1>3
  <2>2. Len(q) - 1 + Len(rest) = Len(q) + Len(rest) - 1
    BY <1>2
  <2> QED BY <1>2, <1>3, <1>4, <2>1, <2>2
<1> QED BY <1>3, <1>4, <1>5, <1>6

\* With the byte of a label the parser goes on to the next one, or comes to the end.
LEMMA Advance ==
    ASSUME ParseTypeInv, clean, clean', NEW label \in Label, NEW b, Labels(label, b), Awaits(label),
           SearchSync(b) \/ ReadFrame(b) \/ ReadHeader(b) \/ ReadPayload(b)
    PROVE  /\ sent' = sent
           /\ Ends(label) => AtStart' /\ Len(parsed') = label.number
           /\ ~Ends(label) => Awaits(NextByte(label))'
           /\ \/ parsed' = parsed
              \/ /\ label.number = Len(parsed) + 1 /\ label.number \in 1 .. Len(sent)
                 /\ parsed' = Append(parsed, sent[label.number])
<1> DEFINE x == label.input
           k == label.at
<1>1. /\ x \in Packets \cup Fill /\ x \in Seq(Nat) /\ k \in 1 .. Len(x) /\ k \in Nat /\ label.number \in Nat
      /\ NextByte(label) = [input |-> x, at |-> k + 1, number |-> label.number]
      /\ b = x[k] /\ Len(parsed) \in Nat /\ Len(sent) \in Nat
  BY LabelTypes DEF ParseTypeInv
<1>2. /\ NextByte(label).input = x /\ NextByte(label).at - 1 = k /\ NextByte(label).number = label.number
  BY <1>1
<1>3. CASE x \in Packets
  <2>1. InPacket(x, k - 1) /\ label.number = Len(parsed) + 1
    BY <1>3 DEF Awaits
  <2>2. CASE k = Len(x)
    <3>1. AtStart' /\ parsed' = Append(parsed, Said(x)) /\ sent' = sent
      BY <1>1, <1>3, <2>1, <2>2, PacketEnd
    <3>2. label.number \in 1 .. Len(sent) /\ sent[label.number] = Said(x)
      BY <1>1, <1>3 DEF Labels
    <3>3. Len(parsed') = Len(parsed) + 1
      BY <1>3, <3>1, PacketSays DEF ParseTypeInv
    <3> QED BY <2>1, <2>2, <3>1, <3>2, <3>3 DEF Ends
  <2>3. CASE k # Len(x)
    <3>1. k \in 1 .. Len(x) - 1
      BY <1>1, <2>3
    <3>2. InPacket(x, k)' /\ parsed' = parsed /\ sent' = sent
      BY <1>1, <1>3, <2>1, <3>1, PacketByte
    <3>3. Awaits(NextByte(label))'
      BY <1>2, <1>3, <2>1, <3>2 DEF Awaits
    <3> QED BY <2>3, <3>2, <3>3 DEF Ends
  <2> QED BY <2>2, <2>3
<1>4. CASE x \notin Packets
  <2>1. InFill(x, k - 1) /\ label.number = Len(parsed) /\ x \in Fill
    BY <1>1, <1>4 DEF Awaits
  <2>2. InFill(x, k)' /\ parsed' = parsed /\ sent' = sent /\ (k = Len(x) => AtStart')
    BY <1>1, <2>1, FillByte
  <2>3. Awaits(NextByte(label))'
    BY <1>2, <1>4, <2>1, <2>2 DEF Awaits
  <2> QED BY <2>1, <2>2, <2>3 DEF Ends
<1> QED BY <1>3, <1>4

\* A byte is taken from a stream that is labelled, and the parser with it.
LEMMA ByteKeepsStream ==
    ASSUME ParseTypeInv, ParseTypeInv', PrefixInv, StreamInv, clean, clean', NEW b,
           SearchSync(b) \/ ReadFrame(b) \/ ReadHeader(b) \/ ReadPayload(b)
    PROVE  PrefixInv' /\ StreamInv'
<1>1. TakeByte(b) /\ left' = left
  BY DEF SearchSync, ReadFrame, ReadHeader, ReadPayload, TakeByte
<1>2. PICK s \in Sources :
         /\ \A t \in Sources \ {s} : left[t] = <<>>
         /\ \E labels \in Seq(Label) : Labelled(Stream(s), labels) /\ InStep(Stream(s), labels)
  BY DEF StreamInv
<1>3. PICK labels \in Seq(Label) : Labelled(Stream(s), labels) /\ InStep(Stream(s), labels)
  BY <1>2
<1> DEFINE n == Len(Stream(s))
           label == labels[1]
           others == Tail(labels)
<1>4. /\ Stream(s) \in Seq(Nat) /\ Stream(s) # <<>> /\ b = Stream(s)[1] /\ n \in Nat /\ n >= 1
      /\ Stream(s)' \in Seq(Nat) /\ Len(Stream(s)') = n - 1
      /\ \A i \in 1 .. n - 1 : Stream(s)'[i] = Stream(s)[i + 1]
  <2>1. /\ Stream(s) \in Seq(Nat) /\ Stream(s) # <<>> /\ b = Stream(s)[1]
        /\ Stream(s)' \in Seq(Nat) /\ Len(Stream(s)') = n - 1
        /\ \A i \in 1 .. n - 1 : Stream(s)'[i] = Stream(s)[i + 1]
    BY <1>1, FirstTaken
  <2> QED BY <2>1
<1>5. /\ Len(labels) = n
      /\ \A i \in 1 .. n : Labels(labels[i], Stream(s)[i])
      /\ \A i \in 1 .. n - 1 : Continues(labels[i], labels[i + 1])
      /\ Ends(labels[n]) /\ labels[n].number = Len(sent)
  BY <1>3, <1>4 DEF Labelled
<1>6. label \in Label /\ Labels(label, b) /\ Awaits(label)
  BY <1>3, <1>4, <1>5 DEF InStep
<1>7. /\ others \in Seq(Label) /\ Len(others) = n - 1
      /\ \A i \in 1 .. n - 1 : others[i] = labels[i + 1]
  <2>1. labels # <<>>
    BY <1>4, <1>5
  <2> QED BY <1>5, <2>1, HeadTailProperties
<1>8. /\ sent' = sent
      /\ Ends(label) => AtStart' /\ Len(parsed') = label.number
      /\ ~Ends(label) => Awaits(NextByte(label))'
      /\ \/ parsed' = parsed
         \/ /\ label.number = Len(parsed) + 1 /\ label.number \in 1 .. Len(sent)
            /\ parsed' = Append(parsed, sent[label.number])
  BY <1>6, Advance
<1> HIDE DEF n, others
<1>9. Labelled(Stream(s), others)'
  <2>1. ASSUME NEW i \in 1 .. n - 1 PROVE Labels(others[i], Stream(s)[i])'
    <3>1. i + 1 \in 1 .. n
      BY <1>4
    <3>2. Labels(labels[i + 1], Stream(s)[i + 1])
      BY <1>5, <3>1
    <3> QED BY <1>4, <1>7, <1>8, <3>2 DEF Labels
  <2>2. ASSUME NEW i \in 1 .. n - 1 - 1 PROVE Continues(others[i], others[i + 1])
    <3>1. i + 1 \in 1 .. n - 1 /\ i \in 1 .. n - 1
      BY <1>4
    <3>2. Continues(labels[i + 1], labels[i + 1 + 1])
      BY <1>5, <3>1
    <3> QED BY <1>7, <3>1, <3>2
  <2>3. Stream(s)' # <<>> => Ends(others[n - 1]) /\ others[n - 1].number = Len(sent')
    <3>1. ASSUME Stream(s)' # <<>> PROVE n - 1 \in 1 .. n - 1 /\ n - 1 + 1 = n
      BY <1>4, <3>1
    <3> QED BY <1>5, <1>7, <1>8, <3>1
  <2> QED BY <1>4, <1>7, <2>1, <2>2, <2>3 DEF Labelled
<1>10. InStep(Stream(s), others)'
  <2>1. CASE Stream(s)' = <<>>
    <3>1. n = 1
      BY <1>4, <2>1
    <3> QED BY <1>5, <1>8, <2>1, <3>1 DEF InStep
  <2>2. CASE Stream(s)' # <<>>
    <3>1. 1 \in 1 .. n - 1 /\ 1 + 1 = 2
      BY <1>4, <2>2
    <3>2. others[1] = labels[2] /\ Continues(label, labels[2]) /\ labels[2] \in Label
      <4>1. others[1] \in Label
        BY <1>7, <3>1, ElementOfSeq
      <4> QED BY <1>5, <1>7, <3>1, <4>1
    <3>3. Awaits(labels[2])'
      <4>1. CASE Ends(label)
        <5>1. Opens(labels[2], label.number) /\ label.number \in Nat
          BY <1>6, <3>2, <4>1 DEF Continues, Label
        <5> QED BY <1>8, <3>2, <4>1, <5>1, OpensAwaited
      <4>2. CASE ~Ends(label)
        BY <1>8, <3>2, <4>2 DEF Continues
      <4> QED BY <4>1, <4>2
    <3> QED BY <2>2, <3>2, <3>3 DEF InStep
  <2> QED BY <2>1, <2>2
<1>11. StreamInv'
  BY <1>1, <1>2, <1>7, <1>9, <1>10 DEF StreamInv
<1>12. PrefixInv'
  <2>1. CASE parsed' = parsed
    BY <1>8, <2>1 DEF PrefixInv
  <2>2. CASE parsed' # parsed
    <3>1. /\ label.number = Len(parsed) + 1 /\ label.number \in 1 .. Len(sent)
          /\ parsed' = Append(parsed, sent[label.number])
      BY <1>8, <2>2
    <3>2. parsed \in Seq(Saying) /\ sent \in Seq(Saying) /\ Len(parsed) \in Nat
      BY DEF ParseTypeInv
    <3>3. sent[label.number] \in Saying
      BY <3>1, <3>2, ElementOfSeq
    <3>4. /\ Len(parsed') = Len(parsed) + 1
          /\ \A i \in 1 .. Len(parsed) : parsed'[i] = parsed[i]
          /\ parsed'[Len(parsed) + 1] = sent[Len(parsed) + 1]
      BY <3>1, <3>2, <3>3, AppendProperties
    <3>5. \A i \in 1 .. Len(parsed) : parsed[i] = sent[i]
      BY DEF PrefixInv
    <3> QED BY <1>8, <3>1, <3>2, <3>4, <3>5 DEF PrefixInv
  <2> QED BY <2>1, <2>2
<1> QED BY <1>11, <1>12

\* A byte that is put in the queue stays in the stream.
LEMMA PassedOn ==
    ASSUME ParseTypeInv, NEW s \in Sources, receive_command_byte(s), clean'
    PROVE  Stream(s)' = Stream(s) /\ parsed' = parsed /\ sent' = sent /\ clean
<1> DEFINE q == byte_queue
           l == left[s]
<1>1. q \in Seq(Nat) /\ l \in Seq(Nat) /\ l # <<>> /\ left'[s] = Tail(l)
  BY DEF ParseTypeInv, receive_command_byte
<1>2. byte_queue' = Append(q, Head(l)) /\ parsed' = parsed /\ sent' = sent /\ clean
  BY DEF receive_command_byte, Muddle
<1>3. Stream(s) = q \o l /\ Stream(s)' = Append(q, Head(l)) \o Tail(l)
  BY <1>1, <1>2 DEF Stream
<1> HIDE DEF q, l
<1>4. Head(l) \in Nat /\ Tail(l) \in Seq(Nat) /\ <<Head(l)>> \in Seq(Nat)
  BY <1>1
<1>5. Append(q, Head(l)) = q \o <<Head(l)>>
  BY <1>1, <1>4, AppendIsConcat
<1>6. (q \o <<Head(l)>>) \o Tail(l) = q \o (<<Head(l)>> \o Tail(l))
  BY <1>1, <1>4, ConcatAssociative
<1>7. <<Head(l)>> \o Tail(l) = l
  BY <1>1, <1>4
<1> QED BY <1>2, <1>3, <1>5, <1>6, <1>7

LEMMA ReceiveKeepsStream ==
    ASSUME ParseTypeInv, PrefixInv, StreamInv, NEW s \in Sources, receive_command_byte(s), clean'
    PROVE  PrefixInv' /\ StreamInv'
<1>1. parsed' = parsed /\ sent' = sent /\ clean /\ Stream(s)' = Stream(s)
  BY PassedOn
<1>2. PICK t \in Sources :
         /\ \A u \in Sources \ {t} : left[u] = <<>>
         /\ \E labels \in Seq(Label) : Labelled(Stream(t), labels) /\ InStep(Stream(t), labels)
  BY <1>1 DEF StreamInv
<1>3. t = s
  BY <1>2 DEF receive_command_byte
<1>4. PICK labels \in Seq(Label) : Labelled(Stream(s), labels) /\ InStep(Stream(s), labels)
  BY <1>2, <1>3
<1>5. \A u \in Sources \ {s} : left'[u] = <<>>
  BY <1>2, <1>3 DEF receive_command_byte, ParseTypeInv
<1>6. Labelled(Stream(s), labels)'
  BY <1>1, <1>4 DEF Labelled, Labels
<1>7. InStep(Stream(s), labels)'
  BY <1>1, <1>4 DEF InStep, AtStart, Awaits, InPacket, InFill, receive_command_byte, parser
<1>8. StreamInv'
  BY <1>5, <1>6, <1>7 DEF StreamInv
<1> QED BY <1>1, <1>8 DEF PrefixInv

\* The elements of two sequences, one behind the other.
LEMMA Behind ==
    ASSUME NEW S, NEW first \in Seq(S), NEW second \in Seq(S), NEW both, both = first \o second
    PROVE  /\ both \in Seq(S) /\ Len(both) = Len(first) + Len(second)
           /\ \A i \in 1 .. Len(first) : both[i] = first[i]
           /\ \A k \in 1 .. Len(second) : both[Len(first) + k] = second[k]
<1> DEFINE n == Len(first)
<1>1. n \in Nat /\ Len(second) \in Nat
  OBVIOUS
<1>2. /\ both \in Seq(S) /\ Len(both) = n + Len(second)
      /\ \A i \in 1 .. n + Len(second) : both[i] = IF i <= n THEN first[i] ELSE second[i - n]
  BY ConcatProperties
<1> HIDE DEF n
<1>3. ASSUME NEW i \in 1 .. n PROVE both[i] = first[i]
  <2>1. i \in 1 .. n + Len(second) /\ i <= n
    BY <1>1
  <2> QED BY <1>2, <2>1
<1>4. ASSUME NEW k \in 1 .. Len(second) PROVE both[n + k] = second[k]
  <2>1. PICK j \in 1 .. n + Len(second) : j = n + k
    BY <1>1
  <2>2. ~(j <= n) /\ j - n = k
    BY <1>1, <2>1
  <2>3. both[j] = second[j - n]
    BY <1>2, <2>2
  <2> QED BY <2>1, <2>2, <2>3
<1> QED BY <1>2, <1>3, <1>4 DEF n

\* An input that is sent while no other is gets labels of its own behind the others.
LEMMA SendKeepsStream ==
    ASSUME ParseTypeInv, ParseTypeInv', PrefixInv, StreamInv, NEW s \in Sources, BeginSending(s), clean'
    PROVE  PrefixInv' /\ StreamInv'
<1>1. PICK x \in Inputs[s] :
         /\ left' = [left EXCEPT ![s] = x]
         /\ clean' = (clean /\ Idle /\ x \in Packets \cup Fill)
         /\ sent' = IF ~clean' THEN <<>>
                    ELSE IF x \in Packets THEN Append(sent, Said(x)) ELSE sent
         /\ parsed' = IF clean' THEN parsed ELSE <<>>
  BY DEF BeginSending
<1>2. /\ clean /\ Idle /\ x \in Packets \cup Fill /\ parsed' = parsed
      /\ sent' = IF x \in Packets THEN Append(sent, Said(x)) ELSE sent
      /\ byte_queue' = byte_queue /\ UNCHANGED parser /\ command_enabled' = command_enabled
  BY <1>1 DEF BeginSending
<1>3. PICK t \in Sources :
         \E labels \in Seq(Label) : Labelled(Stream(t), labels) /\ InStep(Stream(t), labels)
  BY <1>2 DEF StreamInv
<1>4. PICK labels \in Seq(Label) : Labelled(Stream(t), labels) /\ InStep(Stream(t), labels)
  BY <1>3
<1>5. Stream(t) = byte_queue /\ byte_queue \in Seq(Nat)
  <2>1. left[t] = <<>> /\ byte_queue \in Seq(Nat)
    BY <1>2 DEF Idle, ParseTypeInv
  <2> QED BY <2>1, ConcatEmptySeq DEF Stream
<1> DEFINE n == Len(byte_queue)
           m == Len(x)
<1>6. x \in Seq(Nat) /\ x # <<>> /\ m \in Nat /\ m >= 1 /\ n \in Nat
  <2>1. x \in Seq(Nat) /\ x # <<>>
    <3>1. CASE x \in Packets
      <4>1. x \in Seq(Nat) /\ IsPacket(x)
        BY <3>1, PacketSays
      <4>2. Len(x) # 0
        BY <4>1, SyncTypes DEF IsPacket
      <4> QED BY <4>1, <4>2
    <3>2. CASE x \in Fill
      BY <3>2, CommandParserAssumption
    <3> QED BY <1>2, <3>1, <3>2
  <2> QED BY <1>5, <2>1
<1>7. PICK number \in Nat :
      /\ number = Len(sent') /\ Len(sent) \in Nat
      /\ number = IF x \in Packets THEN Len(sent) + 1 ELSE Len(sent)
      /\ \A i \in 1 .. Len(sent) : sent'[i] = sent[i]
      /\ x \in Packets => number \in 1 .. number /\ sent'[number] = Said(x)
  <2>1. sent \in Seq(Saying) /\ Len(sent) \in Nat
    BY DEF ParseTypeInv
  <2>2. CASE x \in Packets
    <3>1. Said(x) \in Saying /\ sent' = Append(sent, Said(x))
      BY <1>2, <2>2, PacketSays
    <3> QED BY <2>1, <2>2, <3>1, AppendProperties
  <2>3. CASE x \notin Packets
    BY <1>2, <2>1, <2>3
  <2> QED BY <2>2, <2>3
<1>8. PICK own \in Seq(Label) :
         /\ Len(own) = m
         /\ \A k \in 1 .. m : own[k] = [input |-> x, at |-> k, number |-> number]
  <2> DEFINE new == [k \in 1 .. m |-> [input |-> x, at |-> k, number |-> number]]
  <2>1. \A k \in 1 .. m : [input |-> x, at |-> k, number |-> number] \in Label
    BY <1>2, <1>6, <1>7 DEF Label
  <2>2. new \in [1 .. m -> Label] /\ \A k \in 1 .. m : new[k] = [input |-> x, at |-> k, number |-> number]
    BY <2>1
  <2> HIDE DEF new
  <2>3. new \in Seq(Label) /\ Len(new) = m
    <3> HIDE DEF m
    <3>1. new \in Seq(Label) /\ DOMAIN new = 1 .. m
      BY <1>6, <2>2, SeqDef
    <3> QED BY <1>6, <3>1, LenProperties
  <2> QED BY <2>2, <2>3
<1>9. /\ Len(labels) = n
      /\ \A i \in 1 .. n : Labels(labels[i], byte_queue[i])
      /\ \A i \in 1 .. n - 1 : Continues(labels[i], labels[i + 1])
      /\ byte_queue # <<>> => Ends(labels[n]) /\ labels[n].number = Len(sent)
  BY <1>4, <1>5 DEF Labelled
<1>10. Stream(s)' = byte_queue \o x
  BY <1>1, <1>2 DEF ParseTypeInv, Stream
<1>11. /\ Stream(s)' \in Seq(Nat) /\ Len(Stream(s)') = n + m
       /\ \A i \in 1 .. n : Stream(s)'[i] = byte_queue[i]
       /\ \A k \in 1 .. m : Stream(s)'[n + k] = x[k]
  BY <1>5, <1>6, <1>10, Behind
<1> HIDE DEF n, m
<1>12. PICK more \in Seq(Label) :
         /\ Len(more) = n + m
         /\ \A i \in 1 .. n : more[i] = labels[i]
         /\ \A k \in 1 .. m : more[n + k] = own[k]
  <2> DEFINE both == labels \o own
  <2>1. /\ both \in Seq(Label) /\ Len(both) = Len(labels) + Len(own)
        /\ \A i \in 1 .. Len(labels) : both[i] = labels[i]
        /\ \A k \in 1 .. Len(own) : both[Len(labels) + k] = own[k]
    BY Behind
  <2> HIDE DEF both
  <2> QED BY <1>8, <1>9, <2>1
<1>13. \A i \in 1 .. n + m : i \in 1 .. n \/ \E k \in 1 .. m : i = n + k
  <2>1. ASSUME NEW i \in 1 .. n + m, ~(i \in 1 .. n) PROVE i - n \in 1 .. m /\ i = n + (i - n)
    BY <1>6, <2>1
  <2> QED BY <2>1
<1>14. Opens(own[1], Len(sent)) /\ own[1] \in Label
  <2>1. 1 \in 1 .. m
    BY <1>6
  <2>2. own[1] \in Label
    BY <1>8, <2>1, ElementOfSeq
  <2> QED BY <1>7, <1>8, <2>1, <2>2 DEF Opens
<1>15. Labelled(Stream(s), more)'
  <2>1. ASSUME NEW i \in 1 .. n + m PROVE Labels(more[i], Stream(s)[i])'
    <3>1. CASE i \in 1 .. n
      <4>1. more[i] = labels[i] /\ Stream(s)'[i] = byte_queue[i] /\ Labels(labels[i], byte_queue[i])
        BY <1>9, <1>11, <1>12, <3>1
      <4>2. labels[i].number \in 0 .. Len(sent)
        BY <4>1 DEF Labels
      <4>3. labels[i].number \in 0 .. Len(sent')
        BY <1>7, <4>2
      <4>4. labels[i].number >= 1 => sent'[labels[i].number] = sent[labels[i].number]
        BY <1>7, <4>2
      <4> QED BY <4>1, <4>3, <4>4 DEF Labels
    <3>2. CASE ~(i \in 1 .. n)
      <4>1. PICK k \in 1 .. m : i = n + k
        BY <1>13, <3>2
      <4>2. more[i] = [input |-> x, at |-> k, number |-> number] /\ Stream(s)'[i] = x[k]
        BY <1>8, <1>11, <1>12, <4>1
      <4>3. number \in 0 .. Len(sent')
        BY <1>7
      <4> QED BY <1>7, <4>1, <4>2, <4>3 DEF Labels, m
    <3> QED BY <3>1, <3>2
  <2>2. ASSUME NEW i \in 1 .. n + m - 1 PROVE Continues(more[i], more[i + 1])
    <3>1. CASE i < n
      <4>1. i \in 1 .. n - 1 /\ i \in 1 .. n /\ i + 1 \in 1 .. n
        BY <1>6, <3>1
      <4> QED BY <1>9, <1>12, <4>1
    <3>2. CASE i = n
      <4>1. byte_queue # <<>> /\ i \in 1 .. n /\ 1 \in 1 .. m
        BY <1>6, <3>2 DEF n
      <4>2. more[i] = labels[n] /\ more[i + 1] = own[1]
        BY <1>12, <3>2, <4>1
      <4> QED BY <1>9, <1>14, <4>1, <4>2 DEF Continues
    <3>3. CASE i > n
      <4>1. PICK k \in 1 .. m : i = n + k
        <5>1. i \in 1 .. n + m /\ i \notin 1 .. n
          BY <1>6, <3>3
        <5> QED BY <1>13, <5>1
      <4>2. k + 1 \in 1 .. m /\ k # m /\ i + 1 = n + (k + 1)
        BY <1>6, <4>1
      <4>3. more[i] = own[k] /\ more[i + 1] = own[k + 1]
        BY <1>12, <4>1, <4>2
      <4>4. more[i] = [input |-> x, at |-> k, number |-> number]
            /\ more[i + 1] = [input |-> x, at |-> k + 1, number |-> number]
        BY <1>8, <4>1, <4>2, <4>3
      <4> QED BY <4>2, <4>4 DEF Continues, Ends, NextByte, m
    <3> QED BY <1>6, <3>1, <3>2, <3>3
  <2>3. Ends(more[n + m]) /\ more[n + m].number = Len(sent')
    <3>1. m \in 1 .. m
      BY <1>6
    <3>2. more[n + m] = [input |-> x, at |-> m, number |-> number]
      BY <1>8, <1>12, <3>1
    <3> QED BY <1>7, <3>2 DEF Ends, m
  <2> DEFINE len == n + m
  <2>4. Len(Stream(s)') = len /\ Len(more) = len
    BY <1>11, <1>12
  <2>5. \A i \in 1 .. len : Labels(more[i], Stream(s)[i])'
    BY <2>1
  <2>6. \A i \in 1 .. len - 1 : Continues(more[i], more[i + 1])
    BY <1>6, <2>2
  <2>7. Ends(more[len]) /\ more[len].number = Len(sent')
    BY <2>3
  <2> HIDE DEF len
  <2> QED BY <1>12, <2>4, <2>5, <2>6, <2>7 DEF Labelled
<1>16. InStep(Stream(s), more)'
  <2>1. Stream(s)' # <<>> /\ 1 \in 1 .. n + m
    BY <1>6, <1>11
  <2>2. CASE byte_queue = <<>>
    <3>1. n = 0 /\ AtStart /\ Len(parsed) = Len(sent)
      BY <1>4, <1>5, <2>2 DEF InStep, n
    <3>2. more[1] = own[1]
      <4>1. 1 \in 1 .. m /\ n + 1 = 1
        BY <1>6, <3>1
      <4> QED BY <1>12, <4>1
    <3>3. AtStart' /\ Len(parsed') = Len(sent)
      BY <1>2, <3>1 DEF AtStart, parser
    <3>4. Awaits(own[1])'
      BY <1>7, <1>14, <3>3, OpensAwaited
    <3> QED BY <2>1, <3>2, <3>4 DEF InStep
  <2>3. CASE byte_queue # <<>>
    <3>1. 1 \in 1 .. n
      BY <1>5, <2>3 DEF n
    <3>2. more[1] = labels[1] /\ Awaits(labels[1])
      BY <1>4, <1>5, <1>12, <2>1, <2>3, <3>1 DEF InStep
    <3>3. Awaits(labels[1])'
      BY <1>2, <3>2 DEF Awaits, InPacket, InFill, parser
    <3> QED BY <2>1, <3>2, <3>3 DEF InStep
  <2> QED BY <2>2, <2>3
<1>17. StreamInv'
  <2>1. \A u \in Sources \ {s} : left'[u] = <<>>
    BY <1>1, <1>2 DEF Idle, ParseTypeInv
  <2> QED BY <1>12, <1>15, <1>16, <2>1 DEF StreamInv
<1>18. PrefixInv'
  <2>1. Len(parsed) <= Len(sent) /\ Len(parsed) \in Nat
    BY <1>2 DEF PrefixInv, ParseTypeInv
  <2>2. Len(parsed') <= Len(sent')
    BY <1>2, <1>7, <2>1
  <2>3. ASSUME NEW i \in 1 .. Len(parsed) PROVE parsed[i] = sent'[i]
    <3>1. i \in 1 .. Len(sent)
      BY <1>7, <2>1
    <3> QED BY <1>2, <1>7, <3>1 DEF PrefixInv
  <2> QED BY <1>2, <2>2, <2>3 DEF PrefixInv
<1> QED BY <1>17, <1>18

\* On a quiet line there is nothing to label.
LEMMA QuietStream ==
    ASSUME ParseTypeInv', Quiet', sent' = <<>>, parsed' = <<>>
    PROVE  PrefixInv' /\ StreamInv'
<1>1. <<>> \in Seq(Label) /\ Len(<<>>) = 0
  BY EmptySeq
<1>2. PICK s \in Sources : TRUE
  BY DEF Sources
<1>3. \A t \in Sources : left'[t] = <<>>
  BY DEF Quiet, Idle
<1>4. Stream(s)' = <<>>
  BY <1>3, ConcatEmptySeq DEF Quiet, Stream
<1>5. Labelled(Stream(s), <<>>)'
  BY <1>1, <1>4 DEF Labelled
<1>6. InStep(Stream(s), <<>>)'
  BY <1>1, <1>4 DEF InStep, AtStart, Quiet
<1>7. StreamInv'
  BY <1>1, <1>3, <1>5, <1>6 DEF StreamInv
<1>8. PrefixInv'
  BY EmptySeq DEF PrefixInv
<1> QED BY <1>7, <1>8

-----------------------------------------------------------------------------

\* The inductive invariant.
THEOREM StreamInvariance == CommandSpec => []StreamIInv
<1>1. CommandInit => StreamIInv
  <2> SUFFICES ASSUME CommandInit PROVE StreamIInv
    OBVIOUS
  <2>1. ParseTypeInv
    BY DEF CommandInit, ParseTypeInv
  <2>2. PrefixInv
    BY EmptySeq DEF CommandInit, PrefixInv
  <2>3. StreamInv
    <3>1. <<>> \in Seq(Label) /\ Len(<<>>) = 0
      BY EmptySeq
    <3>2. PICK s \in Sources : TRUE
      BY DEF Sources
    <3>3. Stream(s) = <<>> /\ \A t \in Sources : left[t] = <<>>
      BY ConcatEmptySeq DEF CommandInit, Stream
    <3>4. Labelled(Stream(s), <<>>)
      BY <3>1, <3>3 DEF Labelled
    <3>5. InStep(Stream(s), <<>>)
      BY <3>1, <3>3 DEF InStep, AtStart, CommandInit
    <3> QED BY <3>1, <3>3, <3>4, <3>5 DEF StreamInv
  <2> QED BY <2>1, <2>2, <2>3 DEF StreamIInv
<1>2. StreamIInv /\ [CommandNext]_commandVars => StreamIInv'
  <2> SUFFICES ASSUME StreamIInv, [CommandNext]_commandVars PROVE StreamIInv'
    OBVIOUS
  <2>1. ParseTypeInv /\ PrefixInv /\ StreamInv
    BY DEF StreamIInv
  <2>2. ASSUME ParseTypeInv', ~clean' PROVE StreamIInv'
    BY <2>2 DEF StreamIInv, PrefixInv, StreamInv
  <2>3. ASSUME NEW s \in Sources, BeginSending(s) PROVE StreamIInv'
    <3>1. ParseTypeInv'
      BY <2>1, <2>3, ParseTypeSource
    <3> QED BY <2>1, <2>2, <2>3, <3>1, SendKeepsStream DEF StreamIInv
  <2>4. ASSUME NEW s \in Sources, receive_command_byte(s) PROVE StreamIInv'
    <3>1. ParseTypeInv'
      BY <2>1, <2>4, ParseTypeSource
    <3> QED BY <2>1, <2>2, <2>4, <3>1, ReceiveKeepsStream DEF StreamIInv
  <2>5. ASSUME command_task PROVE StreamIInv'
    <3>1. PICK b : SearchSync(b) \/ ReadFrame(b) \/ ReadHeader(b) \/ ReadPayload(b)
      BY <2>5 DEF command_task
    <3>2. ParseTypeInv'
      BY <2>1, <3>1, ParseTypeByte
    <3>3. clean' => clean
      BY <3>1 DEF SearchSync, ReadFrame, ReadHeader, ReadPayload, Muddle, results, history
    <3> QED BY <2>1, <2>2, <3>1, <3>2, <3>3, ByteKeepsStream DEF StreamIInv
  <2>6. ASSUME BeginAnew PROVE StreamIInv'
    <3>1. ParseTypeInv'
      BY <2>1, <2>6, EmptySeq DEF BeginAnew, ParseTypeInv, inputs, parser
    <3>2. Quiet' /\ sent' = <<>> /\ parsed' = <<>>
      BY <2>6 DEF BeginAnew, Quiet, Idle, inputs, parser
    <3> QED BY <3>1, <3>2, QuietStream DEF StreamIInv
  <2>7. ASSUME UNCHANGED commandVars PROVE StreamIInv'
    <3>1. ParseTypeInv' /\ PrefixInv'
      BY <2>1, <2>7 DEF commandVars, inputs, parser, history, ParseTypeInv, PrefixInv
    <3>2. StreamInv'
      <4>1. \A s : Stream(s)' = Stream(s)
        BY <2>7 DEF commandVars, inputs, Stream
      <4>2. \A s : \A labels : Labelled(Stream(s), labels)' <=> Labelled(Stream(s), labels)
        BY <2>7, <4>1 DEF commandVars, history, Labelled, Labels
      <4>3. \A label : Awaits(label)' <=> Awaits(label)
        BY <2>7 DEF commandVars, parser, history, Awaits, InPacket, InFill
      <4>4. \A s : \A labels : InStep(Stream(s), labels)' <=> InStep(Stream(s), labels)
        BY <2>7, <4>1, <4>3 DEF commandVars, parser, history, InStep, AtStart
      <4> QED BY <2>1, <2>7, <4>2, <4>4 DEF commandVars, inputs, history, StreamInv
    <3> QED BY <3>1, <3>2 DEF StreamIInv
  <2> QED BY <2>3, <2>4, <2>5, <2>6, <2>7 DEF CommandNext
<1> QED BY <1>1, <1>2, PTL DEF CommandSpec

\* As long as no byte is dropped, mixed with another source's or misleading, and there is
\* memory for every payload, the packets that are parsed are those that were sent, and all
\* of them where the line is quiet and the parser back at the beginning of its search
\* (command.c:364-397, 429-454).
THEOREM WhatIsSentIsParsed == CommandSpec => []ParsesWhatWasSent
<1>1. StreamIInv => ParsesWhatWasSent
  <2> SUFFICES ASSUME ParseTypeInv, PrefixInv, StreamInv, clean PROVE ParsesWhatWasSent
    BY DEF StreamIInv, ParsesWhatWasSent
  <2> DEFINE n == Len(parsed)
  <2>1. parsed \in Seq(Saying) /\ sent \in Seq(Saying) /\ n \in Nat /\ Len(sent) \in Nat /\ n <= Len(sent)
        /\ \A i \in 1 .. n : parsed[i] = sent[i]
    BY DEF ParseTypeInv, PrefixInv
  <2>2. parsed = SubSeq(sent, 1, n)
    <3>1. \A i \in 1 .. n : sent[i] \in Saying
      BY <2>1
    <3> HIDE DEF n
    <3>2. /\ SubSeq(sent, 1, n) \in Seq(Saying) /\ Len(SubSeq(sent, 1, n)) = n
          /\ \A i \in 1 .. n : SubSeq(sent, 1, n)[i] = sent[i]
      <4>1. /\ SubSeq(sent, 1, n) \in Seq(Saying)
            /\ Len(SubSeq(sent, 1, n)) = IF 1 <= n THEN n - 1 + 1 ELSE 0
            /\ \A i \in 1 .. n - 1 + 1 : SubSeq(sent, 1, n)[i] = sent[1 + i - 1]
        BY <2>1, <3>1, SubSeqProperties
      <4>2. n - 1 + 1 = n /\ (~(1 <= n) => n = 0) /\ \A i \in 1 .. n : 1 + i - 1 = i
        BY <2>1
      <4> QED BY <4>1, <4>2
    <3>3. Len(parsed) = n
      BY DEF n
    <3> QED BY <2>1, <3>2, <3>3, SeqEqual
  <2>3. ASSUME Quiet PROVE parsed = sent
    <3>1. PICK s \in Sources : \E labels \in Seq(Label) : Labelled(Stream(s), labels) /\ InStep(Stream(s), labels)
      BY DEF StreamInv
    <3>2. Stream(s) = <<>>
      BY <2>3, ConcatEmptySeq DEF Quiet, Idle, Stream
    <3>3. Len(parsed) = Len(sent)
      BY <3>1, <3>2 DEF InStep
    <3> QED BY <2>1, <3>3, SeqEqual
  <2> QED BY <2>2, <2>3 DEF ParsesWhatWasSent
<1> QED BY <1>1, StreamInvariance, PTL

-----------------------------------------------------------------------------
(***************************************************************************)
(* The watchdog, for any timeouts, delay and lag that leave the task its   *)
(* time.                                                                   *)
(***************************************************************************)

WatchdogTypeInv ==
    /\ wd_at \in {"off", "loop", "delay", "frozen"}
    /\ wait \in 0 .. Delay /\ late \in 0 .. Lag
    /\ notified \in BOOLEAN /\ asked \in BOOLEAN
    /\ built_in \in 0 .. BuiltIn /\ pin \in 0 .. Pin
    /\ since \in Nat

\* For how long the task has been in its delay, or ready after it.
Delayed == Delay - wait + late

\* What a task that has not frozen leaves of the two timers.
FedInv ==
    /\ wd_at = "off" => built_in = BuiltIn /\ pin >= Pin - late
    /\ wd_at = "loop" => built_in >= BuiltIn - late /\ pin >= Pin - Delay - Lag - late
    /\ wd_at = "delay" => /\ built_in >= BuiltIn - Lag - Delayed /\ pin >= Pin - Delayed
                          /\ wait > 0 => late = 0

\* A request is kept until the task takes it, and only a request freezes the task.
AskedInv == asked <=> notified \/ wd_at = "frozen"

\* How long ago the request can have come, by where the task is.
SinceInv ==
    asked => /\ wd_at = "off" => since <= late
             /\ wd_at = "delay" => since <= Delayed
             /\ wd_at \in {"loop", "frozen"} => since + built_in <= Delay + Lag + BuiltIn

\* The inductive invariant.
WatchdogInv == WatchdogTypeInv /\ FedInv /\ AskedInv /\ SinceInv

-----------------------------------------------------------------------------

\* The constants are numbers, and the timers leave the task its time.
LEMMA WatchdogConstants ==
    /\ BuiltIn \in Nat /\ Pin \in Nat /\ Delay \in Nat /\ Lag \in Nat
    /\ BuiltIn > Delay + 2 * Lag /\ Pin > Delay + 2 * Lag /\ Delay > 0
BY WatchdogAssumption

\* The invariant holds at first.
LEMMA WatchdogInitInv == WatchdogInit => WatchdogInv
<1> SUFFICES ASSUME WatchdogInit PROVE WatchdogInv
  OBVIOUS
<1> USE WatchdogConstants DEF WatchdogInit
<1>1. WatchdogTypeInv
  <2>1. notified \in BOOLEAN /\ asked \in BOOLEAN
    OBVIOUS
  <2>2. wait \in 0 .. Delay /\ late \in 0 .. Lag /\ built_in \in 0 .. BuiltIn /\ pin \in 0 .. Pin
    OBVIOUS
  <2> QED BY <2>1, <2>2 DEF WatchdogTypeInv
<1>2. FedInv
  BY DEF FedInv
<1>3. AskedInv
  BY DEF AskedInv
<1>4. SinceInv
  BY DEF SinceInv
<1> QED BY <1>1, <1>2, <1>3, <1>4 DEF WatchdogInv

\* A unit of time keeps it: the task is not late for longer than Lag.
LEMMA ElapseInv ==
    ASSUME WatchdogInv, Elapse
    PROVE  WatchdogInv'
<1> USE WatchdogConstants DEF WatchdogInv, WatchdogTypeInv, FedInv, AskedInv, SinceInv, Delayed, Elapse, Expired, Ready
<1>1. CASE wd_at = "off"
  BY <1>1
<1>2. CASE wd_at = "loop"
  BY <1>2
<1>3. CASE wd_at = "delay"
  <2>1. CASE wait = 0
    <3>1. WatchdogTypeInv'
      BY <1>3, <2>1
    <3>2. FedInv'
      BY <1>3, <2>1
    <3>3. AskedInv'
      BY <1>3, <2>1
    <3>4. SinceInv'
      BY <1>3, <2>1
    <3> HIDE DEF WatchdogTypeInv, FedInv, AskedInv, SinceInv
    <3> QED BY <3>1, <3>2, <3>3, <3>4
  <2>2. CASE wait > 0
    <3>1. WatchdogTypeInv'
      BY <1>3, <2>2
    <3>2. FedInv'
      BY <1>3, <2>2
    <3>3. AskedInv'
      BY <1>3, <2>2
    <3>4. SinceInv'
      BY <1>3, <2>2
    <3> HIDE DEF WatchdogTypeInv, FedInv, AskedInv, SinceInv
    <3> QED BY <3>1, <3>2, <3>3, <3>4
  <2> QED BY <2>1, <2>2
<1>4. CASE wd_at = "frozen"
  BY <1>4
<1> QED BY <1>1, <1>2, <1>3, <1>4

\* Every step keeps it.
LEMMA WatchdogNextInv ==
    ASSUME WatchdogInv, [WatchdogNext]_watchdogVars
    PROVE  WatchdogInv'
<1> USE WatchdogConstants DEF WatchdogInv, WatchdogTypeInv, FedInv, AskedInv, SinceInv, Delayed
<1>1. CASE Freeze
  BY <1>1 DEF Freeze, watchdog_freeze
<1>2. CASE StartWatchdog
  BY <1>2 DEF StartWatchdog
<1>3. CASE Toggle
  BY <1>3 DEF Toggle
<1>4. CASE StopFeeding
  BY <1>4 DEF StopFeeding
<1>5. CASE Feed
  <2> USE <1>5 DEF Feed
  <2>1. WatchdogTypeInv'
    OBVIOUS
  <2>2. FedInv'
    OBVIOUS
  <2>3. AskedInv'
    OBVIOUS
  <2>4. SinceInv'
    OBVIOUS
  <2> HIDE DEF WatchdogTypeInv, FedInv, AskedInv, SinceInv
  <2> QED BY <2>1, <2>2, <2>3, <2>4
<1>6. CASE Elapse
  BY <1>6, ElapseInv
<1>7. CASE BoardReset
  <2> USE <1>7 DEF BoardReset
  <2>1. WatchdogTypeInv'
    <3>1. notified' \in BOOLEAN /\ asked' \in BOOLEAN
      OBVIOUS
    <3>2. wait' \in 0 .. Delay /\ late' \in 0 .. Lag /\ built_in' \in 0 .. BuiltIn /\ pin' \in 0 .. Pin
      OBVIOUS
    <3> QED BY <3>1, <3>2
  <2>2. FedInv'
    OBVIOUS
  <2>3. AskedInv'
    OBVIOUS
  <2>4. SinceInv'
    OBVIOUS
  <2> HIDE DEF WatchdogTypeInv, FedInv, AskedInv, SinceInv
  <2> QED BY <2>1, <2>2, <2>3, <2>4
<1>8. CASE UNCHANGED watchdogVars
  BY <1>8 DEF watchdogVars
<1> QED BY <1>1, <1>2, <1>3, <1>4, <1>5, <1>6, <1>7, <1>8 DEF WatchdogNext

\* The invariant of the watchdog: what is left of the timers, and how old a request is.
THEOREM WatchdogInvariance == WatchdogSpec => []WatchdogInv
BY WatchdogInitInv, WatchdogNextInv, PTL DEF WatchdogSpec

\* For every timeout, delay and lag with BuiltIn and Pin above Delay + 2 Lag, the board is
\* reset within Delay + Lag + BuiltIn of the first request, and no timer runs out
\* without one (watchdog_freeze and watchdog_task).
THEOREM ResetInTimeOnly == WatchdogSpec => []ResetsWhenAsked
<1>1. ASSUME WatchdogInv PROVE ResetsWhenAsked
  <2> USE WatchdogConstants DEF WatchdogInv, WatchdogTypeInv, Delayed
  <2>1. ResetsSoon
    BY <1>1 DEF ResetsSoon, SinceInv
  <2>2. NeverResetsIdle
    BY <1>1 DEF NeverResetsIdle, Expired, FedInv, AskedInv
  <2> QED BY <2>1, <2>2 DEF ResetsWhenAsked
<1> QED BY WatchdogInvariance, <1>1, PTL

-----------------------------------------------------------------------------
(***************************************************************************)
(* The clock and the contact, for any intervals and any resets.            *)
(***************************************************************************)

\* Where the board has read its clock once since the reset.
Booted == clock_at \in {"idle", "beat"}

TimeTypeInv ==
    /\ now \in 0 .. MaxTime /\ boot \in 0 .. now /\ refreshed \in 0 .. now
    /\ shift \in Int /\ fields_sum \in Int /\ epoch_time \in Int /\ loaded \in Int
    /\ clock_at \in {"boot", "idle", "beat"} /\ field \in 1 .. 6
    /\ contact_at \in {"load", "set", "create", "loop"}
    /\ radio_last_received_time \in Int /\ last_saved_received_time \in Int
    /\ radio_bin \in Int /\ writes \in Seq(Int)
    /\ last_contact \in -1 .. now
    /\ record \in {"kept", "saving", "unkept", "lost"}
    /\ honest \in BOOLEAN /\ epoch_time_updated \in BOOLEAN /\ forgotten \in BOOLEAN

\* The heartbeat comes in its time; the tasks begin when the clock has been read.
PaceInv ==
    /\ now <= refreshed + HeartbeatInterval
    /\ ~Booted =>
           /\ contact_at = "load" /\ writes = <<>>
           /\ radio_last_received_time = 0 /\ last_saved_received_time = 0
           /\ record \in {"kept", "lost"}
    /\ contact_at # "loop" => ~forgotten

\* While the clock can be trusted, the epoch time is a time at which the clock was read,
\* and no older than the read before the present one.
ClockInv ==
    honest =>
        /\ shift = 0
        /\ Booted => epoch_time_updated /\ epoch_time >= Epoch
        /\ clock_at = "idle" => epoch_time \in Epoch + refreshed .. Epoch + now
        /\ clock_at = "beat" =>
               epoch_time \in Epoch + refreshed - HeartbeatInterval .. Epoch + refreshed

\* How far back the last contact can seem to be from what is written down of it.
Remembered(t) == t >= Epoch /\ t >= Epoch + last_contact - Slack - SaveInterval

\* A time that is written down of a contact is not after the last.
NotAfter(t) == t >= Epoch /\ last_contact # -1 /\ t <= Epoch + last_contact

\* Every time that is kept, is on its way to radio.bin or was read from it, is of a contact.
TimesInv ==
    honest =>
        /\ radio_bin \in {NeverSaved, HalfSaved, 0} \/ NotAfter(radio_bin)
        /\ \A i \in 1 .. Len(writes) : writes[i] = 0 \/ NotAfter(writes[i])
        /\ loaded = 0 \/ NotAfter(loaded)
        /\ \/ radio_last_received_time = 0
           \/ NotAfter(radio_last_received_time) /\ radio_last_received_time <= epoch_time
        /\ last_saved_received_time = 0 \/ last_saved_received_time \in Epoch .. epoch_time

\* What is recorded of the last contact is in radio.bin, or is the last that goes there.
RecordInv ==
    honest =>
        /\ record = "kept" => Remembered(radio_bin) /\ writes = <<>>
        /\ record = "saving" =>
               /\ writes # <<>> /\ writes[Len(writes)] = last_saved_received_time
               /\ last_saved_received_time # 0 /\ Remembered(last_saved_received_time)
        /\ last_saved_received_time # 0 =>
               record # "lost" /\ (record = "kept" => radio_bin = last_saved_received_time)

\* Until a contact is marked, init_radio finds what was recorded; from then on, or when it
\* is done, the radio task has the time of the last contact.
LoadInv ==
    honest =>
        /\ contact_at # "loop" /\ radio_last_received_time = 0 =>
               /\ record \in {"kept", "lost"}
               /\ contact_at = "set" /\ record = "kept" => Remembered(loaded)
        /\ (contact_at = "loop" \/ radio_last_received_time # 0) /\ record # "lost" /\ ~forgotten =>
               Remembered(radio_last_received_time)

\* The inductive invariant.
ContactInv == TimeTypeInv /\ PaceInv /\ ClockInv /\ TimesInv /\ RecordInv /\ LoadInv

-----------------------------------------------------------------------------

\* The constants are numbers, and the deadman time leaves room for a save and two heartbeats.
LEMMA ContactConstants ==
    /\ Deadman \in Nat /\ SaveInterval \in Nat \ {0}
    /\ HeartbeatInterval \in Nat \ {0} /\ MaxTime \in Nat \ {0}
    /\ Epoch \in Nat /\ Epoch > MaxTime /\ Epoch # 0
    /\ Deadman > SaveInterval + 2 * HeartbeatInterval
    /\ Shifts \subseteq Int
BY ContactAssumption

\* What a field of a time adds to it is a number.
LEMMA PartTyped ==
    ASSUME NEW i \in 1 .. 6, NEW t \in Int
    PROVE  Part(Order[i], t) \in Int
<1>1. FieldLength \in [{BootOrder[j] : j \in 1 .. 6} -> Nat \ {0}]
  BY ContactAssumption
<1>2. {BootOrder[j] : j \in 1 .. 6} = {"year", "month", "date", "hour", "minute", "second"}
  BY DEF BootOrder
<1>3. ASSUME NEW f \in {"year", "month", "date", "hour", "minute", "second"}
      PROVE  Beginning(f, t) \in Int
  <2>1. FieldLength[f] \in Nat \ {0}
    BY <1>1, <1>2
  <2> QED BY <2>1 DEF Beginning
<1>4. Order[i] \in {"year", "month", "date", "hour", "minute", "second"}
  BY DEF Order, BootOrder, BeatOrder
<1>5. CASE Order[i] = "year"
  BY <1>3, <1>5 DEF Part
<1>6. CASE Order[i] # "year"
  <2>1. Above[Order[i]] \in {"year", "month", "date", "hour", "minute", "second"}
    BY <1>4, <1>6 DEF Above
  <2>2. Beginning(Order[i], t) \in Int /\ Beginning(Above[Order[i]], t) \in Int
    BY <1>3, <1>4, <2>1
  <2> QED BY <1>6, <2>2 DEF Part
<1> QED BY <1>5, <1>6

\* While the clock can be trusted, the epoch time is never older than two heartbeats.
LEMMA EpochIsRecent ==
    ASSUME ContactInv, honest, Booted
    PROVE  /\ epoch_time \in Epoch + now - Slack .. Epoch + now /\ epoch_time >= Epoch
           /\ timing_now = epoch_time /\ epoch_time_updated
BY ContactConstants DEF ContactInv, TimeTypeInv, PaceInv, ClockInv, Booted, Slack, timing_now

\* The invariant holds at first.
LEMMA TimeInitInv == TimeInit => ContactInv
<1> SUFFICES ASSUME TimeInit PROVE ContactInv
  OBVIOUS
<1> USE ContactConstants DEF TimeInit
<1>1. TimeTypeInv
  <2>1. honest \in BOOLEAN /\ epoch_time_updated \in BOOLEAN /\ forgotten \in BOOLEAN
    BY Zenon
  <2>2. writes \in Seq(Int)
    OBVIOUS
  <2> QED BY <2>1, <2>2 DEF TimeTypeInv, NeverSaved
<1>2. PaceInv /\ ClockInv
  BY DEF PaceInv, ClockInv, Booted
<1>3. TimesInv /\ RecordInv /\ LoadInv
  BY DEF TimesInv, RecordInv, LoadInv
<1> QED BY <1>1, <1>2, <1>3 DEF ContactInv

\* A unit of time.
LEMMA TickInv ==
    ASSUME ContactInv, Tick
    PROVE  ContactInv'
<1> USE ContactConstants
<1>1. TimeTypeInv' /\ PaceInv'
  BY DEF ContactInv, TimeTypeInv, PaceInv, Booted, Tick, clockVars, loadVars, contactVars, pastVars
<1>2. ClockInv'
  BY DEF ContactInv, TimeTypeInv, ClockInv, Booted, Tick, clockVars
<1>3. TimesInv' /\ RecordInv' /\ LoadInv'
  BY DEF ContactInv, TimesInv, RecordInv, LoadInv, NotAfter, Remembered, Slack, Tick,
         clockVars, loadVars, contactVars, pastVars
<1> QED BY <1>1, <1>2, <1>3 DEF ContactInv

\* What a step of the clock leaves typed, whatever it does.
ClockTyped ==
    /\ shift \in Int /\ fields_sum \in Int /\ epoch_time \in Int
    /\ clock_at \in {"boot", "idle", "beat"} /\ field \in 1 .. 6
    /\ honest \in BOOLEAN /\ epoch_time_updated \in BOOLEAN

\* A step of reading or setting the clock: while the clock can be trusted, it never takes
\* the epoch time back.
LEMMA ClockStepClock ==
    ASSUME ContactInv, ClockStep
    PROVE  /\ ClockTyped' /\ refreshed' \in {refreshed, now} /\ (~Booted' => ~Booted)
           /\ honest' => honest /\ ClockInv' /\ (Booted => epoch_time' >= epoch_time)
<1> USE ContactConstants DEF ClockTyped, Booted, update_epoch_time
<1>1. now \in Nat /\ refreshed \in Nat /\ refreshed <= now /\ now' = now /\ ClockTyped
      /\ now <= refreshed + HeartbeatInterval
  BY DEF ContactInv, TimeTypeInv, PaceInv, ClockStep
<1>2. FieldsRead \in Int
  <2>1. Clock \in Int
    BY <1>1 DEF Clock
  <2>2. Part(Order[field], Clock) \in Int
    BY <1>1, <2>1, PartTyped
  <2> QED BY <1>1, <2>2 DEF FieldsRead
<1>3. honest => shift = 0 /\ ClockInv
  BY DEF ContactInv, ClockInv
<1>4. honest' \in BOOLEAN /\ epoch_time_updated' \in BOOLEAN /\ (honest' => honest)
  <2>1. honest \in BOOLEAN /\ epoch_time_updated \in BOOLEAN
    BY <1>1
  <2>2. CASE BeginRead \/ ReadField \/ ReadFails
    <3>1. honest' = honest \/ honest' = FALSE
      BY <2>2 DEF BeginRead, ReadField, ReadFails
    <3>2. epoch_time_updated' = epoch_time_updated
      BY <2>2 DEF BeginRead, ReadField, ReadFails
    <3>3. honest' \in BOOLEAN /\ epoch_time_updated' \in BOOLEAN
      BY <2>1, <3>1, <3>2, Zenon
    <3> QED BY <2>1, <3>1, <3>3
  <2>3. CASE ReadLastField
    BY <2>3, Zenon DEF ReadLastField
  <2>4. CASE SetClock
    BY <2>4, Zenon DEF SetClock
  <2> QED BY <2>2, <2>3, <2>4 DEF ClockStep
<1> DEFINE Typed == /\ shift' \in Int /\ fields_sum' \in Int /\ epoch_time' \in Int
                    /\ clock_at' \in {"boot", "idle", "beat"} /\ field' \in 1 .. 6
                    /\ refreshed' \in {refreshed, now} /\ (~Booted' => ~Booted)
           Kept == honest' => ClockInv' /\ (Booted => epoch_time' >= epoch_time)
<1>5. CASE BeginRead
  <2>1. Typed
    BY <1>1, <1>5 DEF BeginRead
  <2>2. Kept
    BY <1>1, <1>3, <1>4, <1>5 DEF BeginRead, ClockInv
  <2> QED BY <1>4, <2>1, <2>2
<1>6. CASE ReadField
  <2>1. Typed
    BY <1>1, <1>2, <1>6 DEF ReadField
  <2>2. Kept
    BY <1>1, <1>3, <1>4, <1>6 DEF ReadField, ClockInv
  <2> QED BY <1>4, <2>1, <2>2
<1>7. CASE ReadLastField
  <2>1. /\ clock_at # "idle" /\ clock_at' = "idle" /\ field' = 1 /\ fields_sum' = 0
        /\ epoch_time' = FieldsRead /\ epoch_time_updated' /\ UNCHANGED <<shift, refreshed>>
    BY <1>7 DEF ReadLastField
  <2>2. honest' => FieldsRead \in (Epoch + refreshed) .. (Epoch + now)
    BY <1>7, Zenon DEF ReadLastField, Torn
  <2>3. Typed
    BY <1>1, <1>2, <2>1
  <2>4. Kept
    BY <1>1, <1>3, <1>4, <2>1, <2>2 DEF ClockInv
  <2> QED BY <1>4, <2>3, <2>4
<1>8. CASE ReadFails
  <2>1. Typed
    BY <1>1, <1>8 DEF ReadFails
  <2>2. ~honest'
    BY <1>8, Zenon DEF ReadFails
  <2> QED BY <1>4, <2>1, <2>2
<1>9. CASE SetClock
  <2>1. Typed
    BY <1>1, <1>9 DEF SetClock
  <2>2. honest' => shift' = 0
    BY <1>9, Zenon DEF SetClock
  <2>3. Kept
    BY <1>1, <1>3, <1>4, <1>9, <2>2 DEF SetClock, ClockInv
  <2> QED BY <1>4, <2>1, <2>3
<1> QED BY <1>5, <1>6, <1>7, <1>8, <1>9 DEF ClockStep

\* Every step of reading or setting the clock keeps the invariant.
LEMMA ClockStepInv ==
    ASSUME ContactInv, ClockStep
    PROVE  ContactInv'
<1> USE ContactConstants
<1>1. UNCHANGED <<now, boot, loadVars, contactVars, pastVars>>
  BY DEF ClockStep
<1>2. TimeTypeInv' /\ PaceInv'
  BY <1>1, ClockStepClock
     DEF ContactInv, TimeTypeInv, PaceInv, ClockTyped, loadVars, contactVars, pastVars
<1>3. ClockInv'
  BY ClockStepClock DEF ClockInv
<1>4. RecordInv' /\ LoadInv'
  BY <1>1, ClockStepClock
     DEF ContactInv, RecordInv, LoadInv, Remembered, Slack, loadVars, contactVars, pastVars
<1>5. TimesInv'
  <2>1. radio_last_received_time # 0 \/ last_saved_received_time # 0 => Booted
    BY DEF ContactInv, PaceInv
  <2>2. epoch_time \in Int /\ epoch_time' \in Int /\ radio_last_received_time \in Int
        /\ last_saved_received_time \in Int
    BY ClockStepClock DEF ContactInv, TimeTypeInv, ClockTyped
  <2> QED BY <1>1, <2>1, <2>2, ClockStepClock
       DEF ContactInv, TimesInv, NotAfter, loadVars, contactVars, pastVars
<1> QED BY <1>2, <1>3, <1>4, <1>5 DEF ContactInv

\* What a step that leaves the clock alone keeps of it.
LEMMA ClockRests ==
    ASSUME ContactInv, UNCHANGED <<now, boot, clockVars, honest>>
    PROVE  ClockInv' /\ (Booted' <=> Booted) /\ timing_now' = timing_now
BY DEF ContactInv, ClockInv, Booted, timing_now, Uptime, clockVars

\* The times of the queue for radio.bin, when one more joins them.
LEMMA WritesGrow ==
    ASSUME writes \in Seq(Int), NEW t \in Int, writes' = Append(writes, t)
    PROVE  /\ writes' \in Seq(Int) /\ writes' # <<>> /\ writes'[Len(writes')] = t
           /\ Len(writes') = Len(writes) + 1
           /\ \A i \in 1 .. Len(writes) : writes'[i] = writes[i]
           /\ \A i \in 1 .. Len(writes') : i \in 1 .. Len(writes) \/ writes'[i] = t
<1>1. Len(writes) \in Nat /\ Len(writes') = Len(writes) + 1 /\ writes' \in Seq(Int)
  OBVIOUS
<1>2. /\ \A i \in 1 .. Len(writes) : writes'[i] = writes[i]
      /\ writes'[Len(writes) + 1] = t
  OBVIOUS
<1>3. writes' # <<>>
  BY <1>1
<1>4. \A i \in 1 .. Len(writes') : i \in 1 .. Len(writes) \/ i = Len(writes')
  BY <1>1
<1> QED BY <1>1, <1>2, <1>3, <1>4

\* And when the first has gone.
LEMMA WritesShrink ==
    ASSUME writes \in Seq(Int), writes # <<>>, writes' = Tail(writes)
    PROVE  /\ writes' \in Seq(Int) /\ Head(writes) \in Int /\ Head(writes) = writes[1]
           /\ Len(writes) \in Nat \ {0} /\ Len(writes') = Len(writes) - 1
           /\ (Len(writes) = 1 <=> writes' = <<>>)
           /\ \A i \in 1 .. Len(writes') : writes'[i] = writes[i + 1]
<1>1. /\ writes' \in Seq(Int) /\ Head(writes) \in Int /\ Head(writes) = writes[1]
      /\ Len(writes) \in Nat \ {0} /\ Len(writes') = Len(writes) - 1
  OBVIOUS
<1>2. \A i \in 1 .. Len(writes') : writes'[i] = writes[i + 1]
  OBVIOUS
<1>3. \A s \in Seq(Int) : Len(s) = 0 <=> s = <<>>
  OBVIOUS
<1>4. Len(writes') = 0 <=> writes' = <<>>
  BY <1>1, <1>3, Zenon
<1>5. Len(writes) = 1 <=> Len(writes') = 0
  BY <1>1
<1> QED BY <1>1, <1>2, <1>4, <1>5, Zenon

\* The filesystem task writes a time to radio.bin, or fails to.
LEMMA WriteContactInv ==
    ASSUME ContactInv, WriteContact
    PROVE  ContactInv'
<1> USE ContactConstants
<1>1. /\ UNCHANGED <<now, boot, clockVars, loadVars, radio_last_received_time,
                     last_saved_received_time, last_contact, forgotten, honest>>
      /\ writes # <<>> /\ writes' = Tail(writes) /\ writes \in Seq(Int)
  BY DEF WriteContact, ContactInv, TimeTypeInv
<1>2. \/ /\ radio_bin' = Head(writes)
         /\ record' = IF record = "saving" /\ Len(writes) = 1 THEN "kept" ELSE record
      \/ /\ UNCHANGED radio_bin
         /\ record' = IF record = "saving" /\ Len(writes) = 1 THEN "unkept" ELSE record
  BY DEF WriteContact
<1>3. /\ writes' \in Seq(Int) /\ Head(writes) \in Int /\ Head(writes) = writes[1]
      /\ Len(writes) \in Nat \ {0} /\ Len(writes') = Len(writes) - 1
      /\ (Len(writes) = 1 <=> writes' = <<>>)
      /\ \A i \in 1 .. Len(writes') : writes'[i] = writes[i + 1]
  BY <1>1, WritesShrink
<1>4. ClockInv' /\ (Booted' <=> Booted)
  BY <1>1, ClockRests
<1>5. TimeTypeInv'
  <2>1. radio_bin' \in Int /\ record' \in {"kept", "saving", "unkept", "lost"}
    BY <1>2, <1>3 DEF ContactInv, TimeTypeInv
  <2> QED BY <1>1, <1>3, <2>1 DEF ContactInv, TimeTypeInv, clockVars, loadVars
<1>6. PaceInv'
  BY <1>1, <1>4 DEF ContactInv, PaceInv, clockVars, loadVars
<1>7. ASSUME honest PROVE TimesInv' /\ RecordInv' /\ LoadInv'
  <2>1. TimesInv /\ RecordInv /\ LoadInv /\ record \in {"kept", "saving", "unkept", "lost"}
    BY DEF ContactInv, TimeTypeInv
  <2>2. record # "kept" /\ (writes[1] = 0 \/ NotAfter(writes[1]))
    BY <1>1, <1>3, <1>7, <2>1 DEF RecordInv, TimesInv
  <2>3. TimesInv'
    <3>1. ASSUME NEW i \in 1 .. Len(writes') PROVE writes'[i] = 0 \/ NotAfter(writes'[i])
      <4>1. i + 1 \in 1 .. Len(writes) /\ writes'[i] = writes[i + 1]
        BY <1>3
      <4> QED BY <1>1, <1>7, <2>1, <4>1 DEF TimesInv, NotAfter
    <3>2. radio_bin' \in {NeverSaved, HalfSaved, 0} \/ NotAfter(radio_bin')
      BY <1>1, <1>2, <1>3, <1>7, <2>1, <2>2 DEF TimesInv, NotAfter
    <3> QED BY <1>1, <1>7, <2>1, <3>1, <3>2 DEF TimesInv, NotAfter, clockVars, loadVars
  <2>4. RecordInv'
    <3>1. CASE record = "saving" /\ Len(writes) = 1
      <4>1. writes[1] = last_saved_received_time /\ last_saved_received_time # 0
            /\ Remembered(last_saved_received_time)
        BY <1>7, <2>1, <3>1 DEF RecordInv
      <4>2. \/ radio_bin' = last_saved_received_time /\ record' = "kept" /\ writes' = <<>>
            \/ record' = "unkept"
        BY <1>2, <1>3, <3>1, <4>1
      <4> QED BY <1>1, <4>1, <4>2 DEF RecordInv, Remembered
    <3>2. CASE ~(record = "saving" /\ Len(writes) = 1)
      <4>1. record' = record
        BY <1>2, <3>2
      <4>2. ASSUME record = "saving"
            PROVE  writes' # <<>> /\ writes'[Len(writes')] = writes[Len(writes)]
        <5>1. Len(writes') \in 1 .. Len(writes') /\ Len(writes') + 1 = Len(writes)
          BY <1>3, <3>2, <4>2
        <5> QED BY <1>3, <5>1, <3>2, <4>2
      <4> QED BY <1>1, <1>7, <2>1, <2>2, <4>1, <4>2 DEF RecordInv, Remembered
    <3> QED BY <3>1, <3>2
  <2>5. LoadInv'
    <3>1. record' # "lost" => record # "lost"
      BY <1>2
    <3>2. record \in {"kept", "lost"} => record' = record
      BY <1>2
    <3> QED BY <1>1, <1>7, <2>1, <3>1, <3>2 DEF LoadInv, Remembered, loadVars
  <2> QED BY <2>3, <2>4, <2>5
<1>8. ~honest => TimesInv' /\ RecordInv' /\ LoadInv'
  BY <1>1 DEF TimesInv, RecordInv, LoadInv
<1> QED BY <1>4, <1>5, <1>6, <1>7, <1>8 DEF ContactInv

\* init_radio looks for radio.bin and reads it.
LEMMA ReadContactInv ==
    ASSUME ContactInv, ReadContact
    PROVE  ContactInv'
<1> USE ContactConstants
<1>1. /\ contact_at = "load" /\ Booted
      /\ UNCHANGED <<now, boot, clockVars, contactVars, last_contact, record, honest>>
  BY DEF ReadContact, Booted, ContactInv, TimeTypeInv
<1>2. \/ /\ writes = <<>> /\ radio_bin \notin {NeverSaved, HalfSaved}
         /\ contact_at' = "set" /\ loaded' = radio_bin /\ UNCHANGED forgotten
      \/ /\ contact_at' = "loop" /\ UNCHANGED loaded
         /\ forgotten' = (radio_last_received_time = 0)
      \/ /\ contact_at' = "create" /\ loaded' = radio_last_received_time
         /\ UNCHANGED forgotten
  BY DEF ReadContact
<1>3. ClockInv' /\ (Booted' <=> Booted)
  BY <1>1, ClockRests
<1>4. ~forgotten /\ forgotten \in BOOLEAN
  BY <1>1 DEF ContactInv, PaceInv, TimeTypeInv
<1>5. forgotten' \in BOOLEAN
  BY <1>2, <1>4, Zenon
<1>6. TimeTypeInv' /\ PaceInv'
  <2>1. TimeTypeInv'
    BY <1>1, <1>2, <1>5 DEF ContactInv, TimeTypeInv, clockVars, contactVars
  <2>2. PaceInv'
    BY <1>1, <1>2, <1>3, <1>4 DEF ContactInv, PaceInv, clockVars, contactVars
  <2> QED BY <2>1, <2>2
<1>7. ASSUME honest PROVE TimesInv' /\ RecordInv' /\ LoadInv'
  <2>1. TimesInv'
    BY <1>1, <1>2, <1>7 DEF ContactInv, TimesInv, NotAfter, clockVars, contactVars
  <2>2. RecordInv'
    BY <1>1, <1>7 DEF ContactInv, RecordInv, Remembered, contactVars
  <2>3. LoadInv'
    BY <1>1, <1>2, <1>4, <1>7 DEF ContactInv, RecordInv, LoadInv, Remembered, contactVars
  <2> QED BY <2>1, <2>2, <2>3
<1>8. ~honest => TimesInv' /\ RecordInv' /\ LoadInv'
  BY <1>1 DEF TimesInv, RecordInv, LoadInv
<1> QED BY <1>3, <1>6, <1>7, <1>8 DEF ContactInv

\* It takes what it read for the last contact: that is the last one, or one was marked since.
LEMMA SetContactInv ==
    ASSUME ContactInv, SetContact
    PROVE  ContactInv'
<1> USE ContactConstants
<1>1. /\ contact_at = "set" /\ contact_at' = "loop" /\ loaded' = 0 /\ Booted
      /\ radio_last_received_time' = Loaded(loaded)
      /\ forgotten' = (radio_last_received_time # 0)
      /\ UNCHANGED <<now, boot, clockVars, last_saved_received_time, radio_bin, last_contact, honest>>
      /\ writes \in Seq(Int) /\ record \in {"kept", "saving", "unkept", "lost"}
  BY DEF SetContact, ContactInv, PaceInv, TimeTypeInv
<1>2. \/ /\ loaded > timing_now /\ writes' = Append(writes, timing_now)
         /\ record' = Overwritten
      \/ ~(loaded > timing_now) /\ UNCHANGED <<writes, record>>
  BY DEF SetContact, write_file
<1>3. timing_now \in Int /\ Loaded(loaded) \in Int
  BY DEF ContactInv, TimeTypeInv, Loaded, timing_now, Uptime
<1>4. ClockInv' /\ (Booted' <=> Booted)
  BY <1>1, ClockRests
<1>5. forgotten' \in BOOLEAN
  BY <1>1, Zenon
<1>6. record' \in {"kept", "saving", "unkept", "lost"} /\ (record' # "lost" <=> record # "lost")
      /\ (record' \in {"kept", "saving"} => UNCHANGED <<writes, record>>)
  BY <1>1, <1>2 DEF Overwritten
<1>7. writes' \in Seq(Int)
  BY <1>1, <1>2, <1>3, WritesGrow
<1>8. TimeTypeInv' /\ PaceInv'
  <2>1. TimeTypeInv'
    BY <1>1, <1>3, <1>5, <1>6, <1>7 DEF ContactInv, TimeTypeInv, clockVars
  <2>2. PaceInv'
    BY <1>1, <1>4 DEF ContactInv, PaceInv, clockVars
  <2> QED BY <2>1, <2>2
<1>9. ASSUME honest PROVE TimesInv' /\ RecordInv' /\ LoadInv'
  <2>1. /\ epoch_time \in Epoch + now - Slack .. Epoch + now /\ epoch_time >= Epoch
        /\ timing_now = epoch_time
    BY <1>1, <1>9, EpochIsRecent
  <2>2. /\ TimesInv /\ RecordInv /\ LoadInv /\ loaded \in Int
        /\ last_contact \in -1 .. now /\ now \in Nat /\ radio_last_received_time \in Int
    BY DEF ContactInv, TimeTypeInv
  <2>3. Loaded(loaded) = 0 \/ (NotAfter(Loaded(loaded)) /\ Loaded(loaded) <= epoch_time)
    BY <1>9, <2>1, <2>2 DEF TimesInv, NotAfter, Loaded
  <2>4. loaded > timing_now => NotAfter(timing_now)
    BY <1>9, <2>1, <2>2 DEF TimesInv, NotAfter
  <2>5. TimesInv'
    <3>1. ASSUME NEW i \in 1 .. Len(writes') PROVE writes'[i] = 0 \/ NotAfter(writes'[i])
      <4>1. CASE UNCHANGED writes
        BY <1>9, <2>2, <3>1, <4>1 DEF TimesInv
      <4>2. CASE loaded > timing_now /\ writes' = Append(writes, timing_now)
        <5>1. (i \in 1 .. Len(writes) /\ writes'[i] = writes[i]) \/ writes'[i] = timing_now
          BY <1>1, <1>3, <3>1, <4>2, WritesGrow
        <5> QED BY <1>9, <2>2, <2>4, <4>2, <5>1 DEF TimesInv
      <4> QED BY <1>2, <4>1, <4>2
    <3>2. /\ radio_bin \in {NeverSaved, HalfSaved, 0} \/ NotAfter(radio_bin)
          /\ last_saved_received_time = 0 \/ last_saved_received_time \in Epoch .. epoch_time
      BY <1>9, <2>2 DEF TimesInv
    <3> QED BY <1>1, <2>3, <3>1, <3>2 DEF TimesInv, NotAfter, clockVars
  <2>6. RecordInv'
    BY <1>1, <1>6, <1>9, <2>2 DEF RecordInv, Remembered
  <2>7. LoadInv'
    <3>1. ASSUME record' # "lost", ~forgotten' PROVE Remembered(Loaded(loaded))
      <4>1. radio_last_received_time = 0
        BY <1>1, <3>1, Zenon
      <4>2. record = "kept" /\ Remembered(loaded)
        BY <1>1, <1>6, <1>9, <2>2, <3>1, <4>1 DEF LoadInv
      <4> QED BY <2>1, <2>2, <4>2 DEF Loaded, Remembered, Slack
    <3> QED BY <1>1, <3>1 DEF LoadInv, Remembered
  <2> QED BY <2>5, <2>6, <2>7
<1>10. ~honest => TimesInv' /\ RecordInv' /\ LoadInv'
  BY <1>1 DEF TimesInv, RecordInv, LoadInv
<1> QED BY <1>4, <1>8, <1>9, <1>10 DEF ContactInv

\* It creates radio.bin, and keeps what the radio task has.
LEMMA CreateContactInv ==
    ASSUME ContactInv, CreateContact
    PROVE  ContactInv'
<1> USE ContactConstants
<1>1. /\ contact_at = "create" /\ contact_at' = "loop" /\ loaded' = 0 /\ Booted
      /\ forgotten' = (radio_last_received_time = 0)
      /\ writes' = Append(writes, loaded) /\ record' = Overwritten
      /\ UNCHANGED <<now, boot, clockVars, radio_last_received_time, last_saved_received_time,
                     radio_bin, last_contact, honest>>
      /\ writes \in Seq(Int) /\ record \in {"kept", "saving", "unkept", "lost"} /\ loaded \in Int
  BY DEF CreateContact, write_file, ContactInv, PaceInv, TimeTypeInv
<1>2. ClockInv' /\ (Booted' <=> Booted)
  BY <1>1, ClockRests
<1>3. forgotten' \in BOOLEAN
  BY <1>1, Zenon
<1>4. record' \in {"unkept", "lost"} /\ (record' # "lost" <=> record # "lost")
  BY <1>1 DEF Overwritten
<1>5. /\ writes' \in Seq(Int)
      /\ \A i \in 1 .. Len(writes) : writes'[i] = writes[i]
      /\ \A i \in 1 .. Len(writes') : i \in 1 .. Len(writes) \/ writes'[i] = loaded
  BY <1>1, WritesGrow
<1>6. TimeTypeInv' /\ PaceInv'
  <2>1. TimeTypeInv'
    BY <1>1, <1>3, <1>4, <1>5 DEF ContactInv, TimeTypeInv, clockVars
  <2>2. PaceInv'
    BY <1>1, <1>2 DEF ContactInv, PaceInv, clockVars
  <2> QED BY <2>1, <2>2
<1>7. ASSUME honest PROVE TimesInv' /\ RecordInv' /\ LoadInv'
  <2>1. TimesInv /\ RecordInv /\ LoadInv
    BY DEF ContactInv
  <2>2. TimesInv'
    <3>1. ASSUME NEW i \in 1 .. Len(writes') PROVE writes'[i] = 0 \/ NotAfter(writes'[i])
      BY <1>5, <1>7, <2>1, <3>1 DEF TimesInv
    <3> QED BY <1>1, <1>7, <2>1, <3>1 DEF TimesInv, NotAfter, clockVars
  <2>3. RecordInv'
    BY <1>1, <1>4, <1>7, <2>1 DEF RecordInv
  <2>4. LoadInv'
    <3>1. ASSUME record' # "lost", ~forgotten' PROVE Remembered(radio_last_received_time)
      <4>1. radio_last_received_time # 0
        BY <1>1, <3>1, Zenon
      <4>2. ~forgotten
        BY <1>1 DEF ContactInv, PaceInv
      <4> QED BY <1>4, <1>7, <2>1, <3>1, <4>1, <4>2 DEF LoadInv
    <3> QED BY <1>1, <3>1 DEF LoadInv, Remembered
  <2> QED BY <2>2, <2>3, <2>4
<1>8. ~honest => TimesInv' /\ RecordInv' /\ LoadInv'
  BY <1>1 DEF TimesInv, RecordInv, LoadInv
<1> QED BY <1>2, <1>6, <1>7, <1>8 DEF ContactInv

\* A contact is marked, and saved when the last save is too long ago.
LEMMA FlagInv ==
    ASSUME ContactInv, radio_flag_valid_packet
    PROVE  ContactInv'
<1> USE ContactConstants
<1>1. /\ Booted /\ radio_last_received_time' = timing_now /\ last_contact' = now
      /\ forgotten' = FALSE
      /\ UNCHANGED <<now, boot, clockVars, loadVars, radio_bin, honest>>
      /\ writes \in Seq(Int) /\ record \in {"kept", "saving", "unkept", "lost"}
  BY DEF radio_flag_valid_packet, ContactInv, TimeTypeInv, Booted
<1>2. \/ /\ writes' = Append(writes, timing_now) /\ last_saved_received_time' = timing_now
         /\ record' = "saving"
      \/ /\ ~SaveIsDue(timing_now) /\ UNCHANGED <<writes, last_saved_received_time>>
         /\ record' = IF record \in {"saving", "unkept"} THEN record
                      ELSE IF Uptime <= SaveInterval THEN "unkept" ELSE "kept"
  BY DEF radio_flag_valid_packet, write_file
<1>3. timing_now \in Int
  BY DEF ContactInv, TimeTypeInv, timing_now, Uptime
<1>4. ClockInv' /\ (Booted' <=> Booted)
  BY <1>1, ClockRests
<1>5. forgotten' \in BOOLEAN /\ ~forgotten'
  BY <1>1, Zenon
<1>6. writes' \in Seq(Int) /\ record' \in {"kept", "saving", "unkept"}
  <2>1. writes' \in Seq(Int)
    BY <1>1, <1>2, <1>3, WritesGrow
  <2> QED BY <1>2, <2>1
<1>7. TimeTypeInv' /\ PaceInv'
  <2>1. TimeTypeInv'
    BY <1>1, <1>2, <1>3, <1>5, <1>6 DEF ContactInv, TimeTypeInv, clockVars, loadVars
  <2>2. PaceInv'
    BY <1>1, <1>4, <1>5 DEF ContactInv, PaceInv, clockVars, loadVars
  <2> QED BY <2>1, <2>2
<1>8. ASSUME honest PROVE TimesInv' /\ RecordInv' /\ LoadInv'
  <2>1. /\ epoch_time \in Epoch + now - Slack .. Epoch + now /\ epoch_time >= Epoch
        /\ timing_now = epoch_time
    BY <1>1, <1>8, EpochIsRecent
  <2>2. /\ TimesInv /\ RecordInv /\ LoadInv
        /\ last_contact \in -1 .. now /\ now \in Nat /\ boot \in 0 .. now
        /\ radio_bin \in Int /\ last_saved_received_time \in Int
    BY DEF ContactInv, TimeTypeInv
  <2>3. timing_now # 0 /\ timing_now >= Epoch /\ timing_now <= Epoch + now
        /\ timing_now >= Epoch + now - Slack - SaveInterval
    BY <2>1, <2>2 DEF Slack
  <2>4. TimesInv'
    <3> DEFINE Past(t) == t >= Epoch /\ t <= Epoch + now
    <3>1. \A t \in Int : NotAfter(t) => Past(t)
      BY <2>2 DEF NotAfter
    <3>2. Past(timing_now)
      BY <2>3
    <3> HIDE DEF Past
    <3>3. ASSUME NEW i \in 1 .. Len(writes') PROVE writes'[i] = 0 \/ Past(writes'[i])
      <4>1. \A j \in 1 .. Len(writes) : writes[j] = 0 \/ Past(writes[j])
        BY <1>1, <1>8, <2>2, <3>1 DEF TimesInv
      <4>2. CASE UNCHANGED writes
        BY <3>3, <4>1, <4>2
      <4>3. CASE writes' = Append(writes, timing_now)
        <5>1. (i \in 1 .. Len(writes) /\ writes'[i] = writes[i]) \/ writes'[i] = timing_now
          BY <1>1, <1>3, <3>3, <4>3, WritesGrow
        <5> QED BY <3>2, <4>1, <5>1
      <4> QED BY <1>2, <4>2, <4>3
    <3>6. \A i \in 1 .. Len(writes') : writes'[i] = 0 \/ NotAfter(writes[i])'
      <4>1. last_contact' = now /\ now # -1
        BY <1>1, <2>2
      <4> QED BY <3>3, <4>1 DEF Past, NotAfter
    <3>4. \/ radio_last_received_time' = 0
          \/ NotAfter(radio_last_received_time)' /\ radio_last_received_time' <= epoch_time'
      BY <1>1, <2>1, <2>2, <2>3 DEF NotAfter, clockVars
    <3>5. /\ radio_bin' \in {NeverSaved, HalfSaved, 0} \/ NotAfter(radio_bin)'
          /\ loaded' = 0 \/ NotAfter(loaded)'
          /\ last_saved_received_time' = 0 \/ last_saved_received_time' \in Epoch .. epoch_time'
      <4>1. loaded = 0 \/ NotAfter(loaded)
        BY <1>8, <2>2 DEF TimesInv
      <4>2. radio_bin \in {NeverSaved, HalfSaved, 0} \/ NotAfter(radio_bin)
        BY <1>8, <2>2 DEF TimesInv
      <4>3. last_saved_received_time = 0 \/ last_saved_received_time \in Epoch .. epoch_time
        BY <1>8, <2>2 DEF TimesInv
      <4>4. loaded \in Int /\ epoch_time' = epoch_time /\ loaded' = loaded
        BY <1>1 DEF ContactInv, TimeTypeInv, clockVars, loadVars
      <4>5. last_saved_received_time' = 0 \/ last_saved_received_time' \in Epoch .. epoch_time'
        BY <1>2, <2>1, <4>3, <4>4
      <4>6. loaded' = 0 \/ NotAfter(loaded)'
        BY <1>1, <2>2, <4>1, <4>4 DEF NotAfter
      <4>7. radio_bin' \in {NeverSaved, HalfSaved, 0} \/ NotAfter(radio_bin)'
        BY <1>1, <2>2, <4>2 DEF NotAfter
      <4> QED BY <4>5, <4>6, <4>7
    <3> QED BY <3>4, <3>5, <3>6 DEF TimesInv
  <2>5. RecordInv'
    <3>1. CASE /\ writes' = Append(writes, timing_now) /\ last_saved_received_time' = timing_now
               /\ record' = "saving"
      <4>1. writes' # <<>> /\ writes'[Len(writes')] = timing_now
        BY <1>1, <1>3, <3>1, WritesGrow
      <4> QED BY <1>1, <2>3, <3>1, <4>1 DEF RecordInv, Remembered
    <3>2. CASE /\ ~SaveIsDue(timing_now) /\ UNCHANGED <<writes, last_saved_received_time>>
               /\ record' = IF record \in {"saving", "unkept"} THEN record
                            ELSE IF Uptime <= SaveInterval THEN "unkept" ELSE "kept"
      <4>1. ASSUME last_saved_received_time # 0
            PROVE  last_saved_received_time >= Epoch
                   /\ last_saved_received_time >= Epoch + now - Slack - SaveInterval
        <5>1. last_saved_received_time \in Epoch .. epoch_time
          BY <1>8, <2>2, <4>1 DEF TimesInv
        <5>2. epoch_time - last_saved_received_time <= SaveInterval
          BY <2>1, <3>2, <5>1 DEF SaveIsDue, time_since_ms
        <5> QED BY <2>1, <2>2, <5>1, <5>2 DEF Slack
      <4>2. record' = "kept" => Uptime > SaveInterval /\ record \in {"kept", "lost"}
        BY <1>1, <2>2, <3>2 DEF Uptime
      <4>3. Uptime > SaveInterval => last_saved_received_time # 0
        BY <2>2, <3>2 DEF SaveIsDue, time_since_ms, Uptime
      <4>4. record' = "kept" =>
                record = "kept" /\ last_saved_received_time # 0 /\ writes = <<>>
                /\ radio_bin = last_saved_received_time
        BY <1>8, <2>2, <4>2, <4>3 DEF RecordInv
      <4>5. record' = "saving" => record = "saving"
        BY <3>2
      <4> QED BY <1>1, <1>6, <1>8, <2>2, <3>2, <4>1, <4>4, <4>5 DEF RecordInv, Remembered
    <3> QED BY <1>2, <3>1, <3>2
  <2>6. LoadInv'
    <3>1. Remembered(radio_last_received_time)'
      BY <1>1, <2>3 DEF Remembered
    <3>2. radio_last_received_time' # 0
      BY <1>1, <2>3
    <3> QED BY <3>1, <3>2 DEF LoadInv
  <2> QED BY <2>4, <2>5, <2>6
<1>9. ~honest => TimesInv' /\ RecordInv' /\ LoadInv'
  BY <1>1 DEF TimesInv, RecordInv, LoadInv
<1> QED BY <1>4, <1>7, <1>8, <1>9 DEF ContactInv

\* A reset: what was written down in memory is gone, what is in radio.bin stays.
LEMMA TimeResetInv ==
    ASSUME ContactInv, TimeReset
    PROVE  ContactInv'
<1> USE ContactConstants DEF TimeReset
<1>1. epoch_time_updated' \in BOOLEAN /\ forgotten' \in BOOLEAN /\ ~forgotten'
  BY Zenon
<1>2. TimeTypeInv' /\ PaceInv'
  <2>1. writes' \in Seq(Int) /\ radio_bin' \in Int
    BY DEF ContactInv, TimeTypeInv, HalfSaved
  <2>2. record' \in {"kept", "lost"}
    OBVIOUS
  <2> QED BY <1>1, <2>1, <2>2 DEF ContactInv, TimeTypeInv, PaceInv, Booted
<1>3. ClockInv'
  BY DEF ContactInv, ClockInv, Booted
<1>4. TimesInv' /\ RecordInv' /\ LoadInv'
  BY DEF ContactInv, TimesInv, RecordInv, LoadInv, NotAfter, Remembered
<1> QED BY <1>2, <1>3, <1>4 DEF ContactInv

\* The invariant of the clock and the contact.
THEOREM ContactInvariance == TimeSpec => []ContactInv
<1>1. ContactInv /\ UNCHANGED timeVars => ContactInv'
  BY DEF ContactInv, TimeTypeInv, PaceInv, ClockInv, TimesInv, RecordInv, LoadInv, Booted,
         NotAfter, Remembered, timeVars, clockVars, loadVars, contactVars, pastVars
<1>2. ContactInv /\ [TimeNext]_timeVars => ContactInv'
  BY <1>1, TickInv, ClockStepInv, ReadContactInv, SetContactInv, CreateContactInv,
     WriteContactInv, FlagInv, TimeResetInv DEF TimeNext
<1> QED BY <1>2, TimeInitInv, PTL DEF TimeSpec

\* Whatever resets come, whatever saves fail and whatever init_radio finds, a satellite
\* whose last contact is longer ago than the deadman time and two heartbeats transmits
\* nothing, as long as every read of its clock, field by field, was of one moment
\* (radio_flag_valid_packet, init_radio and the loop of radio_task_cpp).
THEOREM SilencedByDeadman == TimeSpec => []SilentInTime
<1>1. ASSUME ContactInv PROVE SilentInTime
  <2> USE ContactConstants
  <2>1. SUFFICES ASSUME honest, contact_at = "loop", ~Silenced
                 PROVE  last_contact # -1 /\ now - last_contact <= Deadman + Slack
    BY DEF SilentInTime
  <2>2. /\ epoch_time \in Epoch + now - Slack .. Epoch + now /\ epoch_time >= Epoch
        /\ timing_now = epoch_time
    BY <1>1, <2>1, EpochIsRecent DEF ContactInv, PaceInv
  <2>3. /\ NotAfter(radio_last_received_time) /\ radio_last_received_time <= epoch_time
        /\ last_contact \in -1 .. now /\ now \in 0 .. MaxTime /\ radio_last_received_time \in Int
    BY <1>1, <2>1 DEF ContactInv, TimeTypeInv, TimesInv, Silenced
  <2>4. epoch_time - radio_last_received_time <= Deadman
    BY <2>1, <2>2, <2>3 DEF Silenced, time_since_ms, NotAfter
  <2> QED BY <2>2, <2>3, <2>4 DEF NotAfter, Slack
<1> QED BY ContactInvariance, <1>1, PTL

\* And one that was in contact recently is not silenced, even by a reset, unless a reset
\* came before the contact was saved, or init_radio did not find it in radio.bin or put
\* what it found there over a newer one.
THEOREM HeardIsNotSilenced == TimeSpec => []NotSilencedEarly
<1>1. ASSUME ContactInv PROVE NotSilencedEarly
  <2> USE ContactConstants
  <2>1. SUFFICES ASSUME honest, contact_at = "loop", record # "lost", ~forgotten,
                        now - last_contact <= Deadman - SaveInterval - Slack
                 PROVE  ~Silenced
    BY DEF NotSilencedEarly
  <2>2. /\ epoch_time \in Epoch + now - Slack .. Epoch + now /\ epoch_time >= Epoch
        /\ timing_now = epoch_time
    BY <1>1, <2>1, EpochIsRecent DEF ContactInv, PaceInv
  <2>3. /\ Remembered(radio_last_received_time)
        /\ radio_last_received_time = 0 \/ radio_last_received_time <= epoch_time
        /\ last_contact \in -1 .. now /\ now \in 0 .. MaxTime /\ radio_last_received_time \in Int
    BY <1>1, <2>1 DEF ContactInv, TimeTypeInv, TimesInv, LoadInv
  <2> QED BY <2>1, <2>2, <2>3 DEF Silenced, time_since_ms, Remembered, Slack
<1> QED BY ContactInvariance, <1>1, PTL
=============================================================================
