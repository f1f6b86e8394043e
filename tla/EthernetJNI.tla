---------------------------- MODULE EthernetJNI ----------------------------
(***************************************************************************)
(* The JNI glue of src/base/core/jni/android_net_Ethernet.cpp: the native  *)
(* methods of android.net.EthernetNative, each forwarding a command to the *)
(* ethernet driver library (ethernet.h, not part of the repository) and    *)
(* converting its reply for Java, and their registration.                  *)
(*                                                                         *)
(* The driver library is nondeterministic: a status, and a reply of any    *)
(* length it is given room for, over a small alphabet.  Buffer sizes are   *)
(* scaled down (BufLen stands for the 256-byte buffers, StatusBufLen for   *)
(* the 4096-byte one); what matters is that a reply can fill its buffer.  *)
(* Replies to commands are sequences of word tokens, a token standing for *)
(* its characters (no token is the concatenation of others, so C string   *)
(* comparison is sequence equality); the MAC address reply, which sscanf  *)
(* parses, is a sequence of characters.                                   *)
(***************************************************************************)
EXTENDS Integers, SequencesExt

CONSTANTS
  BufLen,        \* size of the 256-byte reply buffers, scaled
  StatusBufLen,  \* size of the 4096-byte reply buffer, scaled
  WordTokens,    \* words a driver reply may contain
  MacChars,      \* characters of a reply to DRIVER MACADDR
  DriverStatus,  \* return codes of the driver library calls
  MaxCalls       \* native calls Java makes

ASSUME BufLen \in Nat \ {0} /\ StatusBufLen \in Nat \ {0}
ASSUME 0 \in DriverStatus
ASSUME MaxCalls \in Nat

NL   == "\n"
SP   == " "
NULL == "NULL"
WhiteSpace == {SP, NL}

\* The expected words of doBooleanCommand.
OK   == <<"OK">>
PONG == <<"PONG">>

(***************************************************************************)
(* doCommand: the driver may write as many bytes as reply_len allows,     *)
(* and reports how many; a trailing newline is overwritten by the         *)
(* terminator, else the terminator goes after the reply.  term is the     *)
(* index of the terminator in replybuf.                                   *)
(***************************************************************************)
\* Mutant: reply_len is the whole buffer, leaving no room for the terminator.
ReplyCapacityFull(buflen) == buflen

\* reply_len as passed to ethernet_command.
ReplyCapacity(buflen) == buflen - 1

\* The replies the driver can give for a buffer of buflen bytes.
DriverReplies(chars, buflen) == SeqOf(chars \cup {NL}, ReplyCapacity(buflen))

\* Mutant: the trailing byte is dropped whether or not it is a newline.
DoCommandStripsAny(rc, bytes) ==
  LET n == Len(bytes)
  IN  CASE rc # 0 -> [rc |-> -1]
        [] n > 0  -> [rc |-> 0, text |-> SubSeq(bytes, 1, n - 1), term |-> n - 1]
        [] OTHER  -> [rc |-> 0, text |-> bytes, term |-> n]

DoCommand(rc, bytes) ==
  LET n == Len(bytes)
  IN  CASE rc # 0                 -> [rc |-> -1]
        [] n > 0 /\ bytes[n] = NL -> [rc |-> 0, text |-> SubSeq(bytes, 1, n - 1),
                                      term |-> n - 1]
        [] OTHER                  -> [rc |-> 0, text |-> bytes, term |-> n]

DoBooleanCommand(rc, bytes, expect) ==
  LET r == DoCommand(rc, bytes) IN r.rc = 0 /\ r.text = expect

\* String16 and NewString carry the (ASCII) text over unchanged.
DoStringCommand(rc, bytes) ==
  LET r == DoCommand(rc, bytes) IN IF r.rc # 0 THEN NULL ELSE r.text

(***************************************************************************)
(* sscanf(reply, "%*s = %<width>s", buf): %*s skips white space and one   *)
(* word; a blank in the format skips any white space; "=" must match;     *)
(* %s skips white space and takes up to width characters of a word.  The  *)
(* result is the address, or NULL when sscanf did not assign it.          *)
(***************************************************************************)
\* The first index from i on holding a character that satisfies P, or
\* Len(s) + 1.
NextWhere(s, i, P(_)) ==
  LET k == SelectInSubSeq(s, i, Len(s), P) IN IF k = 0 THEN Len(s) + 1 ELSE k

NextNonSpace(s, i) == NextWhere(s, i, LAMBDA ch : ch \notin WhiteSpace)
NextSpace(s, i)    == NextWhere(s, i, LAMBDA ch : ch \in WhiteSpace)

\* Mutant: the literal "=" of the format is not required.
ScanMacNoLiteral(s, width) ==
  LET i1 == NextNonSpace(s, 1)
      i2 == NextNonSpace(s, NextSpace(s, i1))
      i4 == NextNonSpace(s, i2)
      j4 == IF NextSpace(s, i4) < i4 + width THEN NextSpace(s, i4) ELSE i4 + width
  IN  IF i1 > Len(s) \/ i4 > Len(s) THEN NULL ELSE SubSeq(s, i4, j4 - 1)

ScanMac(s, width) ==
  LET i1 == NextNonSpace(s, 1)              \* %*s
      i2 == NextNonSpace(s, NextSpace(s, i1)) \* " "
      i4 == NextNonSpace(s, i2 + 1)          \* "=" then " "
      j4 == IF NextSpace(s, i4) < i4 + width THEN NextSpace(s, i4) ELSE i4 + width
  IN  IF \/ i1 > Len(s)
         \/ i2 > Len(s)
         \/ s[i2] # "="
         \/ i4 > Len(s)
        THEN NULL
        ELSE SubSeq(s, i4, j4 - 1)

\* getMacAddressCommand: buf is as large as reply, and %255s leaves room
\* for its terminator.
GetMacAddressResult(rc, bytes) ==
  LET r == DoCommand(rc, bytes)
  IN  IF r.rc # 0 THEN NULL ELSE ScanMac(r.text, BufLen - 1)

(***************************************************************************)
(* The native methods that send a command and compare the reply with a    *)
(* word (133-180, 201-207); setSuspendOptimizationsCommand formats its    *)
(* command from its argument.                                             *)
(***************************************************************************)
BooleanCommands ==
  {[method |-> "pingCommand", cmd |-> "PING", expect |-> PONG],
   [method |-> "disconnectCommand", cmd |-> "DISCONNECT", expect |-> OK],
   [method |-> "reconnectCommand", cmd |-> "RECONNECT", expect |-> OK],
   [method |-> "reassociateCommand", cmd |-> "REASSOCIATE", expect |-> OK],
   [method |-> "startDriverCommand", cmd |-> "DRIVER START", expect |-> OK],
   [method |-> "stopDriverCommand", cmd |-> "DRIVER STOP", expect |-> OK],
   [method |-> "upEthernetCommand", cmd |-> "DRIVER UP", expect |-> OK],
   [method |-> "downEthernetCommand", cmd |-> "DRIVER DOWN", expect |-> OK],
   [method |-> "IpAvailableCommand", cmd |-> "DRIVER IP", expect |-> OK]}
  \cup
  {[method |-> "setSuspendOptimizationsCommand",
    cmd |-> IF enabled THEN "DRIVER SETSUSPENDOPT 0" ELSE "DRIVER SETSUSPENDOPT 1",
    expect |-> OK] : enabled \in BOOLEAN}

VARIABLES
  fieldIds,  \* dhcpInfoFieldIds: "unset", "cached", or "no_class"
  info,      \* the Java DhcpInfo object passed to doDhcpRequest
  last,      \* the last native call: method, driver reply, result
  calls      \* native calls made, bounded by MaxCalls

vars == <<fieldIds, info, last, calls>>

Init ==
  /\ fieldIds = "unset"
  /\ info = "empty"
  /\ last = [method |-> "none"]
  /\ calls = 0

\* register_android_net_EthernetManager: look up DhcpInfo's field IDs, then
\* register the natives, which Java cannot call before.
Register ==
  /\ fieldIds = "unset"
  /\ \E found \in BOOLEAN : fieldIds' = IF found THEN "cached" ELSE "no_class"
  /\ UNCHANGED <<info, last, calls>>

\* A native method may run: registered, and a call left in the bound.
Registered ==
  /\ fieldIds # "unset"
  /\ calls < MaxCalls
  /\ calls' = calls + 1

\* loadDriver, unloadDriver: the library's status compared with 0.
DriverControl ==
  /\ Registered
  /\ \E f \in {"loadDriver", "unloadDriver"}, rc \in DriverStatus :
       last' = [method |-> f, result |-> rc = 0]
  /\ UNCHANGED <<fieldIds, info>>

\* waitForEvent: the event text when the library read any, else NULL.
WaitForEvent ==
  /\ Registered
  /\ \E nread \in {-1, 0, 1} :
       last' = [method |-> "waitForEvent",
                result |-> IF nread > 0 THEN "event" ELSE NULL]
  /\ UNCHANGED <<fieldIds, info>>

StatusCommand ==
  /\ Registered
  /\ \E rc \in DriverStatus, bytes \in DriverReplies(WordTokens, StatusBufLen) :
       last' = [method |-> "statusCommand", rc |-> rc, reply |-> bytes,
                buflen |-> StatusBufLen, cmd |-> DoCommand(rc, bytes),
                result |-> DoStringCommand(rc, bytes)]
  /\ UNCHANGED <<fieldIds, info>>

BooleanCommand ==
  /\ Registered
  /\ \E b \in BooleanCommands, rc \in DriverStatus,
        bytes \in DriverReplies(WordTokens, BufLen) :
       last' = [method |-> b.method, expect |-> b.expect, rc |-> rc,
                reply |-> bytes, buflen |-> BufLen, cmd |-> DoCommand(rc, bytes),
                result |-> DoBooleanCommand(rc, bytes, b.expect)]
  /\ UNCHANGED <<fieldIds, info>>

GetMacAddress ==
  /\ Registered
  /\ \E rc \in DriverStatus, bytes \in DriverReplies(MacChars, BufLen) :
       last' = [method |-> "getMacAddressCommand", rc |-> rc, reply |-> bytes,
                buflen |-> BufLen, cmd |-> DoCommand(rc, bytes),
                result |-> GetMacAddressResult(rc, bytes)]
  /\ UNCHANGED <<fieldIds, info>>

\* Mutant: the lease is stored without checking that DhcpInfo was found.
DoDhcpRequestUnchecked ==
  /\ Registered
  /\ \E rc \in DriverStatus :
       LET succeeded == rc % 256 = 0
       IN  /\ info' = IF succeeded THEN "lease" ELSE info
           /\ last' = [method |-> "doDhcpRequest", result |-> succeeded]
  /\ UNCHANGED fieldIds

\* doDhcpRequest: the status is cast to jboolean (8 bits) before it is
\* compared with 0; the lease is stored only if the field IDs were found.
DoDhcpRequest ==
  /\ Registered
  /\ \E rc \in DriverStatus :
       LET succeeded == rc % 256 = 0
       IN  /\ info' = IF succeeded /\ fieldIds = "cached" THEN "lease" ELSE info
           /\ last' = [method |-> "doDhcpRequest", result |-> succeeded]
  /\ UNCHANGED fieldIds

\* getDhcpError: the library's error string.
GetDhcpError ==
  /\ Registered
  /\ last' = [method |-> "getDhcpError", result |-> "dhcp_error"]
  /\ UNCHANGED <<fieldIds, info>>

Next ==
  \/ Register
  \/ DriverControl
  \/ WaitForEvent
  \/ StatusCommand
  \/ BooleanCommand
  \/ GetMacAddress
  \/ DoDhcpRequest
  \/ GetDhcpError

Spec == Init /\ [][Next]_vars

-----------------------------------------------------------------------------
(***************************************************************************)
(* Properties.                                                             *)
(***************************************************************************)
SentCommand == last.method # "none" /\ "cmd" \in DOMAIN last

TypeOK ==
  /\ fieldIds \in {"unset", "cached", "no_class"}
  /\ info \in {"empty", "lease"}
  /\ calls \in 0..MaxCalls
  /\ info = "lease" => fieldIds = "cached"
  /\ SentCommand => last.reply \in Seq(WordTokens \cup MacChars \cup {NL})

(***************************************************************************)
(* doCommand writes its terminator inside replybuf, wherever the driver's *)
(* reply ends: the room it gives the driver (reply_len, 52) leaves one    *)
(* byte, also when a reply fills it without a trailing newline (64).      *)
(***************************************************************************)
ReplyTerminatorInBuffer ==
  SentCommand /\ last.cmd.rc = 0 => last.cmd.term \in 0..(last.buflen - 1)

(***************************************************************************)
(* A boolean command (doBooleanCommand) reports success exactly when the  *)
(* driver succeeded and replied with the expected word, alone or followed *)
(* by one newline.                                                        *)
(***************************************************************************)
BooleanCommandResult ==
  "expect" \in DOMAIN last =>
    last.result = (last.rc = 0 /\ \E k \in 0..1 :
                     last.reply = last.expect \o [i \in 1..k |-> NL])

(***************************************************************************)
(* The white-space separated words of a reply: the reference reading of   *)
(* "Macaddr = XX.XX.XX.XX.XX.XX" the comment at 190 describes.            *)
(***************************************************************************)
RECURSIVE Words(_)
Words(s) ==
  LET i == NextNonSpace(s, 1)
  IN  IF i > Len(s) THEN <<>>
      ELSE LET j == NextSpace(s, i)
           IN  <<SubSeq(s, i, j - 1)>> \o Words(SubSeq(s, j, Len(s)))

\* The address a "name = address" reply carries, at most width characters.
MacAddressOf(s, width) ==
  LET w == Words(s)
      cut(a) == SubSeq(a, 1, IF Len(a) < width THEN Len(a) ELSE width)
  IN  CASE Len(w) >= 3 /\ w[2] = <<"=">>          -> cut(w[3])
        [] Len(w) >= 2 /\ w[2][1] = "=" /\ Len(w[2]) > 1 -> cut(Tail(w[2]))
        [] OTHER                                     -> NULL

(***************************************************************************)
(* getMacAddressCommand returns the address of a well-formed reply, the   *)
(* word after "=", and NULL for any other reply or a failed command.      *)
(***************************************************************************)
MacAddressResult ==
  last.method = "getMacAddressCommand" =>
    last.result = IF last.rc # 0 THEN NULL
                  ELSE MacAddressOf(last.reply, BufLen - 1)

=============================================================================
