----------------------------- MODULE AuthMessages ------------------------------
(***************************************************************************)
(* The datagrams of the HW5 protocol.  A request is a bare payload: what   *)
(* it means - a username, a password, a text to hash - depends only on the *)
(* state the server has for the endpoint it comes from.                    *)
(***************************************************************************)

CONSTANTS
  Addr,    \* client endpoints, an IP address and an ephemeral port each
  Text,    \* payloads
  Empty,   \* the empty payload
  Bye,     \* the payload "bye"
  Alnum    \* payloads of letters and digits only, never the empty one

ASSUME TextAssumption ==
  /\ {Empty, Bye} \subseteq Text
  /\ Empty # Bye
  /\ Alnum \subseteq Text \ {Empty}

is_alphanumeric(m) == m \in Alnum

ReplyKind == {"Server busy", "Insert password", "Account not ready", "OK",
              "Account is blocked", "Not OK", "Goodbye", "Error", "hash"}

(* `of` is the username after "Goodbye" or the text that was hashed. *)
Reply == [to : Addr, kind : ReplyKind, of : Text]
================================================================================
