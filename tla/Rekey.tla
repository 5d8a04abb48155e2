-------------------------------- MODULE Rekey ------------------------------
(***************************************************************************)
(* The key fields of a chat and the rules of rekey.py on them. A key is a  *)
(* number, 0 the one the handshake agreed; k is a chat's key fields.       *)
(***************************************************************************)
EXTENDS Integers

\* Python's None for a key and for an exchange id.
NoKey == -1
NoExchange == -1

Key == Nat \cup {NoKey}
Role == {"none", "requested", "accepted"}

KeyState == [key : Key, pending_key : Key, previous_key : Key,
             new_key_confirmed : BOOLEAN, exchange_id : Int,
             exchange_secret : BOOLEAN, rekey_role : Role]

InitialKeys ==
  [key |-> 0, pending_key |-> NoKey, previous_key |-> NoKey,
   new_key_confirmed |-> FALSE, exchange_id |-> NoExchange,
   exchange_secret |-> FALSE, rekey_role |-> "none"]

\* select_key finds a frame's key among these.
HeldKeys(k) == {k.key, k.pending_key, k.previous_key} \ {NoKey}

\* Faulty variant: the secret of the exchange is kept.
Bad_clear(k) ==
  [k EXCEPT !.exchange_id = NoExchange, !.pending_key = NoKey,
            !.rekey_role = "none"]

clear(k) ==
  [k EXCEPT !.exchange_id = NoExchange, !.pending_key = NoKey,
            !.exchange_secret = FALSE, !.rekey_role = "none"]

\* Faulty variant: the replaced key is thrown away at once.
Bad_adopt_new_key(k, new) ==
  [clear(k) EXCEPT !.key = new, !.new_key_confirmed = FALSE]

adopt_new_key(k, new) ==
  [clear(k) EXCEPT !.previous_key = k.key, !.key = new,
                   !.new_key_confirmed = FALSE]

retire_previous_key_if_settled(k, gap_requested) ==
  IF k.previous_key # NoKey /\ k.new_key_confirmed /\ ~ gap_requested
    THEN [k EXCEPT !.previous_key = NoKey]
  ELSE k

\* What a frame under key `named` tells the receiver about the switch.
Witnessed(k, named) ==
  IF k.pending_key # NoKey /\ named = k.pending_key
    THEN [adopt_new_key(k, named) EXCEPT !.new_key_confirmed = TRUE]
  ELSE IF named = k.key /\ k.previous_key # NoKey
    THEN [k EXCEPT !.new_key_confirmed = TRUE]
  ELSE k

\* Faulty variants: both sides join the other's exchange; both sides hold on
\* to their own when the ids are equal.
Bad_resolve_collision(mine, theirs) == "join_theirs"
Bad_tie(mine, theirs) ==
  IF mine >= theirs THEN "abandon_theirs" ELSE "join_theirs"

resolve_collision(mine, theirs) ==
  IF mine > theirs THEN "abandon_theirs"
  ELSE IF mine < theirs THEN "join_theirs"
  ELSE "abort_both"

\* start()'s prepared(): the exchange this side has just requested.
Requested(k, e) ==
  [k EXCEPT !.exchange_id = e, !.exchange_secret = TRUE,
            !.rekey_role = "requested"]

\* _on_request()'s prepared(): the peer's exchange, joined with a new key.
Accepted(k, e, new) ==
  [k EXCEPT !.exchange_id = e, !.exchange_secret = FALSE,
            !.pending_key = new, !.rekey_role = "accepted"]

\* Faulty variant: the exchange ends without adopting its key.
Bad_Committed(k) == clear(k)

\* _on_commit()'s prepared().
Committed(k) ==
  [adopt_new_key(k, k.pending_key) EXCEPT !.new_key_confirmed = TRUE]

Scrubbed(k) ==
  [clear(k) EXCEPT !.key = NoKey, !.previous_key = NoKey]
============================================================================
