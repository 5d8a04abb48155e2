---------------------------- MODULE DiffieHellman ----------------------------
(***************************************************************************)
(* The arithmetic of the key exchange (dh.py, handshake.py), with real     *)
(* numbers of DH_BITS bits: what a side checks of the parameters and of    *)
(* the value it is sent, and the key it derives.  The server may offer any *)
(* parameters; the two sides are honest and draw any secret.               *)
(***************************************************************************)
EXTENDS Integers, Sequences

CONSTANTS
  DH_BITS,           \* 2048 in the code
  FLOOR_BITS,        \* 2048 - 64 in the code: PEER_VALUE_FLOOR is 2^FLOOR_BITS
  MillerRabinBases,  \* the bases a run of the primality test draws
  Digit              \* the base of the bytes a key is written in: 256 in the code

ASSUME DiffieHellmanAssumption ==
  DH_BITS \in 2..15 /\ FLOOR_BITS \in 0..(DH_BITS - 2) /\ Digit \in Nat \ {0, 1}

VARIABLES
  dh_stage,  \* "offered", "requested", "accepted", "agreed" or "refused"
  config,    \* the g and p the server answers getDhConfig with
  exponent,  \* side -> its private exponent
  public,    \* side -> the value it published
  agreed     \* side -> the key it derived, as bytes
dh_vars == <<dh_stage, config, exponent, public, agreed>>

NoKey == <<>>
PEER_VALUE_FLOOR == 2 ^ FLOOR_BITS
KEY_LENGTH == CHOOSE n \in 1..DH_BITS : Digit ^ n >= 2 ^ DH_BITS /\ Digit ^ (n - 1) < 2 ^ DH_BITS

(***************************************************************************)
(* dh.py                                                                   *)
(***************************************************************************)
\* pow(b, e, m)
ModPow(b, e, m) ==
  LET f[i \in 0..e] == IF i = 0 THEN 1 % m ELSE (f[i - 1] * b) % m IN f[e]

SMALL_PRIMES == {2, 3, 5, 7, 11, 13, 17, 19, 23, 29, 31, 37, 41, 43, 47}

\* One round of Miller-Rabin: n - 1 is d times 2^s with d odd.
SurvivesRound(n, a) ==
  LET s == CHOOSE k \in 0..DH_BITS : (n - 1) % 2 ^ k = 0 /\ ((n - 1) \div 2 ^ k) % 2 = 1
      x == ModPow(a, (n - 1) \div 2 ^ s, n)
  IN  x = 1 \/ \E r \in 0..(s - 1) : ModPow(x, 2 ^ r, n) = n - 1

is_probable_prime(n) ==
  /\ n >= 2
  /\ IF \E q \in SMALL_PRIMES : n % q = 0
     THEN n \in SMALL_PRIMES
     ELSE \A a \in MillerRabinBases : SurvivesRound(n, a)

is_safe_prime(p) == is_probable_prime(p) /\ is_probable_prime((p - 1) \div 2)

\* g -> what p must be congruent to, by quadratic reciprocity; g = 4 is a square.
RESIDUE_CONDITIONS ==
  [g \in {2, 3, 4, 5, 6, 7} |->
     CASE g = 2 -> [modulus |-> 8, allowed |-> {7}]
       [] g = 3 -> [modulus |-> 3, allowed |-> {2}]
       [] g = 4 -> [modulus |-> 1, allowed |-> {0}]
       [] g = 5 -> [modulus |-> 5, allowed |-> {1, 4}]
       [] g = 6 -> [modulus |-> 24, allowed |-> {19, 23}]
       [] g = 7 -> [modulus |-> 7, allowed |-> {3, 5, 6}]]

\* Faulty variant: 6 is taken for a residue wherever 3 is one.
Bad_generator_is_quadratic_residue(g, p) ==
  /\ g \in DOMAIN RESIDUE_CONDITIONS
  /\ IF g = 6 THEN p % 12 = 11
     ELSE p % RESIDUE_CONDITIONS[g].modulus \in RESIDUE_CONDITIONS[g].allowed

generator_is_quadratic_residue(g, p) ==
  /\ g \in DOMAIN RESIDUE_CONDITIONS
  /\ p % RESIDUE_CONDITIONS[g].modulus \in RESIDUE_CONDITIONS[g].allowed

check_config(g, p) ==
  /\ 2 ^ (DH_BITS - 1) < p /\ p < 2 ^ DH_BITS
  /\ 1 < g /\ g < p - 1
  /\ generator_is_quadratic_residue(g, p)
  /\ is_safe_prime(p)

check_peer_value(value, p) ==
  /\ 1 < value /\ value < p - 1
  /\ PEER_VALUE_FLOOR <= value /\ value <= p - PEER_VALUE_FLOOR

\* A number as `width` bytes, the most significant first, and back.
to_bytes(n, width) == [i \in 1..width |-> (n \div Digit ^ (width - i)) % Digit]
value_from_bytes(raw) ==
  LET f[i \in 0..Len(raw)] == IF i = 0 THEN 0 ELSE f[i - 1] * Digit + raw[i] IN f[Len(raw)]

(***************************************************************************)
(* handshake.py                                                            *)
(***************************************************************************)
\* The top bit is set, so a secret has exactly DH_BITS bits.
Secret == 2 ^ (DH_BITS - 1) .. 2 ^ DH_BITS - 1
public_value(g, secret, p) == ModPow(g, secret, p)
shared_key(peer_value, secret, p) == to_bytes(ModPow(peer_value, secret, p), KEY_LENGTH)

(***************************************************************************)
(* One exchange: a side that refuses stops, and so does the exchange.      *)
(***************************************************************************)
DHInit ==
  /\ dh_stage = "offered"
  /\ config \in [g : 0..8, p : 2 ^ (DH_BITS - 1) - 2 .. 2 ^ DH_BITS + 2]
  /\ exponent = [s \in {"a", "b"} |-> 0]
  /\ public = [s \in {"a", "b"} |-> NoKey]
  /\ agreed = [s \in {"a", "b"} |-> NoKey]

Refuse ==
  /\ dh_stage' = "refused"
  /\ UNCHANGED <<config, exponent, public, agreed>>

\* Side a asks for a chat: it checks the parameters and publishes g_a.
RequestChat ==
  /\ dh_stage = "offered"
  /\ IF ~check_config(config.g, config.p) THEN Refuse
     ELSE \E a \in Secret :
            /\ exponent' = [exponent EXCEPT !["a"] = a]
            /\ public' = [public EXCEPT !["a"] =
                            to_bytes(public_value(config.g, a, config.p), KEY_LENGTH)]
            /\ dh_stage' = "requested"
            /\ UNCHANGED <<config, agreed>>

\* Side b accepts: parameters, g_a, then its own value and the key.
AcceptChat ==
  /\ dh_stage = "requested"
  /\ LET g_a == value_from_bytes(public["a"]) IN
     IF ~check_config(config.g, config.p) \/ ~check_peer_value(g_a, config.p) THEN Refuse
     ELSE \E b \in Secret :
            /\ exponent' = [exponent EXCEPT !["b"] = b]
            /\ public' = [public EXCEPT !["b"] =
                            to_bytes(public_value(config.g, b, config.p), KEY_LENGTH)]
            /\ agreed' = [agreed EXCEPT !["b"] = shared_key(g_a, b, config.p)]
            /\ dh_stage' = "accepted"
            /\ UNCHANGED config

\* Side a derives the key, and compares its fingerprint with the one published.
CompleteChat ==
  /\ dh_stage = "accepted"
  /\ LET g_b == value_from_bytes(public["b"])
         key == shared_key(g_b, exponent["a"], config.p)
     IN  IF ~check_peer_value(g_b, config.p) \/ key # agreed["b"] THEN Refuse
         ELSE /\ agreed' = [agreed EXCEPT !["a"] = key]
              /\ dh_stage' = "agreed"
              /\ UNCHANGED <<config, exponent, public>>

DHNext == RequestChat \/ AcceptChat \/ CompleteChat
DHSpec == DHInit /\ [][DHNext]_dh_vars

(***************************************************************************)
(* The key of an exchange that was not refused lies in the subgroup of     *)
(* prime order (p - 1) / 2 and is not its neutral element: the residue     *)
(* table, the safe prime and the range of the values together leave the    *)
(* private exponents no bit to show (dh.py check_config, check_peer_value; *)
(* handshake.py shared_key).                                               *)
(***************************************************************************)
KeyInPrimeSubgroup ==
  dh_stage = "agreed" =>
    LET key == value_from_bytes(agreed["a"])
        order == (config.p - 1) \div 2
    IN  key # 1 /\ ModPow(key, order, config.p) = 1
        /\ \A d \in 2..(order - 1) : order % d # 0
=============================================================================
