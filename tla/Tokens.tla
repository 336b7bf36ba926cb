------------------------------- MODULE Tokens -------------------------------
(***************************************************************************)
(* core/security/tokens.py: the tokens an instance signs and the ones it   *)
(* verifies, with the keyring and the clock of its own.  Time is counted   *)
(* in fractions of a second, of which int(time.time()) drops what is not   *)
(* whole.  Signing and parsing are taken to be exact: a token that         *)
(* verifies has the claims it was issued with.                             *)
(***************************************************************************)
EXTENDS Integers

CONSTANTS
  Second,        \* fractions per second
  TTL,           \* AUTH_TOKEN_TTL_SECONDS
  Leeway,        \* _CLOCK_SKEW_LEEWAY_SECONDS
  MaxSkew,       \* how far the clock of an instance is ahead, at most
  Kids           \* ids of signing keys

ASSUME TokensAssumption ==
  /\ Second \in Nat \ {0}
  /\ TTL \in Nat /\ Leeway \in Nat /\ MaxSkew \in Nat
  /\ MaxSkew + Second <= Leeway

(* What the settings accept: an active key that is one of the keyring, which
   is therefore not empty. *)
Config == {c \in [keys : SUBSET Kids, active : Kids] : c.active \in c.keys}

(* int(time.time()) *)
WholeSeconds(clock) == (clock \div Second) * Second

(* TokenService.issue *)
Issue(clock, config) ==
  [kid |-> config.active, iat |-> WholeSeconds(clock), exp |-> WholeSeconds(clock) + TTL]

(* TokenService.verify: the key is known, the token has not expired and was
   not issued in the future, each with the leeway. *)
Verifies(token, clock, config) ==
  /\ token.kid \in config.keys
  /\ token.exp > clock - Leeway
  /\ token.iat <= clock + Leeway

(* expires_in is kept: while the clocks differ by a second less than the
   leeway, a token verifies on every instance that has its key for all of
   its TTL, and on none once the leeway and the skew have passed as well. *)
TokenLifetime ==
  \A issuer, verifier \in Config :
    \A issued, age \in Nat : \A ahead, verifierAhead \in 0 .. MaxSkew :
      LET token == Issue(issued + ahead, issuer)
          ok == Verifies(token, issued + age + verifierAhead, verifier)
      IN  /\ age < TTL /\ issuer.active \in verifier.keys => ok
          /\ age >= TTL + Leeway + MaxSkew => ~ok

=============================================================================
