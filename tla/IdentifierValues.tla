-------------------------- MODULE IdentifierValues --------------------------
(***************************************************************************)
(* model/identifier_validation.py: what a validator makes of the value of  *)
(* an identifier.  A value is whom it names and how it is written:         *)
(*   plain    the canonical text                                           *)
(*   cased    other case, or for an address another notation of it         *)
(*   mapped   an IPv4 address written as ::ffff:a.b.c.d                    *)
(*   hosted   a network written with host bits                             *)
(*   spaced   with a space                                                 *)
(*   bad      too long or too short, with a control character or a zone id *)
(***************************************************************************)
CONSTANTS
  Named,         \* whom values name
  Forms,         \* how they may be written
  Invalid        \* InvalidIdentifierValue

AllForms == {"plain", "cased", "mapped", "hosted", "spaced", "bad"}

ASSUME FormsAssumption == Forms \subseteq AllForms

Values == [who : Named, form : Forms]

(* A slip: the IPv6 form of an IPv4 address is kept. *)
KeptMapped ==
  [opaque |-> {"plain", "cased", "mapped", "hosted"}, api_key |-> {"plain", "cased"},
   user_agent |-> {"plain", "cased", "mapped", "hosted", "spaced"}, slug |-> {"plain"},
   ip_address |-> {"plain", "mapped"}, ip_range |-> {"plain", "mapped"}]

(* The forms each validator returns as they are ... *)
Kept ==
  [opaque     |-> {"plain", "cased", "mapped", "hosted"},
   api_key    |-> {"plain", "cased"},
   user_agent |-> {"plain", "cased", "mapped", "hosted", "spaced"},
   slug       |-> {"plain"},
   ip_address |-> {"plain"},
   ip_range   |-> {"plain", "mapped"}]

(* ... and those it turns into the canonical one. *)
Folded ==
  [opaque |-> {}, api_key |-> {}, user_agent |-> {}, slug |-> {"cased"},
   ip_address |-> {"cased", "mapped"}, ip_range |-> {"cased", "hosted"}]

(* validate_and_normalize *)
Normalize(validator, value) ==
  CASE value.form \in Kept[validator] -> value
    [] value.form \in Folded[validator] -> [value EXCEPT !.form = "plain"]
    [] OTHER -> Invalid

(* What a value stands for: an address, a range, a word in any case, or just
   itself. *)
Meaning(validator, value) ==
  CASE validator \in {"ip_address", "slug"} -> <<value.who>>
    [] validator = "ip_range" -> <<value.who, value.form = "mapped">>
    [] OTHER -> <<value.who, value.form>>

=============================================================================
