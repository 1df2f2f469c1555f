------------------------------ MODULE MCFormats ------------------------------
(***************************************************************************)
(* The two formats with arithmetic in them: the frames of WireCodec and    *)
(* the signed strings of SignatureFraming.  A behaviour sends one frame or *)
(* types two claims.                                                       *)
(***************************************************************************)
EXTENDS WireCodec, Sequences

CONSTANTS Chars, Digits, Numeral, MaxLength

VARIABLES format, left, right

Framing == INSTANCE SignatureFraming

(* Decimal numerals, and those of any base, are so. *)
ASSUME FramingAssumption ==
    /\ MaxLength \in Nat
    /\ Numeral \in [0..MaxLength -> Seq(Digits)] /\ Framing!Colon \notin Digits
    /\ \A m, n \in 0..MaxLength : Numeral[m] = Numeral[n] => m = n

(* Binary ones, of which a claim of two bytes needs two digits *)
MCNumeral == [n \in 0..MaxLength |-> <<<<"0">>, <<"1">>, <<"1", "0">>, <<"1", "1">>>>[n + 1]]

FormatsInit ==
    \/ format = "frame" /\ Init /\ left = Framing!Empty /\ right = Framing!Empty
    \/ /\ format = "claims" /\ Framing!Init
       /\ frame = [type |-> "create_channel"] /\ place = "handled" /\ inner = -1

FormatsNext ==
    /\ UNCHANGED format
    /\ \/ format = "frame" /\ Next /\ UNCHANGED <<left, right>>
       \/ format = "claims" /\ Framing!Next /\ UNCHANGED vars

FormatsSpec == FormatsInit /\ [][FormatsNext]_<<format, vars, left, right>>

-----------------------------------------------------------------------------
(* No choice of nicks and texts with "|", ":" and digits in them makes two *)
(* claims sign the same string (identity.ts, frame and the signed data).   *)
SignatureBindsClaim == Framing!SignatureBindsClaim
=============================================================================
