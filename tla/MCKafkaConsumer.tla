---------------------------- MODULE MCKafkaConsumer ----------------------------
(* Small instances of KafkaConsumer: two partitions and two members.            *)
EXTENDS KafkaConsumer, TLC

CONSTANTS deposits, kycs

(* With a record that does not parse and one of a kind nobody handles, each     *)
(* before one that is handled; updates with and without a claim.                *)
MCLog ==
    deposits :> <<"deposit", "malformed", "otherStatus">> @@
    kycs     :> <<"unregistered", "kyc">>

(* Records that all parse, with three, two, one and no updates. *)
ParsingLog ==
    deposits :> <<"deposit", "order">> @@
    kycs     :> <<"kyc", "otherStatus">>

(* The members are interchangeable (safety runs only). *)
MemberSymmetry == Permutations(Members)
================================================================================
