--------------------------- MODULE AllowOperands ---------------------------
(***************************************************************************)
(* How the broker reads the operands of `ghbrk allow` (src/broker.rs): one *)
(* built-in role, or operations only.  Shared by Broker, where the reading *)
(* becomes a rule of the policy file, and Dispatch, where it is compared   *)
(* with what was typed.                                                    *)
(***************************************************************************)
EXTENDS Policy

\* A role is an operand by its built-in name only, whatever the policy declares.
is_known_role(word) == word \in BUILTIN_ROLE_NAMES

\* parse_operations_spec finds no operand to complain of.
OperandsParse(operands) ==
    /\ operands # <<>>
    /\ \/ Len(operands) = 1 /\ is_known_role(operands[1])
       \/ \A i \in DOMAIN operands : operands[i] \in Operation

\* What it makes of operands that parse.
parse_operations_spec(operands) ==
    IF Len(operands) = 1 /\ is_known_role(operands[1])
    THEN [kind |-> "role", name |-> operands[1]]
    ELSE [kind |-> "list", ops |-> {operands[i] : i \in DOMAIN operands}]
=============================================================================
