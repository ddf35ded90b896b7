----------------------------- MODULE MCAccounts -----------------------------
(***************************************************************************)
(* Accounts with one name and an invalid one, passwords and peppers over   *)
(* two characters, so that a password followed by a pepper can read like   *)
(* another password followed by another pepper, and four configurations:   *)
(* the first, one with other Argon2 parameters, one with another pepper    *)
(* and other keys, and one beyond what Verify allows.                      *)
(***************************************************************************)
EXTENDS Accounts

CONSTANTS ann, x

MCPasswords == {<<>>, <<"a">>, <<"a", "b">>}
MCMaxAllowed == [memory |-> 4, time |-> 2, threads |-> 2]

Params(memory, time, keyLen) ==
  [memory |-> memory, time |-> time, threads |-> 1, keyLen |-> keyLen]

Config(params, pepper, key) ==
  [params |-> params, pepper |-> pepper, secret |-> key, key |-> key]

MCSettings ==
  {Config(Params(4, 2, 2), <<"b">>, "key"),
   Config(Params(2, 1, 1), <<"b">>, "key"),
   Config(Params(4, 2, 2), <<>>, "newkey"),
   Config(Params(5, 2, 2), <<"b">>, "key")}
=============================================================================
