---------------------------- MODULE MCCheckPath ----------------------------
(* A small instance of CheckPath: the rows that can be stored are chosen so
   that specificity, priority, status, the global rule, a rule that does not
   build and a second client all play a part. *)
EXTENDS CheckPath

MCValidator == <<"ip_address", "api_key">>

MCScriptValidator == <<"ip_address">>

MCScripts == <<"fixed_window", "token_bucket">>

Row(client, sig, priority, algo, builds, status) ==
  [client |-> client, endpoint |-> "/a", sig |-> sig, priority |-> priority,
   algo |-> algo, builds |-> builds, status |-> status]

MCRows ==
  {Row("c1", {1}, 0, "fixed_window", TRUE, "active"),
   Row("c1", {2}, 1, "token_bucket", TRUE, "active"),
   Row("c1", {1, 2}, 0, "token_bucket", FALSE, "active"),
   Row("c1", {}, 0, "fixed_window", TRUE, "active"),
   Row("c1", {1}, 0, "fixed_window", TRUE, "inactive"),
   Row("c2", {}, 0, "token_bucket", TRUE, "active")}

(* One rule whose algorithm is not the one of the static default. *)
MCScriptRows == {Row("c1", {1}, 0, "token_bucket", TRUE, "active")}

=============================================================================
