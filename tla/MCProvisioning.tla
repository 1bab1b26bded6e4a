--------------------------- MODULE MCProvisioning ---------------------------
(* Small instances of Provisioning for TLC. *)
EXTENDS Provisioning

Profile(id, rev, policy) ==
    [id |-> id, rev |-> rev, policy |-> policy, ours |-> TRUE,
     pw |-> TRUE, param |-> TRUE, wifi |-> TRUE]

All == {Default, Owner, <<"home", 1>>, <<"home", 2>>, <<"seed", 1>>}

Image(schema, migrates, profile) ==
    [schema |-> schema, migrates |-> migrates, accepts |-> All,
     profile |-> profile]

\* Two revisions of a managed profile, the second across a schema change; a
\* bootstrap profile; a downgrade without a profile; a profile for another
\* application on firmware with stricter validators and no migration.
TestImages ==
    {Image(1, FALSE, Profile("home", 1, "reconcile")),
     Image(2, TRUE, [Profile("home", 2, "reconcile") EXCEPT !.pw = FALSE]),
     Image(1, FALSE, Profile("seed", 1, "bootstrap")),
     Image(1, FALSE, NoProfile),
     [Image(2, FALSE, [Profile("seed", 1, "bootstrap") EXCEPT !.ours = FALSE])
        EXCEPT !.accepts = {Default}]}
=============================================================================
