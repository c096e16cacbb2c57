--------------------------- MODULE MCConfiguration ---------------------------
(* Model checking of Configuration: three settings that differ in every field. *)
EXTENDS Configuration

Profile(n, interval, colours, key) ==
    [f \in Fields |-> CASE f = "poll" -> interval
                        [] f = "theme" -> colours
                        [] f = "key" -> key
                        [] OTHER -> n]

Factory == Profile(1, 5, "light", None)
Quiet == Profile(2, 10, "light", "key")
Night == Profile(3, 5, "dark", None)
Dialogs == {Quiet, Night}

Nothing == [f \in Files |-> Absent]
Earlier == [f \in Files |->
              CASE f = "config.yaml" -> Factory
                [] f = "user_settings.yaml" -> [g \in Fields \ {"key"} |-> Night[g]]
                [] f = "secrets.yaml" -> "old key"
                [] OTHER -> "old db"]
Locations == {Nothing, Earlier}

Policies == <<{"connection", "object"}, {}, {"object"}>>
=============================================================================
