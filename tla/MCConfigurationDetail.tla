------------------------ MODULE MCConfigurationDetail ------------------------
EXTENDS ConfigurationDetail

MCKindOf == [id \in Ids |-> CASE id = "e1" -> "CRAWLENTITY" [] id \in {"s1", "s2", "s3"} -> "SEED"
                              [] id = "j1" -> "CRAWLJOB" [] id = "b1" -> "BROWSERCONFIG"
                              [] id = "x1" -> "BROWSERSCRIPT"]
MCInitially == [id \in Ids |-> CASE id = "s1" -> {"e1", "j1"} [] id = "s2" -> None [] id = "s3" -> {"e1"}
                                 [] OTHER -> {}]
MCChoices == [id \in Ids |-> CASE id = "s1" -> {[refs |-> {"e1"}, disabled |-> "yes"]}
                               [] id = "j1" -> {[refs |-> {}, disabled |-> "no"]} [] OTHER -> {}]
MCPages == {PageOf("j1"), PageOf("s1"), PageOf("e1")}
MCUsers == {{"ADMIN"}, {"CONSULTANT"}}
MCAdmins == {{"ADMIN"}}
=============================================================================
