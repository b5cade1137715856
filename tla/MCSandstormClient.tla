--------------------------- MODULE MCSandstormClient ---------------------------
EXTENDS SandstormClient

\* Two commands of one class, as the two socket lists have, and one of another.
MCClassOf ==
    [k \in AllCommands |->
        CASE k = "Shutdown" -> "shutdown" [] k = "Events" -> "events"
          [] k = "Meow" -> "direct" [] OTHER -> "socks5"]

=============================================================================
