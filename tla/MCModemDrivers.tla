--------------------------- MODULE MCModemDrivers ---------------------------
(* Every function of every driver, in groups that work on the same state.  *)
EXTENDS ModemDrivers

Power == {"initialize", "isModemOn", "switchModem", "reboot"}
Attach == {"initialize", "attach", "detach", "isAttached"}
Report == {"cereg", "getDeviceId"}
Saving == {"pm", "sendAtCommand"}
Socket == {"connect", "disconnect", "write"}
Receive == {"connect", "read"}

\* The two SARA drivers differ in the text of commands only: they share the groups.
MCScenarios ==
  ({"BC95", "BG96"} \X {Power, Attach, Report, Saving, Socket, Receive})
  \cup ({"B656"} \X {Attach, Saving, Socket}) \cup ({"B657"} \X {Power, Report, Receive})
  \cup ({"tools"} \X {Power, Attach, Report, Socket, Receive})

\* Where a call may send many commands, or poll for as long as there is time.
LongCalls ==
  ({"BC95"} \X {Power, Saving, Receive}) \cup ({"BG96", "tools"} \X {Power, Receive})
  \cup {<<"B657", Receive>>}
=============================================================================
