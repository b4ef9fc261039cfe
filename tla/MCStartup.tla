------------------------------ MODULE MCStartup ------------------------------
(***************************************************************************)
(* Configurations for module Startup: the defaults, what the other         *)
(* listeners look like, and each of them with one value at its boundary.   *)
(***************************************************************************)
EXTENDS Startup

Three ==
  [DefaultConfig EXCEPT
     !.motd = <<Text(5, FALSE)>>,
     !.listeners = @ \o <<Listener("vatsim", "Vatsim", "0.0.0.0", 6810, 4096, 500),
                          Listener("aster", "AsterV1", "0.0.0.0", 6811, 4096, 500)>>]

SoundConfigs == {DefaultConfig, Three}

Blank == Text(0, FALSE)
Delimited == Text(14, TRUE)

Edges(c) ==
  {[c EXCEPT !.name = Blank], [c EXCEPT !.product_message = Blank],
   [c EXCEPT !.product_message = Delimited], [c EXCEPT !.logging_level = Blank],
   [c EXCEPT !.max_clients = 0], [c EXCEPT !.mailbox_capacity = 0],
   [c EXCEPT !.wind_delta_interval_seconds = 0], [c EXCEPT !.listeners = <<>>],
   [c EXCEPT !.listeners[1].max_frame_bytes = 0], [c EXCEPT !.listeners[1].max_frame_bytes = 512],
   [c EXCEPT !.listeners[1].idle_timeout_seconds = 0], [c EXCEPT !.min_connections = 0],
   [c EXCEPT !.min_connections = 101], [c EXCEPT !.min_connections = 100]}

EdgeConfigs ==
  SoundConfigs \cup UNION {Edges(c) : c \in SoundConfigs}
    \cup {[Three EXCEPT !.listeners[3].name = "vatsim"], [Three EXCEPT !.listeners[3].port = 6810],
          [Three EXCEPT !.listeners[2].max_frame_bytes = 0],
          [Three EXCEPT !.listeners[3].idle_timeout_seconds = 0]}
=============================================================================
