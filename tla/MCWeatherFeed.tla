--------------------------- MODULE MCWeatherFeed ---------------------------
(* One body per outcome of the validation and of the parser: complete, two *)
(* readings missing (quality drops), one missing, and the bad ones.        *)
EXTENDS WeatherFeed

Body(t, h, w, p, e) ==
  [temp |-> t, humidity |-> h, wind |-> w, pressure |-> p, epoch |-> e]

MCBodies ==
  { Body("in", "in", "in", "in", TRUE),
    Body("in", "absent", "absent", "in", TRUE),
    Body("in", "in", "in", "absent", FALSE),
    Body("absent", "in", "in", "in", TRUE),
    Body("in", "out", "absent", "in", TRUE),
    Body("out", "in", "in", "in", TRUE),
    Body("in", "in", "text", "in", FALSE) }
=============================================================================
