----------------------------- MODULE MCMonitors -----------------------------
EXTENDS Monitors

MCHostErrors == {<<"cpu", "IERR">>, <<"cpu", "ThermalTrip">>, <<"mem", "IERR">>}

ResetTimer ==
  [use |-> "BIOSFRB2", action |-> "HardReset", interrupt |-> "None", nolog |-> FALSE]
PowerOffTimer ==
  [use |-> "SMSOS", action |-> "PowerOff", interrupt |-> "NMI", nolog |-> FALSE]
SilentTimer ==
  [use |-> "OEM", action |-> "None", interrupt |-> "other", nolog |-> TRUE]

MCTimers == {ResetTimer, PowerOffTimer, SilentTimer}

Build(monitors, service, delete, errors, timers) ==
  [monitors |-> monitors, service |-> service, delete |-> delete,
   errors |-> errors, timers |-> timers]

CpuErrors == {<<"cpu", "IERR">>, <<"cpu", "ThermalTrip">>}

MCBuilds == {
  Build({"alarm"}, FALSE, FALSE, {}, {}),
  Build({"alarm"}, FALSE, TRUE, {}, {}),
  Build({"alarm"}, TRUE, FALSE, {}, {}),
  Build({"host_error"}, FALSE, FALSE, MCHostErrors, {}),
  Build({"host_error"}, FALSE, TRUE, CpuErrors, {}),
  Build({"host_error"}, TRUE, FALSE, CpuErrors, {}),
  Build({"watchdog"}, FALSE, TRUE, {}, MCTimers),
  Build({"pulse"}, FALSE, FALSE, {}, {}),
  Build({"alarm", "watchdog"}, FALSE, FALSE, {}, {SilentTimer}),
  Build({"host_error", "watchdog"}, FALSE, FALSE, {<<"mem", "IERR">>}, {ResetTimer}),
  Build({"watchdog", "pulse"}, TRUE, FALSE, {}, {ResetTimer, SilentTimer})}
=============================================================================
