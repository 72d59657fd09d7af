------------------------------- MODULE Timing -------------------------------
(***************************************************************************)
(* The clock arithmetic of Timing.cpp and the schedule of a network cycle  *)
(* in NetworkConfig.h, in 32-bit arithmetic: times are uint32_t and wrap   *)
(* after 71 minutes, offsets and differences are int32_t.                  *)
(***************************************************************************)
EXTENDS Integers

TwoTo31 == 32768 * 65536
TwoTo32 == 65536 * 65536
UInt32 == 0..(TwoTo32 - 1)
Int32 == (0 - TwoTo31)..(TwoTo31 - 1)

Wrap(x) == x % TwoTo32
AsInt32(x) == IF x >= TwoTo31 THEN x - TwoTo32 ELSE x

\* 0 stands for the time as long as no clock is registered.
GetCurrentCalibratedTimeUs(registered, ticks, time_offset) ==
    IF registered THEN Wrap(ticks + time_offset) ELSE 0

TimeDiff(later, earlier) == AsInt32(Wrap(later - earlier))
ToHostTime(device_time, offset) == Wrap(device_time + offset)
ToDeviceTime(host_time, offset) == Wrap(host_time - offset)

-----------------------------------------------------------------------------
\* NetworkTime, in microseconds

to_us == 1000
network_cycle_time  == 40 * to_us
beacon_time         == 2 * to_us
udp_time            == 5 * to_us
robot_command_time  == 2 * to_us
robot_response_time == 2 * to_us

\* The static_assert of the schedule and the one of SystemConstants.
FitsCycle(num_robots) ==
    /\ num_robots \in 1..6
    /\ beacon_time + udp_time + (robot_command_time + robot_response_time) * num_robots
          <= network_cycle_time

GetBeaconStartTime(start) == start
GetUdpStartTime(start) == Wrap(GetBeaconStartTime(start) + beacon_time)
GetRobotCommandStartTime(start, robot_idx) ==
    Wrap(GetUdpStartTime(start) + udp_time + robot_command_time * (robot_idx - 1))
GetRobotResponseStartTime(num_robots, start, robot_idx) ==
    Wrap(GetRobotCommandStartTime(start, num_robots + 1) + robot_response_time * (robot_idx - 1))

\* How far into the cycle a time is: what a station that compares its clock
\* with the start of the cycle computes.
Into(start, time) == TimeDiff(time, start)
=============================================================================
