----------------------------- MODULE MCProfiles -----------------------------
EXTENDS ProfileSessions

CONSTANTS p1, p2, a, b, c, k1, k2, k3, k4, k5

Nothing == [op |-> "none", conn |-> k1, name |-> "n1", value |-> "none", overwrite |-> TRUE,
            path |-> "ttyACM0", expected |-> 0, target |-> 0]
Does(op) == [Nothing EXCEPT !.op = op]
On(k, op) == [Does(op) EXCEPT !.conn = k]
To(k, op, value) == [On(k, op) EXCEPT !.value = value]
Named(op, n) == [Does(op) EXCEPT !.name = n]
Rolls(expected, target) == [Does("rollback") EXCEPT !.expected = expected, !.target = target]

(* A recognised device, its second interface, another of its kind and a    *)
(* port without a serial number.                                           *)
Device == [path |-> "ttyACM0", transport |-> "usb", vid |-> "v", pid |-> "p", serial |-> "x",
           interface |-> "0", rest |-> "r", family |-> "acm"]
Second == [Device EXCEPT !.path = "ttyACM1", !.interface = "1"]
Other == [Device EXCEPT !.path = "ttyACM2", !.serial = "y", !.interface = "none"]
Weak == [Device EXCEPT !.path = "ttyACM3", !.serial = "none"]
Twin == [Device EXCEPT !.path = "ttyACM4"]
Bare == [Weak EXCEPT !.path = "ttyS0", !.transport = "other", !.family = "s"]
ByPattern == [AnySelector EXCEPT !.family = "acm"]
AnyInterface == [canonical_high_selector(Device) EXCEPT !.interface = "any"]

Stored1 == [NoProfile EXCEPT !.revision = 1, !.defaults = Defaults("s1", 1), !.selector = canonical_high_selector(Device),
            !.used = 1, !.uses = 1, !.inc = 1, !.since = 1]
Stored2 == [Stored1 EXCEPT !.revision = 2, !.defaults = Defaults("s2", 1),
            !.history = <<[revision |-> 1, defaults |-> Defaults("s1", 1), selector |-> canonical_high_selector(Device)]>>]
OnlyN1(p) == [n \in {"n1"} |-> p]
Empty == [n \in {} |-> NoProfile]

(* a is served by p1 and owns k1, k3 and k5, b by a process of its choice  *)
(* and owns k2 and k4, c is served by p2.                                  *)
Work3(first, second, third, b_at, profiles) ==
  [scripts |-> [t \in Clients |-> CASE t = a -> first [] t = b -> second [] t = c -> third],
   proc |-> [t \in Clients |-> CASE t = a -> p1 [] t = b -> b_at [] t = c -> p2],
   owner |-> [k \in Conns |-> IF k \in {k1, k3, k5} THEN p1 ELSE b_at],
   ports |-> {Device, Second, Other, Weak, Bare}, allowlist |-> {}, profiles |-> profiles, clock |-> [p \in Procs |-> IF p = p1 THEN 2 ELSE 1],
   faults |-> 0, crash |-> "none", drops |-> {}]
Work(first, second, b_at, profiles) == Work3(first, second, <<>>, b_at, profiles)

MCWorkloads == {
  \* a session that learns at change and close, against a configure in another process
  Work3(<<Does("open"), To(k1, "reconfigure", "s3"), Does("close")>>,
        <<[Does("configure") EXCEPT !.value = "s4"], Does("list")>>, <<Rolls(2, 1)>>, p2, OnlyN1(Stored1)),
  \* sessions of two processes on one profile, one after the other
  Work(<<To(k1, "open", "s3"), Does("close")>>, <<To(k2, "open", "s4"), On(k2, "close")>>, p2, OnlyN1(Stored1)),
  \* a named session against rollbacks in the same process: retained, evicted, in conflict
  Work3(<<Named("open_profile", "n1"), Does("close")>>, <<Rolls(2, 1), Rolls(2, 1), Rolls(3, 7)>>,
        <<Does("configure")>>, p1, OnlyN1(Stored2)),
  \* two processes generate a profile for the same device
  Work(<<Does("open"), Does("close"), On(k3, "open")>>, <<On(k2, "open"), To(k2, "reconfigure", "s2"), On(k2, "close")>>,
       p2, Empty),
  \* profiles that come and go under a session
  Work(<<To(k1, "open", "s3"), Does("close")>>, <<Does("delete"), Does("delete"), Does("configure")>>, p2, OnlyN1(Stored1)),
  Work(<<Does("open"), Does("close"), On(k3, "open_bare"), To(k3, "reconfigure", "s2"),
         [Named("open_profile", "n2") EXCEPT !.conn = k5]>>,
       <<Does("delete"), [Does("configure") EXCEPT !.overwrite = FALSE], Rolls(1, 1)>>, p1,
       [n \in {"n1", "n2"} |-> Stored1]),
  Work3(<<Does("open"), To(k1, "reconfigure", "s3"), Does("close")>>,
        <<[Named("open_profile", "n2") EXCEPT !.conn = k2], Does("delete"), Does("configure")>>, <<Does("delete"), Does("configure")>>,
        p1, OnlyN1(Stored1)),
  \* a save next to a change of the same connection
  Work(<<Does("open"), Does("save"), [Does("save") EXCEPT !.overwrite = FALSE], Named("save", "n2"), Does("close")>>,
       <<To(k1, "reconfigure", "s3"), To(k1, "configure_conn", "s4"), Does("close")>>, p1, OnlyN1(Stored1)),
  \* other ports next to the device: another interface, no serial number, denied, unlisted, indistinguishable
  Work(<<[Does("open") EXCEPT !.path = "ttyACM1"], [Named("open_profile", "n1") EXCEPT !.conn = k3]>>,
       <<[On(k2, "open") EXCEPT !.path = "ttyACM3"], On(k2, "close"), [On(k4, "open") EXCEPT !.path = "ttyACM2"]>>, p1,
       [n \in {"n1", "n2", "auto"} |-> [Stored1 EXCEPT !.selector =
          CASE n = "n1" -> AnyInterface [] n = "n2" -> ByPattern [] n = "auto" -> AnySelector]]),
  Work(<<[Does("open") EXCEPT !.path = "gone"]>>, <<>>, p2, Empty),
  [Work(<<[Does("open") EXCEPT !.path = "ttyS0"]>>,
       <<[On(k2, "open") EXCEPT !.path = "ttyACM1"], [On(k2, "save") EXCEPT !.name = "n1"]>>, p2, Empty)
     EXCEPT !.allowlist = {"acm"}],
  [Work(<<Does("open"), Does("save")>>, <<[On(k2, "open") EXCEPT !.path = "ttyACM2"]>>, p2, OnlyN1(Stored1))
     EXCEPT !.ports = {Device, Twin, Other}],
  \* writes that fail, callers that leave, processes that end
  [Work(<<To(k1, "open", "s3"), To(k1, "reconfigure", "s4"), Does("close")>>, <<Rolls(1, 1)>>, p1, OnlyN1(Stored1))
     EXCEPT !.faults = 1],
  [Work(<<Does("open"), Does("close")>>, <<Does("list")>>, p1, Empty) EXCEPT !.faults = 1],
  [Work(<<Does("open"), To(k1, "reconfigure", "s3"), Does("close")>>, <<Rolls(1, 1), Does("configure"), To(k1, "reconfigure", "s4")>>,
        p1, OnlyN1(Stored1)) EXCEPT !.drops = {a, b}],
  [Work(<<Does("open"), To(k1, "reconfigure", "s3"), Does("list")>>, <<Does("configure"), Does("list")>>,
        p2, OnlyN1(Stored1)) EXCEPT !.crash = p1]}

MCGeneratedNames == <<"auto", "auto-2", "auto-3">>
=============================================================================
