----------------------------- MODULE SignalPath -----------------------------
(***************************************************************************)
(* From the bus to the two exporters.  The tracker's callbacks reach the   *)
(* gauges in the same GLib handler: DBusSignalListener._process_values and *)
(* _invalidate_service (src/venus_observability/dbus_listener.py) call     *)
(* VictronMetrics (OpenTelemetry) and the direct Prometheus gauges         *)
(* (src/venus_observability/metrics.py) one after the other.               *)
(*                                                                         *)
(* A path stands for one gauge with its cell or phase label, so a series   *)
(* is a serial label and a path.  A reading is the batch it came in and    *)
(* the connection that sent it; its number is left out.                    *)
(***************************************************************************)
EXTENDS OwnerTracker

CONSTANTS Serial,                \* serial labels
          OtelSerial, PromSerial \* the label each exporter derives from a name

ASSUME SerialsOfNames ==
  OtelSerial \in [Name -> Serial] /\ PromSerial \in [Name -> Serial]

\* What _handle_value makes of an item: a finite number, an unavailable value
\* (_numeric_or_nan yields NaN), or no Value member at all.
Item == {"number", "unavailable", "no value"}

ASSUME PayloadsHoldItems == \A b \in Contents : \A p \in DOMAIN b : b[p] \in Item

VARIABLES sample,       \* _ObservedGauge._samples of every gauge
          active,       \* the publisher in VictronMetrics._active_gauges
          child,        \* the value of a direct Prometheus child, NaN as NoReading
          publisher     \* _prometheus_publishers

otelVars == <<sample, active>>
promVars == <<child, publisher>>
pathVars == <<vars, otelVars, promVars>>

Series == Serial \X Path
NoReading == [id |-> 0, origin |-> NoConn]
Reading == [id : Nat \ {0}, origin : Conn]
Exported == Reading \cup {NoReading}

InitGauges ==
  /\ sample = [s \in Series |-> NoReading] /\ active = [s \in Series |-> NoName]
  /\ child = [s \in Series |-> NoReading] /\ publisher = [s \in Series |-> NoName]

\* The deliveries of a handler that set series s of an exporter.
Writes(cs, serial, s) ==
  {d \in cs.deliver :
     /\ serial[d.service] = s[1]
     /\ s[2] \in DOMAIN d.changed
     /\ Wanted(d.service, d.iface, s[2])
     /\ d.changed[s[2]] # "no value"}

\* Deliveries are made in the order of the queue, so the newest write stays.
Newest(ds) == CHOOSE d \in ds : \A e \in ds : e.id <= d.id

\* What a delivery leaves in a series: its number, or no reading.
Shown(d, p) ==
  IF d.changed[p] = "number" THEN [id |-> d.id, origin |-> d.owner] ELSE NoReading

\* VictronMetrics._set_gauge drops an unavailable series with its publisher;
\* invalidate_service drops those of the lost service.  Mutants: the publisher
\* of an unavailable series is kept; every series with the label is dropped.
ExportOtelKeepsPublisher(cs) ==
  LET writes(s) == Writes(cs, OtelSerial, s)
      lost(s) == active[s] \in cs.invalidate
  IN  /\ sample' = [s \in Series |->
           IF writes(s) # {} THEN Shown(Newest(writes(s)), s[2])
           ELSE IF lost(s) THEN NoReading ELSE sample[s]]
      /\ active' = [s \in Series |->
           IF writes(s) # {} THEN Newest(writes(s)).service
           ELSE IF lost(s) THEN NoName ELSE active[s]]
ExportOtelBySerial(cs) ==
  LET writes(s) == Writes(cs, OtelSerial, s)
      lost(s) == \E n \in cs.invalidate : OtelSerial[n] = s[1]
  IN  /\ sample' = [s \in Series |->
           IF writes(s) # {} THEN Shown(Newest(writes(s)), s[2])
           ELSE IF lost(s) THEN NoReading ELSE sample[s]]
      /\ active' = [s \in Series |->
           IF writes(s) # {}
           THEN IF Newest(writes(s)).changed[s[2]] = "number"
                THEN Newest(writes(s)).service ELSE NoName
           ELSE IF lost(s) THEN NoName ELSE active[s]]
ExportOtel(cs) ==
  LET writes(s) == Writes(cs, OtelSerial, s)
      lost(s) == active[s] \in cs.invalidate
  IN  /\ sample' = [s \in Series |->
           IF writes(s) # {} THEN Shown(Newest(writes(s)), s[2])
           ELSE IF lost(s) THEN NoReading ELSE sample[s]]
      /\ active' = [s \in Series |->
           IF writes(s) # {}
           THEN IF Newest(writes(s)).changed[s[2]] = "number"
                THEN Newest(writes(s)).service ELSE NoName
           ELSE IF lost(s) THEN NoName ELSE active[s]]

\* _set_prometheus_gauge records the publisher of an unavailable value too;
\* invalidate_prometheus_service turns the children of the lost one to NaN.
\* Mutant: the first publisher of a child stays its publisher.
ExportPromFirstPublisher(cs) ==
  LET writes(s) == Writes(cs, PromSerial, s)
      lost(s) == publisher[s] \in cs.invalidate
  IN  /\ child' = [s \in Series |->
           IF writes(s) # {} THEN Shown(Newest(writes(s)), s[2])
           ELSE IF lost(s) THEN NoReading ELSE child[s]]
      /\ publisher' = [s \in Series |->
           IF publisher[s] # NoName /\ ~lost(s) THEN publisher[s]
           ELSE IF writes(s) # {} THEN Newest(writes(s)).service
           ELSE IF lost(s) THEN NoName ELSE publisher[s]]
ExportProm(cs) ==
  LET writes(s) == Writes(cs, PromSerial, s)
      lost(s) == publisher[s] \in cs.invalidate
  IN  /\ child' = [s \in Series |->
           IF writes(s) # {} THEN Shown(Newest(writes(s)), s[2])
           ELSE IF lost(s) THEN NoReading ELSE child[s]]
      /\ publisher' = [s \in Series |->
           IF writes(s) # {} THEN Newest(writes(s)).service
           ELSE IF lost(s) THEN NoName ELSE publisher[s]]

PathInit == Init /\ InitGauges

PathNext == Next /\ ExportOtel(calls') /\ ExportProm(calls')

PathSpec == PathInit /\ [][PathNext]_pathVars
-----------------------------------------------------------------------------
(* Properties.                                                             *)

GaugesTypeOK ==
  /\ sample \in [Series -> Exported] /\ child \in [Series -> Exported]
  /\ active \in [Series -> Name \cup {NoName}]
  /\ publisher \in [Series -> Name \cup {NoName}]

\* While the listener runs, no exporter shows a reading of a connection that
\* has lost the name it was published under, as far as the tracker has read:
\* a service that restarts or leaves takes its last readings with it.
NoSupersededReading ==
  ~closed =>
    \A s \in Series :
      /\ active[s] # NoName => sample[s].origin = services[active[s]]
      /\ child[s] # NoReading => child[s].origin = services[publisher[s]]

\* _active_gauges names exactly the series that have a sample: a series that
\* is shown can always be found again when its publisher is lost.
SamplesAreOwned ==
  \A s \in Series :
    /\ active[s] = NoName <=> sample[s] = NoReading
    /\ publisher[s] = NoName => child[s] = NoReading

\* Where both exporters derive the same label, they show the same reading,
\* though one forgets unavailable series and the other keeps their publisher.
ExportersAgree == OtelSerial = PromSerial => sample = child

\* A series loses its reading only to an unavailable value or to the loss of
\* its own publisher, never to another service with the same serial label.
LostOnlyByItsPublisher ==
  [][\A s \in Series :
       sample[s] # NoReading /\ sample'[s] = NoReading =>
         \/ active[s] \in calls'.invalidate
         \/ \E d \in calls'.deliver :
              s[2] \in DOMAIN d.changed /\ d.changed[s[2]] = "unavailable"]_pathVars

\* With the subscriptions made before the first batch, an exporter never goes
\* back to an older reading of the same connection, replays included.
NewestReadingWins ==
  [][\A s \in Series :
       sample'[s].origin = sample[s].origin => sample[s].id <= sample'[s].id]_pathVars

\* What the README says of explicitly unavailable values: they remove the
\* previous sample, so that no path publishes a stale reading.  No exporter
\* then shows what the same connection sent for that path before.
UnavailableRemoves ==
  [][\A d \in calls'.deliver : \A p \in DOMAIN d.changed :
       d.changed[p] = "unavailable" =>
         \A s \in Series :
           s[2] = p /\ sample'[s].origin = d.owner => sample'[s].id > d.id]_pathVars
=============================================================================
