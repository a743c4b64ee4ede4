SPECIFICATION FairSpec
CONSTANTS
    None = None
    join = join
    data = data
    dev1 = dev1
    dev2 = dev2
    Uplink = {u1, u2}
    Corr = {join, data}
    Device = {dev1, dev2}
    Sender <- TwoSenders
    Joins = {join}
    Downlink = {d1, d2}
    Delays = {5}
    Timer = 14
    Interval = 4
    Second = 2
    MaxSeconds = 3
    ScheduledTtl = 0
    DeviceTtl = 2
    AckTtl = 1
    Earlier = {2}
    MaxNow = 3
INVARIANTS
    TypeOK
    DelayAsMeant
    DeviceAsMeant
    DeviceOutlivesTimestamp
    OneRequestPerUplink
    OneAckPerDownlink
PROPERTIES
    ImplementsContract
    AckNamesItsDownlink
    DownlinksSettle
CHECK_DEADLOCK FALSE
