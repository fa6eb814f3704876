CONSTANTS
  Values        = 4
  NumLeds       = 3
  MaxBrightness = 3
  Digits        = {1, 6, 11}
  Buffers       = {8, 96, 97, 128, 138}
  Pins          = {"sw0", "led0"}
  QueueSize     = 4
  Families      = {{"external_flash"}, {"sms"}, {"led_pwm"}, {"codec"},
                   {"external_rtc_time_sync", "external_rtc"},
                   {"direct_i2c_access", "active_sleep", "accelerometer_zbus"}}
SPECIFICATION FairSpec
INVARIANTS
  FlashSafe
  SmsSafe
  SyncSafe
  LedSafe
  CodecSafe
  AccelSafe
  ThreadsGoOn
PROPERTIES
  MarkedCountKept
  ImplementsCounter
  ImplementsSampler
  PressServed
  ClockServed
  EveryLedTested
  TickServed
CHECK_DEADLOCK FALSE
