\* A word has 8 bits, a byte 4, a float 6 significant bits (degree-2 polynomials of
\* the madd kernel stay below 2^6, as degree-8 ones stay below 2^24).
CONSTANTS
  WORD = 8
  BYTE = 4
  MANTISSA = 6
  SIEVE_MAX = 12
  POLY = 140
  CRC_N = 6
  IMAGE = 4
  BULK_N = 16
  BULK_ROUNDS = 7
  SIZES <- MCSizes
  SKEW = 3
  STRIDE = 2
  ITERS = 12
  VOICES = 2
  SAMPLE_MEM = 8
  FRAMES = 8
  SAMPLES_PER_FRAME = 3
  FRACTION = 3
  PITCH = 4
  DETUNE = 3
  ENV_BITS = 3
  ATTACK = 3
  DECAY = 1
  SUSTAIN = 5
  RELEASE = 2
  MAT = 4
  SCALE_A = 5
  SCALE_B = 9
  ONE = 1000
  DOT_M = 2
  DOT_K = 16
  NPTS = 8
  DEG = 2
  Numbers <- MCNumbers
  Seeds <- MCSeeds
SPECIFICATION InstanceSpec
INVARIANTS UsedInstanceAgrees ReferencesAreRight RelaxedChoicesAgree
